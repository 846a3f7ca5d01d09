------------------------------ MODULE Cooldown ------------------------------
(***************************************************************************)
(* The per-model backoff table of cooldown.go: `cooling`, guarded by cdMu, *)
(* maps a (credential, model) pair to the backoff a 429 earned it.  Every  *)
(* operator below is one critical section of that lock.                    *)
(*                                                                         *)
(* Time.  The code stores the instant `until` and compares it with         *)
(* time.Now(); the model stores what is left of the wait, in ticks, and    *)
(* Elapse takes one tick off every entry.  "until is past" is left = 0.    *)
(* An entry that ran out stays in the table, as in the code: only a served *)
(* request deletes it, so a later 429 goes on doubling.                    *)
(***************************************************************************)
EXTENDS Integers

CONSTANTS
    Creds,             \* credentials (accountIdentity of a stored auth)
    Models,            \* bare model ids, as cooldownModel reduces them
    CooldownBase,      \* cooldownBase, in ticks
    CooldownMax,       \* cooldownMax, in ticks
    CooldownResetMax,  \* cooldownResetMax, in ticks
    FailCap            \* bound: failures are counted up to this number

(***************************************************************************)
(* `wait *= 2`, shift times; the code caps shift = failures - 1 at 5.      *)
(***************************************************************************)
Doublings == <<1, 2, 4, 8, 16, 32>>

Least(a, b) == IF a <= b THEN a ELSE b

\* The wait the code guesses for the n-th failure in a row.
ExponentialGuess(n) ==
    Least(CooldownBase * Doublings[Least(n, 6)], CooldownMax)

(***************************************************************************)
(* FailCap loses nothing: from there on the guess no longer changes.       *)
(***************************************************************************)
ASSUME CooldownAssumption ==
    /\ CooldownBase \in Nat \ {0}
    /\ CooldownMax \in Nat
    /\ CooldownResetMax \in Nat
    /\ CooldownBase <= CooldownMax
    /\ CooldownMax <= CooldownResetMax
    /\ FailCap \in Nat \ {0}
    /\ FailCap >= 6 \/ CooldownBase * Doublings[FailCap] >= CooldownMax

VARIABLE cooling       \* the backoff table

-----------------------------------------------------------------------------

Keys == Creds \X Models

\* cooldownState; `model` is the key's second half.
CooldownState == [failures : 0..FailCap, left : 0..CooldownResetMax,
                  exhausted : BOOLEAN]

\* What reading an absent key of a Go map yields.
NoState == [failures |-> 0, left |-> 0, exhausted |-> FALSE]

(***************************************************************************)
(* What a 429 can carry: the wait its Retry-After header comes to (<= 0    *)
(* when missing, not a number, not positive, or so far off that its        *)
(* nanoseconds wrap around in int64), the time until its "reset at" stamp  *)
(* (<= 0 when missing or past), and whether its code is 14018.             *)
(***************************************************************************)
Refusal == [retryAfter : Int, resetIn : Int, exhausted : BOOLEAN]

\* Retry-After first, then the reset stamp; 0 when there is neither.
Hint(refusal) ==
    IF refusal.retryAfter > 0 THEN refusal.retryAfter
    ELSE IF refusal.resetIn > 0 THEN refusal.resetIn ELSE 0

\* A regression: the cap on upstream's own hint is forgotten.
WaitUncapped(failures, refusal) ==
    IF refusal.exhausted THEN CooldownResetMax
    ELSE IF Hint(refusal) = 0 THEN ExponentialGuess(failures)
    ELSE Hint(refusal)

Wait(failures, refusal) ==
    IF refusal.exhausted THEN CooldownResetMax
    ELSE IF Hint(refusal) = 0 THEN ExponentialGuess(failures)
    ELSE Least(Hint(refusal), CooldownResetMax)

AfterRefusal(st, refusal) ==
    LET failures == Least(st.failures + 1, FailCap)
    IN  [failures  |-> failures,
         left      |-> Wait(failures, refusal),
         exhausted |-> st.exhausted \/ refusal.exhausted]

InitCooling == cooling = [k \in Keys |-> NoState]

markCooldown(c, m, refusal) ==
    cooling' = [cooling EXCEPT ![<<c, m>>] = AfterRefusal(@, refusal)]

clearCooldown(c, m) ==
    cooling' = [cooling EXCEPT ![<<c, m>>] = NoState]

cooldownRemaining(c, m) == cooling[<<c, m>>].left

Parked(c, m) == cooldownRemaining(c, m) > 0

\* One tick of the clock.
Elapse ==
    cooling' = [k \in Keys |->
                   [cooling[k] EXCEPT !.left = IF @ > 0 THEN @ - 1 ELSE 0]]

CoolingOK == cooling \in [Keys -> CooldownState]
=============================================================================
