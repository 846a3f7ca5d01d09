--------------------------- MODULE CooldownProofs ---------------------------
(***************************************************************************)
(* What the operations on the backoff table do, for every value of the     *)
(* constants.  The proofs about Fallback and Advertise cite these lemmas   *)
(* and never look inside the table again.                                  *)
(***************************************************************************)
EXTENDS Cooldown, TLAPS

LEMMA DoublingsBounds ==
    \A n \in 1..6 : Doublings[n] \in Nat \ {0}
<1>1. Doublings = <<1, 2, 4, 8, 16, 32>>
  BY DEF Doublings
<1> QED
  BY <1>1, SMT

\* The guess is at least the base and at most the maximum.
LEMMA GuessBounds ==
    ASSUME NEW n \in Nat \ {0}
    PROVE  ExponentialGuess(n) \in CooldownBase..CooldownMax
<1> DEFINE d == Doublings[Least(n, 6)]
<1>1. d \in Nat \ {0}
  BY DoublingsBounds DEF Least
<1> HIDE DEF d
<1>2. CooldownBase * d \in Nat /\ CooldownBase * d >= CooldownBase
  BY <1>1, CooldownAssumption, SMT
<1>3. ExponentialGuess(n) = Least(CooldownBase * d, CooldownMax)
  BY DEF ExponentialGuess, d
<1> QED
  BY <1>2, <1>3, CooldownAssumption DEF Least

\* Repeated failures grow the guess (nextCooldown), until it reaches the cap.
THEOREM GuessGrows ==
    ASSUME NEW n \in Nat \ {0}
    PROVE  ExponentialGuess(n) <= ExponentialGuess(n + 1)
<1> DEFINE d(k) == Doublings[Least(k, 6)]
<1>1. \A k \in 1..5 : Doublings[k] <= Doublings[k + 1]
  <2>1. Doublings = <<1, 2, 4, 8, 16, 32>>
    BY DEF Doublings
  <2> QED
    BY <2>1, SMT
<1>2. d(n) \in Nat \ {0} /\ d(n + 1) \in Nat \ {0}
  BY DoublingsBounds DEF Least
<1>3. d(n) <= d(n + 1)
  BY <1>1, DoublingsBounds DEF Least
<1>4. /\ ExponentialGuess(n) = Least(CooldownBase * d(n), CooldownMax)
      /\ ExponentialGuess(n + 1) = Least(CooldownBase * d(n + 1), CooldownMax)
  BY DEF ExponentialGuess
<1> HIDE DEF d
<1>5. CooldownBase * d(n) <= CooldownBase * d(n + 1)
  BY <1>2, <1>3, CooldownAssumption, SMT
<1> QED
  BY <1>2, <1>4, <1>5, CooldownAssumption DEF Least

\* Whatever upstream says, a refusal parks the model, and for no longer than
\* cooldownResetMax.
THEOREM WaitBounds ==
    ASSUME NEW n \in Nat \ {0}, NEW refusal \in Refusal
    PROVE  Wait(n, refusal) \in 1..CooldownResetMax
<1>1. Hint(refusal) \in Nat
  BY DEF Hint, Refusal
<1>2. ExponentialGuess(n) \in CooldownBase..CooldownMax
  BY GuessBounds
<1> QED
  BY <1>1, <1>2, CooldownAssumption DEF Wait, Least, Refusal

LEMMA InitCoolingOK == InitCooling => CoolingOK
  BY CooldownAssumption
  DEF InitCooling, CoolingOK, NoState, CooldownState

\* markCooldown parks the model it is told and touches no other entry.
THEOREM MarkParks ==
    ASSUME CoolingOK,
           NEW c \in Creds, NEW m \in Models, NEW refusal \in Refusal,
           markCooldown(c, m, refusal)
    PROVE  /\ CoolingOK'
           /\ cooling'[<<c, m>>].left > 0
           /\ \A k \in Keys : k # <<c, m>> => cooling'[k] = cooling[k]
<1> DEFINE st == cooling[<<c, m>>]
           n  == Least(st.failures + 1, FailCap)
<1>1. st \in CooldownState /\ <<c, m>> \in Keys
  BY DEF CoolingOK, Keys
<1>2. n \in Nat \ {0} /\ n \in 0..FailCap
  BY <1>1, CooldownAssumption DEF CooldownState, Least
<1>3. Wait(n, refusal) \in 1..CooldownResetMax
  BY <1>2, WaitBounds
<1>4. AfterRefusal(st, refusal) =
        [failures |-> n, left |-> Wait(n, refusal),
         exhausted |-> st.exhausted \/ refusal.exhausted]
  BY DEF AfterRefusal
<1>5. (st.exhausted \/ refusal.exhausted) \in BOOLEAN
  OBVIOUS
<1> HIDE DEF n
<1>6. AfterRefusal(st, refusal) \in CooldownState
      /\ AfterRefusal(st, refusal).left > 0
  BY <1>2, <1>3, <1>4, <1>5, CooldownAssumption DEF CooldownState
<1>7. cooling' = [cooling EXCEPT ![<<c, m>>] = AfterRefusal(st, refusal)]
  BY DEF markCooldown
<1> HIDE DEF st
<1> QED
  BY <1>1, <1>6, <1>7 DEF CoolingOK

\* clearCooldown frees the model it is told and touches no other entry.
LEMMA ClearFrees ==
    ASSUME CoolingOK, NEW c \in Creds, NEW m \in Models, clearCooldown(c, m)
    PROVE  /\ CoolingOK'
           /\ cooling'[<<c, m>>].left = 0
           /\ \A k \in Keys : k # <<c, m>> => cooling'[k] = cooling[k]
<1>1. NoState \in CooldownState /\ NoState.left = 0
  BY CooldownAssumption DEF NoState, CooldownState
<1>2. <<c, m>> \in Keys
  BY DEF Keys
<1>3. cooling' = [cooling EXCEPT ![<<c, m>>] = NoState]
  BY DEF clearCooldown
<1> QED
  BY <1>1, <1>2, <1>3 DEF CoolingOK

\* Time parks nothing.
LEMMA ElapseFrees ==
    ASSUME CoolingOK, Elapse
    PROVE  /\ CoolingOK'
           /\ \A k \in Keys : cooling'[k].left <= cooling[k].left
<1>1. ASSUME NEW k \in Keys
      PROVE  /\ cooling'[k] \in CooldownState
             /\ cooling'[k].left <= cooling[k].left
  <2>1. cooling[k] \in CooldownState
    BY DEF CoolingOK
  <2>2. cooling'[k] = [cooling[k] EXCEPT !.left = IF @ > 0 THEN @ - 1 ELSE 0]
    BY DEF Elapse
  <2> QED
    BY <2>1, <2>2, CooldownAssumption DEF CooldownState
<1> QED
  BY <1>1 DEF Elapse, CoolingOK
=============================================================================
