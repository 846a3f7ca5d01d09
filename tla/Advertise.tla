------------------------------ MODULE Advertise ------------------------------
(***************************************************************************)
(* What a credential advertises while upstream throttles it: modelsForAuth *)
(* and suppressModel (models.go, cooldown.go) against the backoff table.   *)
(*                                                                         *)
(* The host asks model.for_auth of each credential now and then and keeps  *)
(* the answer in its registry.  An answer is put together model by model,  *)
(* and suppressModel takes the lock three times for one model, so marks,   *)
(* clears and other polls come in between.  The request path is reduced to *)
(* its effect on the table: calls go out for models that are not cooling   *)
(* and come back later, refused or served, in any order.                   *)
(***************************************************************************)
EXTENDS Cooldown

CONSTANTS
    Serves,      \* per credential: the ids discovery and the publish policy
                 \* leave it to advertise
    Staleness,   \* cooldownSeenStaleness, in ticks
    Refusals,    \* the 429s upstream may answer with
    MaxCalls,    \* bound: calls in flight per credential and model
    Routes,      \* bound: the credentials and models requests come for
    Watched      \* bound: the credentials whose history is kept

ASSUME AdvertiseAssumption ==
    /\ Serves \in [Creds -> SUBSET Models]
    /\ Staleness \in Nat
    /\ Refusals \subseteq Refusal
    /\ MaxCalls \in Nat
    /\ Routes \subseteq Keys
    /\ Watched \subseteq Creds

VARIABLES
    seen,        \* lastSeen: ticks until a credential counts as gone; 0 = gone
    reach,       \* credentials whose catalog is cached or can be discovered
    calls,       \* calls in flight
    poll,        \* the local state of modelsForAuth, one call per credential
    published,   \* the host's registry
    since        \* history: what held without a break during the poll

vars == <<cooling, seen, reach, calls, poll, published, since>>

-----------------------------------------------------------------------------

(***************************************************************************)
(* A poll is off; has noted the identity and is about to look the list up; *)
(* is between two models; or is inside suppressModel, past the check of    *)
(* what remains ("flag") or past that of the exhausted flag ("peers").     *)
(***************************************************************************)
Poll == [step : {"off", "lookup", "next", "flag", "peers"},
         todo : SUBSET Models, kept : SUBSET Models]

\* `free`: models that were not cooling all along; `spent`: models that were
\* cooling and exhausted all along; `alone`: models that never were exhausted
\* and never had a peer to turn to.  No guard reads it.
History == [free : SUBSET Models, spent : SUBSET Models, alone : SUBSET Models]

TypeOK ==
    /\ CoolingOK
    /\ seen \in [Creds -> 0..(Staleness + 1)]
    /\ reach \subseteq Creds
    /\ calls \in [Keys -> 0..MaxCalls]
    /\ poll \in [Creds -> Poll]
    /\ published \in [Creds -> SUBSET Models]
    /\ since \in [Watched -> History]

Off == [step |-> "off", todo |-> {}, kept |-> {}]

NoHistory == [free |-> {}, spent |-> {}, alone |-> {}]

Init ==
    /\ InitCooling
    /\ seen = [c \in Creds |-> 0]
    /\ reach = {}
    /\ calls = [k \in Keys |-> 0]
    /\ poll = [c \in Creds |-> Off]
    /\ published = [c \in Creds |-> {}]
    /\ since = [c \in Watched |-> NoHistory]

\* Another credential, seen lately, that is not backed off for the model.
HasPeer(c, m) == \E o \in Creds \ {c} : seen[o] > 0 /\ ~Parked(o, m)

Exhausted(c, m) == cooling[<<c, m>>].exhausted

\* What suppressModel answers when nothing happens in between.
Suppressed(c, m) == Parked(c, m) /\ (Exhausted(c, m) \/ HasPeer(c, m))

Now(c) ==
    [free  |-> {m \in Models : ~Parked(c, m)},
     spent |-> {m \in Models : Parked(c, m) /\ Exhausted(c, m)},
     alone |-> {m \in Models : ~Exhausted(c, m) /\ ~HasPeer(c, m)}]

Both(h, g) == [free |-> h.free \cap g.free, spent |-> h.spent \cap g.spent,
               alone |-> h.alone \cap g.alone]

\* The history starts once the identity is noted and ends with the poll.
Observe ==
    since' = [c \in Watched |->
                 IF poll'[c].step = "off" THEN NoHistory
                 ELSE IF poll[c].step = "off" THEN Now(c)'
                 ELSE Both(since[c], Now(c)')]

-----------------------------------------------------------------------------
(***************************************************************************)
(* modelsForAuth                                                           *)
(***************************************************************************)
noteIdentity(c) == seen' = [seen EXCEPT ![c] = Staleness + 1]

StartPoll(c) ==
    /\ poll[c].step = "off"
    /\ noteIdentity(c)
    /\ poll' = [poll EXCEPT ![c].step = "lookup"]
    /\ UNCHANGED <<cooling, reach, calls, published>>
    /\ Observe

\* A cached or discovered list is filtered model by model ...
Lookup(c) ==
    /\ poll[c].step = "lookup"
    /\ c \in reach
    /\ poll' = [poll EXCEPT ![c] = [@ EXCEPT !.step = "next", !.todo = Serves[c]]]
    /\ UNCHANGED <<cooling, seen, reach, calls, published>>
    /\ Observe

\* ... and without one nothing is advertised.
DiscoveryFails(c) ==
    /\ poll[c].step = "lookup"
    /\ c \notin reach
    /\ poll' = [poll EXCEPT ![c] = Off]
    /\ published' = [published EXCEPT ![c] = {}]
    /\ UNCHANGED <<cooling, seen, reach, calls>>
    /\ Observe

Keep(p, m) == [p EXCEPT !.step = "next", !.todo = @ \ {m}, !.kept = @ \cup {m}]
Drop(p, m) == [p EXCEPT !.step = "next", !.todo = @ \ {m}]

\* The model suppressModel is about; the rest of `todo` comes after it.
Current(c) == CHOOSE m \in poll[c].todo : TRUE

\* A regression: an entry counts as a backoff although its wait is over.
CheckRecorded(c) ==
    /\ poll[c].step = "next"
    /\ poll[c].todo # {}
    /\ poll' = [poll EXCEPT
                  ![c] = IF cooling[<<c, Current(c)>>].failures > 0
                         THEN [@ EXCEPT !.step = "flag"]
                         ELSE Keep(@, Current(c))]
    /\ UNCHANGED <<cooling, seen, reach, calls, published>>
    /\ Observe

\* A regression: as once, a backoff is one of all models of the credential.
CheckCredential(c) ==
    /\ poll[c].step = "next"
    /\ poll[c].todo # {}
    /\ poll' = [poll EXCEPT
                  ![c] = IF \E m \in Models : Parked(c, m)
                         THEN [@ EXCEPT !.step = "flag"]
                         ELSE Keep(@, Current(c))]
    /\ UNCHANGED <<cooling, seen, reach, calls, published>>
    /\ Observe

CheckRemaining(c) ==
    /\ poll[c].step = "next"
    /\ poll[c].todo # {}
    /\ poll' = [poll EXCEPT
                  ![c] = IF Parked(c, Current(c))
                         THEN [@ EXCEPT !.step = "flag"]
                         ELSE Keep(@, Current(c))]
    /\ UNCHANGED <<cooling, seen, reach, calls, published>>
    /\ Observe

\* A regression: a model out of credits is treated like a throttled one.
CheckNoFlag(c) ==
    /\ poll[c].step = "flag"
    /\ poll' = [poll EXCEPT ![c].step = "peers"]
    /\ UNCHANGED <<cooling, seen, reach, calls, published>>
    /\ Observe

CheckExhausted(c) ==
    /\ poll[c].step = "flag"
    /\ poll' = [poll EXCEPT
                  ![c] = IF Exhausted(c, Current(c)) THEN Drop(@, Current(c))
                         ELSE [@ EXCEPT !.step = "peers"]]
    /\ UNCHANGED <<cooling, seen, reach, calls, published>>
    /\ Observe

\* A regression: a peer counts although it is backed off itself.
CheckAnyPeer(c) ==
    /\ poll[c].step = "peers"
    /\ poll' = [poll EXCEPT
                  ![c] = IF \E o \in Creds \ {c} : seen[o] > 0
                         THEN Drop(@, Current(c)) ELSE Keep(@, Current(c))]
    /\ UNCHANGED <<cooling, seen, reach, calls, published>>
    /\ Observe

CheckPeers(c) ==
    /\ poll[c].step = "peers"
    /\ poll' = [poll EXCEPT
                  ![c] = IF HasPeer(c, Current(c)) THEN Drop(@, Current(c))
                         ELSE Keep(@, Current(c))]
    /\ UNCHANGED <<cooling, seen, reach, calls, published>>
    /\ Observe

\* The host replaces what it had registered for the credential.
Register(c) ==
    /\ poll[c].step = "next"
    /\ poll[c].todo = {}
    /\ published' = [published EXCEPT ![c] = poll[c].kept]
    /\ poll' = [poll EXCEPT ![c] = Off]
    /\ UNCHANGED <<cooling, seen, reach, calls>>
    /\ Observe

-----------------------------------------------------------------------------
(***************************************************************************)
(* Requests, reduced to what they do to the table; discovery; the clock.   *)
(***************************************************************************)
Send(c, m) ==
    /\ <<c, m>> \in Routes
    /\ calls[<<c, m>>] < MaxCalls
    /\ ~Parked(c, m)
    /\ calls' = [calls EXCEPT ![<<c, m>>] = @ + 1]
    /\ UNCHANGED <<cooling, seen, reach, poll, published>>
    /\ Observe

Returns(c, m) ==
    /\ calls[<<c, m>>] > 0
    /\ calls' = [calls EXCEPT ![<<c, m>>] = @ - 1]
    /\ UNCHANGED <<seen, reach, poll, published>>

Refused(c, m, refusal) ==
    /\ Returns(c, m)
    /\ markCooldown(c, m, refusal)
    /\ Observe

Served(c, m) ==
    /\ Returns(c, m)
    /\ clearCooldown(c, m)
    /\ Observe

Reachable(c) ==
    /\ reach' = reach \cup {c}
    /\ UNCHANGED <<cooling, seen, calls, poll, published>>
    /\ Observe

Unreachable(c) ==
    /\ reach' = reach \ {c}
    /\ UNCHANGED <<cooling, seen, calls, poll, published>>
    /\ Observe

Tick ==
    /\ Elapse
    /\ seen' = [c \in Creds |-> IF seen[c] > 0 THEN seen[c] - 1 ELSE 0]
    /\ UNCHANGED <<reach, calls, poll, published>>
    /\ Observe

PollStep(c) ==
    \/ StartPoll(c)
    \/ Lookup(c)
    \/ DiscoveryFails(c)
    \/ CheckRemaining(c)
    \/ CheckExhausted(c)
    \/ CheckPeers(c)
    \/ Register(c)

Next ==
    \/ \E c \in Creds : PollStep(c)
    \/ \E c \in Creds, m \in Models : Send(c, m)
    \/ \E c \in Creds, m \in Models, refusal \in Refusals :
          Refused(c, m, refusal)
    \/ \E c \in Creds, m \in Models : Served(c, m)
    \/ \E c \in Creds : Reachable(c)
    \/ \E c \in Creds : Unreachable(c)
    \/ Tick

Spec == Init /\ [][Next]_vars

(***************************************************************************)
(* The host polls every credential again and again, a poll goes on, and    *)
(* time passes.  Upstream and the clients owe nothing.                     *)
(***************************************************************************)
FairSpec == Spec /\ WF_vars(Tick) /\ \A c \in Creds : WF_vars(PollStep(c))

-----------------------------------------------------------------------------
(***************************************************************************)
(* Properties                                                              *)
(***************************************************************************)

\* The answer of a poll, once it is complete.
Complete(c) == poll[c].step = "next" /\ poll[c].todo = {}

\* A 429 hides the model it was about and no other (cooldown.go:12-17): what
\* was cooling at no moment of the poll is in its answer, whatever else of the
\* credential was.  The README still has the older rule, by which a 429
\* cools the credential and model.for_auth returns nothing
\* (README.md:393-405).
HidesOnlyThrottled ==
    \A c \in Watched :
        Complete(c) => Serves[c] \cap since[c].free \subseteq poll[c].kept

\* A frequency limit never hides a model nobody else can serve: one that, all
\* through the poll, was not exhausted and had no peer is in the answer.
LoneModelStaysListed ==
    \A c \in Watched :
        Complete(c) => Serves[c] \cap since[c].alone \subseteq poll[c].kept

\* A model out of credits all through the poll is not in the answer, peers or
\* not (suppressModel, cooldown.go:219-221).  The head of the same file and the
\* README know no such exception: a model steps aside "only while another
\* credential we have seen can still serve it" (cooldown.go:16-17,
\* README.md:401-402).
SpentStaysHidden ==
    \A c \in Watched :
        Complete(c) => since[c].spent \cap poll[c].kept = {}

\* The registry follows the table.  A model on a credential whose catalog can
\* be had ends up advertised for good, even when every credential hid it for a
\* while, if from some moment on it is not cooling, or is throttled with nobody
\* else to serve it.  (It is not enough that Suppressed is never true:
\* suppressModel is not atomic, and can see the backoff before it ends and the
\* peer after it recovered.)
HiddenComesBack ==
    \A c \in Creds : \A m \in Serves[c] :
        \/ <>[](c \in reach /\ ~Parked(c, m))
        \/ <>[](c \in reach /\ ~Exhausted(c, m) /\ ~HasPeer(c, m))
        => <>[](m \in published[c])

\* The comment on `exhausted` (cooldown.go:44-51): the model is advertised
\* again only after a success or the hold expiring.
ExhaustedHoldStands ==
    [][\A c \in Creds, m \in Models :
          /\ Parked(c, m) /\ Exhausted(c, m)
          /\ ~Served(c, m)
          => cooling'[<<c, m>>].left >= cooling[<<c, m>>].left - 1]_vars

\* The comment of suppressModel (cooldown.go:219-225) and cooldown_test.go:216:
\* a frequency backoff only suppresses when some other credential is free;
\* a lone credential must not hide its throttled model.
FrequencyLimitNeedsPeer ==
    [][\A c \in Creds, m \in Models, refusal \in Refusals :
          ~Parked(c, m) /\ ~refusal.exhausted /\ Refused(c, m, refusal)
          => (Suppressed(c, m)' => HasPeer(c, m)')]_vars
=============================================================================
