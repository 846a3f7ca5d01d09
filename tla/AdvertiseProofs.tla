--------------------------- MODULE AdvertiseProofs ---------------------------
(***************************************************************************)
(* Proofs about advertising, for any number of credentials and models, any *)
(* catalogs and any answers of upstream.                                   *)
(***************************************************************************)
EXTENDS Advertise, CooldownProofs

-----------------------------------------------------------------------------
(***************************************************************************)
(* Type correctness                                                        *)
(***************************************************************************)
LEMMA NowOK ==
    ASSUME NEW c \in Creds
    PROVE  Now(c) \in History
  BY DEF Now, History

LEMMA BothOK ==
    ASSUME NEW h \in History, NEW g \in History
    PROVE  Both(h, g) \in History
  BY DEF Both, History

\* Whatever a step does, the history that comes of it is well formed.
LEMMA ObserveOK ==
    ASSUME TypeOK, Observe
    PROVE  since' \in [Watched -> History]
<1>1. NoHistory \in History
  BY DEF NoHistory, History
<1>2. ASSUME NEW c \in Watched
      PROVE  since'[c] \in History
  <2>1. c \in Creds /\ since[c] \in History
    BY AdvertiseAssumption DEF TypeOK
  <2>2. Now(c)' \in History
    BY DEF Now, History
  <2>3. Both(since[c], Now(c)') \in History
    BY <2>1, <2>2, BothOK
  <2> QED
    BY <1>1, <2>2, <2>3 DEF Observe
<1> QED
  BY <1>2 DEF Observe

LEMMA CurrentOK ==
    ASSUME TypeOK, NEW c \in Creds, poll[c].todo # {}
    PROVE  Current(c) \in poll[c].todo /\ Current(c) \in Models
  BY DEF Current, TypeOK, Poll

LEMMA KeepOK ==
    ASSUME NEW p \in Poll, NEW m \in Models
    PROVE  Keep(p, m) \in Poll /\ Drop(p, m) \in Poll
  BY DEF Keep, Drop, Poll

\* A poll is inside suppressModel only for a model of its list.
AboutSomething == \A c \in Creds : poll[c].step \in {"flag", "peers"} => poll[c].todo # {}

LEMMA TypeInit == Init => TypeOK /\ AboutSomething
<1> SUFFICES ASSUME Init
             PROVE  TypeOK /\ AboutSomething
  OBVIOUS
<1>1. CoolingOK
  BY InitCoolingOK DEF Init
<1>2. Off \in Poll /\ NoHistory \in History /\ Off.step = "off"
  BY DEF Off, Poll, NoHistory, History
<1> QED
  BY <1>1, <1>2, AdvertiseAssumption DEF Init, TypeOK, AboutSomething

LEMMA TypeStep ==
    ASSUME TypeOK, AboutSomething, [Next]_vars
    PROVE  TypeOK' /\ AboutSomething'
<1>1. ASSUME NEW c \in Creds, PollStep(c)
      PROVE  TypeOK' /\ AboutSomething'
  <2>1. cooling' = cooling /\ calls' = calls /\ reach' = reach /\ Observe
    BY <1>1 DEF PollStep, StartPoll, Lookup, DiscoveryFails, CheckRemaining,
                CheckExhausted, CheckPeers, Register
  <2>2. CoolingOK' /\ since' \in [Watched -> History]
    BY <2>1, ObserveOK DEF TypeOK, CoolingOK
  <2>3. poll[c] \in Poll
    BY DEF TypeOK
  <2>4. seen' \in [Creds -> 0..(Staleness + 1)]
    BY <1>1, AdvertiseAssumption
       DEF PollStep, StartPoll, Lookup, DiscoveryFails, CheckRemaining,
           CheckExhausted, CheckPeers, Register, noteIdentity, TypeOK
  <2>5. published' \in [Creds -> SUBSET Models]
    BY <1>1, <2>3
       DEF PollStep, StartPoll, Lookup, DiscoveryFails, CheckRemaining,
           CheckExhausted, CheckPeers, Register, TypeOK, Poll
  <2>6. \E p \in Poll : /\ poll' = [poll EXCEPT ![c] = p]
                        /\ p.step \in {"flag", "peers"} => p.todo # {}
    <3>1. CASE StartPoll(c)
      <4> DEFINE p == [poll[c] EXCEPT !.step = "lookup"]
      <4>1. p \in Poll /\ p.step = "lookup"
        BY <2>3 DEF Poll
      <4> QED
        BY <4>1, <3>1 DEF StartPoll
    <3>2. CASE Lookup(c)
      <4> DEFINE p == [poll[c] EXCEPT !.step = "next", !.todo = Serves[c]]
      <4>1. p \in Poll /\ p.step = "next"
        BY <2>3, AdvertiseAssumption DEF Poll
      <4> QED
        BY <4>1, <3>2 DEF Lookup
    <3>3. CASE DiscoveryFails(c) \/ Register(c)
      <4>1. Off \in Poll /\ Off.step = "off"
        BY DEF Off, Poll
      <4>2. poll' = [poll EXCEPT ![c] = Off]
        BY <3>3 DEF DiscoveryFails, Register
      <4> HIDE DEF Off
      <4> QED
        BY <4>1, <4>2, Zenon
    <3>4. CASE CheckRemaining(c)
      <4> DEFINE p == [poll[c] EXCEPT !.step = "flag"]
                 k == Keep(poll[c], Current(c))
      <4>1. p \in Poll /\ p.todo = poll[c].todo /\ poll[c].todo # {}
        BY <2>3, <3>4 DEF Poll, CheckRemaining
      <4>2. k \in Poll /\ k.step = "next"
        BY <2>3, <4>1, CurrentOK, KeepOK DEF Keep, Poll
      <4>3. poll' = [poll EXCEPT ![c] = IF Parked(c, Current(c)) THEN p ELSE k]
        BY <3>4 DEF CheckRemaining
      <4> HIDE DEF p, k
      <4> QED
        BY <4>1, <4>2, <4>3
    <3>5. CASE CheckExhausted(c)
      <4> DEFINE p == [poll[c] EXCEPT !.step = "peers"]
                 d == Drop(poll[c], Current(c))
      <4>1. p \in Poll /\ p.todo = poll[c].todo /\ poll[c].todo # {}
        BY <2>3, <3>5 DEF Poll, CheckExhausted, AboutSomething
      <4>2. d \in Poll /\ d.step = "next"
        BY <2>3, <4>1, CurrentOK, KeepOK DEF Drop, Poll
      <4>3. poll' = [poll EXCEPT ![c] = IF Exhausted(c, Current(c)) THEN d ELSE p]
        BY <3>5 DEF CheckExhausted
      <4> HIDE DEF p, d
      <4> QED
        BY <4>1, <4>2, <4>3
    <3>6. CASE CheckPeers(c)
      <4> DEFINE k == Keep(poll[c], Current(c))
                 d == Drop(poll[c], Current(c))
      <4>1. poll[c].todo # {}
        BY <3>6 DEF CheckPeers, AboutSomething
      <4>2. d \in Poll /\ d.step = "next" /\ k \in Poll /\ k.step = "next"
        BY <2>3, <4>1, CurrentOK, KeepOK DEF Drop, Keep, Poll
      <4>3. poll' = [poll EXCEPT ![c] = IF HasPeer(c, Current(c)) THEN d ELSE k]
        BY <3>6 DEF CheckPeers
      <4> HIDE DEF k, d
      <4> QED
        BY <4>2, <4>3
    <3> QED
      BY <1>1, <3>1, <3>2, <3>3, <3>4, <3>5, <3>6 DEF PollStep
  <2> QED
    BY <2>1, <2>2, <2>4, <2>5, <2>6 DEF TypeOK, AboutSomething
<1>2. ASSUME NEW c \in Creds, NEW m \in Models, Send(c, m)
      PROVE  TypeOK' /\ AboutSomething'
  <2>1. CoolingOK' /\ since' \in [Watched -> History]
    BY <1>2, ObserveOK DEF Send, TypeOK, CoolingOK
  <2>2. calls' \in [Keys -> 0..MaxCalls]
    BY <1>2, AdvertiseAssumption DEF Send, TypeOK, Keys
  <2> QED
    BY <1>2, <2>1, <2>2 DEF Send, TypeOK, AboutSomething
<1>3. ASSUME NEW c \in Creds, NEW m \in Models, Returns(c, m), Observe, CoolingOK'
      PROVE  TypeOK' /\ AboutSomething'
  <2>1. calls' \in [Keys -> 0..MaxCalls]
    BY <1>3, AdvertiseAssumption DEF Returns, TypeOK, Keys
  <2> QED
    BY <1>3, <2>1, ObserveOK DEF Returns, TypeOK, AboutSomething
<1>4. ASSUME NEW c \in Creds, NEW m \in Models, NEW refusal \in Refusals,
             Refused(c, m, refusal)
      PROVE  TypeOK' /\ AboutSomething'
  <2>1. refusal \in Refusal
    BY AdvertiseAssumption
  <2>2. CoolingOK'
    BY <1>4, <2>1, MarkParks DEF Refused, TypeOK
  <2> QED
    BY <1>3, <1>4, <2>2 DEF Refused
<1>5. ASSUME NEW c \in Creds, NEW m \in Models, Served(c, m)
      PROVE  TypeOK' /\ AboutSomething'
  <2>1. CoolingOK'
    BY <1>5, ClearFrees DEF Served, TypeOK
  <2> QED
    BY <1>3, <1>5, <2>1 DEF Served
<1>6. ASSUME NEW c \in Creds, Reachable(c) \/ Unreachable(c)
      PROVE  TypeOK' /\ AboutSomething'
  <2>1. CoolingOK' /\ since' \in [Watched -> History]
    BY <1>6, ObserveOK DEF Reachable, Unreachable, TypeOK, CoolingOK
  <2> QED
    BY <1>6, <2>1 DEF Reachable, Unreachable, TypeOK, AboutSomething
<1>7. ASSUME Tick
      PROVE  TypeOK' /\ AboutSomething'
  <2>1. CoolingOK' /\ since' \in [Watched -> History]
    BY <1>7, ElapseFrees, ObserveOK DEF Tick, TypeOK
  <2>2. seen' \in [Creds -> 0..(Staleness + 1)]
    BY <1>7, AdvertiseAssumption DEF Tick, TypeOK
  <2> QED
    BY <1>7, <2>1, <2>2 DEF Tick, TypeOK, AboutSomething
<1>8. ASSUME UNCHANGED vars
      PROVE  TypeOK' /\ AboutSomething'
  BY <1>8 DEF vars, TypeOK, CoolingOK, AboutSomething
<1> QED
  BY <1>1, <1>2, <1>4, <1>5, <1>6, <1>7, <1>8 DEF Next

\* Every variable keeps its type: backoffs stay within cooldownResetMax, and a
\* poll's lists name models of the credential's catalogs only.
THEOREM TypeCorrect == Spec => [](TypeOK /\ AboutSomething)
<1>1. Init => TypeOK /\ AboutSomething
  BY TypeInit
<1>2. TypeOK /\ AboutSomething /\ [Next]_vars => (TypeOK /\ AboutSomething)'
  BY TypeStep
<1> QED
  BY <1>1, <1>2, PTL DEF Spec

-----------------------------------------------------------------------------
(***************************************************************************)
(* What a poll has done so far                                             *)
(*                                                                         *)
(* The answer is put together from observations of different moments, so   *)
(* the properties do not follow from the table as it is: the invariant     *)
(* ties what the poll kept to what it could have seen at any time since it *)
(* noted the identity.                                                     *)
(***************************************************************************)
Started(c) == poll[c].step \in {"next", "flag", "peers"}

\* Before the list is looked up nothing is kept.
NothingYet(c) == ~Started(c) => poll[c].kept = {}

\* Models that were never cooling, or never hidden by anything, are kept or
\* still to be judged.
FreeListed(c) ==
    Started(c) => Serves[c] \cap since[c].free \subseteq poll[c].kept \cup poll[c].todo

AloneListed(c) ==
    Started(c) => Serves[c] \cap since[c].alone \subseteq poll[c].kept \cup poll[c].todo

\* Models out of credits all along are never kept.
SpentDropped(c) == since[c].spent \cap poll[c].kept = {}

\* suppressModel got this far only because it saw a backoff, and an entry that
\* was not exhausted.
SeenCooling(c) == poll[c].step \in {"flag", "peers"} => Current(c) \notin since[c].free

SeenUnspent(c) == poll[c].step = "peers" => Current(c) \notin since[c].spent

PollInv(c) ==
    /\ NothingYet(c)
    /\ FreeListed(c)
    /\ AloneListed(c)
    /\ SpentDropped(c)
    /\ SeenCooling(c)
    /\ SeenUnspent(c)

IInv ==
    /\ TypeOK
    /\ AboutSomething
    /\ \A c \in Watched : PollInv(c)

\* A history only shrinks while a poll runs, and never claims what does not
\* hold at the moment.
LEMMA Shrinks ==
    ASSUME Observe, NEW c \in Watched
    PROVE  /\ poll[c].step # "off" =>
                 /\ since'[c].free \subseteq since[c].free
                 /\ since'[c].spent \subseteq since[c].spent
                 /\ since'[c].alone \subseteq since[c].alone
           /\ since'[c].free \subseteq Now(c)'.free
           /\ since'[c].spent \subseteq Now(c)'.spent
           /\ since'[c].alone \subseteq Now(c)'.alone
<1> DEFINE now == Now(c)'
<1>1. since'[c] = IF poll'[c].step = "off" THEN NoHistory
                  ELSE IF poll[c].step = "off" THEN now
                  ELSE Both(since[c], now)
  BY DEF Observe
<1>2. NoHistory.free = {} /\ NoHistory.spent = {} /\ NoHistory.alone = {}
  BY DEF NoHistory
<1>3. LET b == Both(since[c], now)
      IN  /\ b.free = since[c].free \cap now.free
          /\ b.spent = since[c].spent \cap now.spent
          /\ b.alone = since[c].alone \cap now.alone
  BY DEF Both
<1> HIDE DEF now
<1>4. /\ poll[c].step # "off" =>
            /\ since'[c].free \subseteq since[c].free
            /\ since'[c].spent \subseteq since[c].spent
            /\ since'[c].alone \subseteq since[c].alone
      /\ since'[c].free \subseteq now.free
      /\ since'[c].spent \subseteq now.spent
      /\ since'[c].alone \subseteq now.alone
  <2>1. CASE poll'[c].step = "off"
    <3>1. since'[c] = NoHistory
      BY <1>1, <2>1
    <3> QED
      BY <1>2, <3>1
  <2>2. CASE poll'[c].step # "off" /\ poll[c].step = "off"
    <3>1. since'[c] = now
      BY <1>1, <2>2
    <3> QED
      BY <2>2, <3>1
  <2>3. CASE poll'[c].step # "off" /\ poll[c].step # "off"
    <3>1. since'[c] = Both(since[c], now)
      BY <1>1, <2>3
    <3> QED
      BY <1>3, <3>1
  <2> QED
    BY <2>1, <2>2, <2>3
<1> QED
  BY <1>4 DEF now

\* Marks, clears, other polls and the clock cannot undo what a poll has done.
LEMMA Still ==
    ASSUME Observe, NEW c \in Watched, PollInv(c), poll'[c] = poll[c]
    PROVE  PollInv(c)'
<1>1. Current(c)' = Current(c)
  BY DEF Current
<1>2. CASE poll[c].step = "off"
  <2>1. poll'[c].kept = {} /\ ~Started(c)' /\ poll'[c].step = "off"
    BY <1>2 DEF PollInv, NothingYet, Started
  <2> QED
    BY <2>1 DEF PollInv, NothingYet, FreeListed, AloneListed, SpentDropped,
                SeenCooling, SeenUnspent, Started
<1>3. CASE poll[c].step # "off"
  <2>1. /\ since'[c].free \subseteq since[c].free
        /\ since'[c].spent \subseteq since[c].spent
        /\ since'[c].alone \subseteq since[c].alone
    BY <1>3, Shrinks
  <2>2. Started(c)' = Started(c)
    BY DEF Started
  <2>3. NothingYet(c)' /\ FreeListed(c)' /\ AloneListed(c)' /\ SpentDropped(c)'
    BY <2>1, <2>2 DEF PollInv, NothingYet, FreeListed, AloneListed, SpentDropped
  <2>4. SeenCooling(c)' /\ SeenUnspent(c)'
    BY <1>1, <2>1 DEF PollInv, SeenCooling, SeenUnspent
  <2> QED
    BY <2>3, <2>4 DEF PollInv
<1> QED
  BY <1>2, <1>3

\* Keeping or dropping the current model leaves the rest of the lists alone.
LEMMA KeepDrop ==
    ASSUME NEW q \in Poll, NEW m \in q.todo
    PROVE  /\ Keep(q, m).step = "next" /\ Drop(q, m).step = "next"
           /\ Keep(q, m).todo = q.todo \ {m} /\ Drop(q, m).todo = q.todo \ {m}
           /\ Keep(q, m).kept = q.kept \cup {m} /\ Drop(q, m).kept = q.kept
  BY DEF Keep, Drop, Poll

\* A poll's own steps: what is kept was seen free, or seen neither exhausted
\* nor replaceable; what is dropped was seen cooling, and exhausted or
\* replaceable.
LEMMA OwnStep ==
    ASSUME TypeOK, AboutSomething, NEW c \in Watched, PollInv(c), PollStep(c)
    PROVE  PollInv(c)'
<1> DEFINE m == Current(c)
           q == poll[c]
<1>1. c \in Creds /\ q \in Poll
  BY AdvertiseAssumption DEF TypeOK
<1>2. Observe /\ cooling' = cooling
  BY DEF PollStep, StartPoll, Lookup, DiscoveryFails, CheckRemaining,
         CheckExhausted, CheckPeers, Register
<1>3. /\ q.step # "off" =>
            /\ since'[c].free \subseteq since[c].free
            /\ since'[c].spent \subseteq since[c].spent
            /\ since'[c].alone \subseteq since[c].alone
      /\ since'[c].free \subseteq Now(c)'.free
      /\ since'[c].spent \subseteq Now(c)'.spent
      /\ since'[c].alone \subseteq Now(c)'.alone
  BY <1>2, Shrinks
<1>4. ASSUME NEW x \in Models
      PROVE  /\ x \in Now(c)'.free => ~Parked(c, x)
             /\ x \in Now(c)'.spent => Parked(c, x) /\ Exhausted(c, x)
             /\ x \in Now(c)'.alone => ~Exhausted(c, x)
             /\ seen' = seen /\ x \in Now(c)'.alone => ~HasPeer(c, x)
  <2>1. /\ Parked(c, x)' <=> Parked(c, x)
        /\ Exhausted(c, x)' <=> Exhausted(c, x)
    BY <1>2 DEF Parked, cooldownRemaining, Exhausted
  <2>2. seen' = seen => (HasPeer(c, x)' <=> HasPeer(c, x))
    BY <1>2 DEF Parked, cooldownRemaining, HasPeer
  <2>3. /\ x \in Now(c)'.free => ~Parked(c, x)'
        /\ x \in Now(c)'.spent => Parked(c, x)' /\ Exhausted(c, x)'
        /\ x \in Now(c)'.alone => ~Exhausted(c, x)' /\ ~HasPeer(c, x)'
    BY DEF Now
  <2> QED
    BY <2>1, <2>2, <2>3
<1>5. CASE StartPoll(c)
  <2>1. q.step = "off" /\ poll'[c].step = "lookup" /\ poll'[c].kept = q.kept
    BY <1>1, <1>5 DEF StartPoll, TypeOK, Poll
  <2>2. q.kept = {}
    BY <2>1 DEF PollInv, NothingYet, Started
  <2> QED
    BY <2>1, <2>2 DEF PollInv, NothingYet, FreeListed, AloneListed, SpentDropped,
                      SeenCooling, SeenUnspent, Started
<1>6. CASE Lookup(c)
  <2>1. /\ q.step = "lookup" /\ poll'[c].step = "next"
        /\ poll'[c].todo = Serves[c] /\ poll'[c].kept = q.kept
    BY <1>1, <1>6 DEF Lookup, TypeOK, Poll
  <2>2. q.kept = {}
    BY <2>1 DEF PollInv, NothingYet, Started
  <2> QED
    BY <2>1, <2>2 DEF PollInv, NothingYet, FreeListed, AloneListed, SpentDropped,
                      SeenCooling, SeenUnspent, Started
<1>7. CASE DiscoveryFails(c) \/ Register(c)
  <2>1. poll'[c].step = "off" /\ poll'[c].kept = {}
    BY <1>1, <1>7 DEF DiscoveryFails, Register, TypeOK, Off
  <2> QED
    BY <2>1 DEF PollInv, NothingYet, FreeListed, AloneListed, SpentDropped,
                SeenCooling, SeenUnspent, Started
<1>8. CASE CheckRemaining(c)
  <2>1. q.step = "next" /\ m \in q.todo /\ m \in Models
    BY <1>1, <1>8, CurrentOK DEF CheckRemaining
  <2>2. CASE Parked(c, m)
    <3>1. poll'[c] = [q EXCEPT !.step = "flag"]
      BY <1>1, <1>8, <2>2 DEF CheckRemaining, TypeOK
    <3>2. poll'[c].step = "flag" /\ poll'[c].todo = q.todo /\ poll'[c].kept = q.kept
      BY <1>1, <3>1 DEF Poll
    <3>3. Current(c)' = m
      BY <3>2 DEF Current
    <3>4. m \notin since'[c].free
      BY <1>3, <1>4, <2>1, <2>2
    <3>5. SeenCooling(c)' /\ SeenUnspent(c)' /\ NothingYet(c)'
      BY <3>2, <3>3, <3>4 DEF SeenCooling, SeenUnspent, NothingYet, Started
    <3> QED
      BY <1>3, <2>1, <3>2, <3>5
         DEF PollInv, FreeListed, AloneListed, SpentDropped, Started
  <2>3. CASE ~Parked(c, m)
    <3>1. poll'[c] = Keep(q, m)
      BY <1>1, <1>8, <2>3 DEF CheckRemaining, TypeOK
    <3>2. /\ poll'[c].step = "next" /\ poll'[c].todo = q.todo \ {m}
          /\ poll'[c].kept = q.kept \cup {m}
      BY <1>1, <2>1, <3>1, KeepDrop
    <3>3. m \notin since'[c].spent
      BY <1>3, <1>4, <2>1, <2>3
    <3>4. SpentDropped(c)'
      BY <1>3, <2>1, <3>2, <3>3 DEF PollInv, SpentDropped
    <3>5. SeenCooling(c)' /\ SeenUnspent(c)' /\ NothingYet(c)'
      BY <3>2 DEF SeenCooling, SeenUnspent, NothingYet, Started
    <3> QED
      BY <1>3, <2>1, <3>2, <3>4, <3>5 DEF PollInv, FreeListed, AloneListed, Started
  <2> QED
    BY <2>2, <2>3
<1>9. CASE CheckExhausted(c)
  <2>1. q.step = "flag" /\ m \in q.todo /\ m \in Models
    BY <1>1, <1>9, CurrentOK DEF CheckExhausted, AboutSomething
  <2>2. m \notin since'[c].free
    BY <1>3, <2>1 DEF PollInv, SeenCooling
  <2>3. CASE Exhausted(c, m)
    <3>1. poll'[c] = Drop(q, m)
      BY <1>1, <1>9, <2>3 DEF CheckExhausted, TypeOK
    <3>2. /\ poll'[c].step = "next" /\ poll'[c].todo = q.todo \ {m}
          /\ poll'[c].kept = q.kept
      BY <1>1, <2>1, <3>1, KeepDrop
    <3>3. m \notin since'[c].alone
      BY <1>3, <1>4, <2>1, <2>3
    <3>4. SeenCooling(c)' /\ SeenUnspent(c)' /\ NothingYet(c)'
      BY <3>2 DEF SeenCooling, SeenUnspent, NothingYet, Started
    <3> QED
      BY <1>3, <2>1, <2>2, <3>2, <3>3, <3>4
         DEF PollInv, FreeListed, AloneListed, SpentDropped, Started
  <2>4. CASE ~Exhausted(c, m)
    <3>1. poll'[c] = [q EXCEPT !.step = "peers"]
      BY <1>1, <1>9, <2>4 DEF CheckExhausted, TypeOK
    <3>2. poll'[c].step = "peers" /\ poll'[c].todo = q.todo /\ poll'[c].kept = q.kept
      BY <1>1, <3>1 DEF Poll
    <3>3. Current(c)' = m
      BY <3>2 DEF Current
    <3>4. m \notin since'[c].spent
      BY <1>3, <1>4, <2>1, <2>4
    <3>5. SeenCooling(c)' /\ SeenUnspent(c)' /\ NothingYet(c)'
      BY <2>2, <3>2, <3>3, <3>4 DEF SeenCooling, SeenUnspent, NothingYet, Started
    <3> QED
      BY <1>3, <2>1, <3>2, <3>5
         DEF PollInv, FreeListed, AloneListed, SpentDropped, Started
  <2> QED
    BY <2>3, <2>4
<1>10. CASE CheckPeers(c)
  <2>1. q.step = "peers" /\ m \in q.todo /\ m \in Models
    BY <1>1, <1>10, CurrentOK DEF CheckPeers, AboutSomething
  <2>2. m \notin since'[c].free /\ m \notin since'[c].spent
    BY <1>3, <2>1 DEF PollInv, SeenCooling, SeenUnspent
  <2>3. CASE HasPeer(c, m)
    <3>1. poll'[c] = Drop(q, m)
      BY <1>1, <1>10, <2>3 DEF CheckPeers, TypeOK
    <3>2. /\ poll'[c].step = "next" /\ poll'[c].todo = q.todo \ {m}
          /\ poll'[c].kept = q.kept
      BY <1>1, <2>1, <3>1, KeepDrop
    <3>3. seen' = seen
      BY <1>10 DEF CheckPeers
    <3>4. m \notin since'[c].alone
      BY <1>3, <1>4, <2>1, <2>3, <3>3
    <3>5. SeenCooling(c)' /\ SeenUnspent(c)' /\ NothingYet(c)'
      BY <3>2 DEF SeenCooling, SeenUnspent, NothingYet, Started
    <3> QED
      BY <1>3, <2>1, <2>2, <3>2, <3>4, <3>5
         DEF PollInv, FreeListed, AloneListed, SpentDropped, Started
  <2>4. CASE ~HasPeer(c, m)
    <3>1. poll'[c] = Keep(q, m)
      BY <1>1, <1>10, <2>4 DEF CheckPeers, TypeOK
    <3>2. /\ poll'[c].step = "next" /\ poll'[c].todo = q.todo \ {m}
          /\ poll'[c].kept = q.kept \cup {m}
      BY <1>1, <2>1, <3>1, KeepDrop
    <3>3. SpentDropped(c)'
      BY <1>3, <2>1, <2>2, <3>2 DEF PollInv, SpentDropped
    <3>4. SeenCooling(c)' /\ SeenUnspent(c)' /\ NothingYet(c)'
      BY <3>2 DEF SeenCooling, SeenUnspent, NothingYet, Started
    <3> QED
      BY <1>3, <2>1, <3>2, <3>3, <3>4 DEF PollInv, FreeListed, AloneListed, Started
  <2> QED
    BY <2>3, <2>4
<1> QED
  BY <1>5, <1>6, <1>7, <1>8, <1>9, <1>10 DEF PollStep

LEMMA PollInit == Init => \A c \in Watched : PollInv(c)
<1> SUFFICES ASSUME Init, NEW c \in Watched
             PROVE  PollInv(c)
  OBVIOUS
<1>1. poll[c] = Off /\ since[c] = NoHistory
  BY AdvertiseAssumption DEF Init
<1>2. Off.step = "off" /\ Off.kept = {} /\ NoHistory.spent = {}
  BY DEF Off, NoHistory
<1> QED
  BY <1>1, <1>2 DEF PollInv, NothingYet, FreeListed, AloneListed, SpentDropped,
                    SeenCooling, SeenUnspent, Started

LEMMA InvStep == IInv /\ [Next]_vars => IInv'
<1> SUFFICES ASSUME TypeOK, AboutSomething, [Next]_vars, NEW c \in Watched, PollInv(c)
             PROVE  PollInv(c)'
  BY TypeStep DEF IInv
<1>1. c \in Creds
  BY AdvertiseAssumption
<1>2. ASSUME NEW d \in Creds, PollStep(d)
      PROVE  PollInv(c)'
  <2>1. CASE d = c
    BY <1>2, <2>1, OwnStep
  <2>2. CASE d # c
    <3>1. Observe
      BY <1>2 DEF PollStep, StartPoll, Lookup, DiscoveryFails, CheckRemaining,
                  CheckExhausted, CheckPeers, Register
    <3>2. poll'[c] = poll[c]
      BY <1>1, <1>2, <2>2
         DEF PollStep, StartPoll, Lookup, DiscoveryFails, CheckRemaining,
             CheckExhausted, CheckPeers, Register, TypeOK
    <3> QED
      BY <3>1, <3>2, Still
  <2> QED
    BY <2>1, <2>2
<1>3. ASSUME NEW d \in Creds, NEW m \in Models,
             \/ Send(d, m) \/ Served(d, m)
             \/ \E refusal \in Refusals : Refused(d, m, refusal)
      PROVE  PollInv(c)'
  <2>1. Observe /\ poll' = poll
    BY <1>3 DEF Send, Served, Refused, Returns
  <2> QED
    BY <2>1, Still
<1>4. ASSUME NEW d \in Creds, Reachable(d) \/ Unreachable(d)
      PROVE  PollInv(c)'
  <2>1. Observe /\ poll' = poll
    BY <1>4 DEF Reachable, Unreachable
  <2> QED
    BY <2>1, Still
<1>5. CASE Tick
  <2>1. Observe /\ poll' = poll
    BY <1>5 DEF Tick
  <2> QED
    BY <2>1, Still
<1>6. CASE UNCHANGED vars
  BY <1>6 DEF vars, PollInv, NothingYet, FreeListed, AloneListed, SpentDropped,
              SeenCooling, SeenUnspent, Started, Current
<1> QED
  BY <1>2, <1>3, <1>4, <1>5, <1>6 DEF Next

LEMMA Invariant == Spec => []IInv
<1>1. Init => IInv
  BY TypeInit, PollInit DEF IInv
<1>2. IInv /\ [Next]_vars => IInv'
  BY InvStep
<1> QED
  BY <1>1, <1>2, PTL DEF Spec

\* A 429 hides the model it was about and no other: a model that was not
\* cooling at any moment of a poll is in the poll's answer, however marks,
\* clears and other polls interleave with the three looks of suppressModel.
THEOREM OnlyThrottledHidden == Spec => []HidesOnlyThrottled
<1>1. IInv => HidesOnlyThrottled
  BY DEF IInv, PollInv, FreeListed, Started, HidesOnlyThrottled, Complete
<1> QED
  BY <1>1, Invariant, PTL

\* A model nobody else can serve, and that is not out of credits, is never
\* hidden by a frequency limit.
THEOREM LoneModelListed == Spec => []LoneModelStaysListed
<1>1. IInv => LoneModelStaysListed
  BY DEF IInv, PollInv, AloneListed, Started, LoneModelStaysListed, Complete
<1> QED
  BY <1>1, Invariant, PTL

\* A model out of credits all through a poll is not in the poll's answer.
THEOREM SpentHidden == Spec => []SpentStaysHidden
<1>1. IInv => SpentStaysHidden
  BY DEF IInv, PollInv, SpentDropped, SpentStaysHidden, Complete
<1> QED
  BY <1>1, Invariant, PTL
=============================================================================
