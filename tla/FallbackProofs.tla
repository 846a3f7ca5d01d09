--------------------------- MODULE FallbackProofs ---------------------------
(***************************************************************************)
(* Proofs about the request path, for any number of requests, credentials, *)
(* models and attempts, any catalogs and any answers of upstream.          *)
(***************************************************************************)
EXTENDS Fallback, CooldownProofs, SequenceTheorems

-----------------------------------------------------------------------------
(***************************************************************************)
(* Type correctness                                                        *)
(***************************************************************************)
LEMMA VacantOK == Vacant \in Request
  BY FallbackAssumption DEF Vacant, Fresh, Request, Steps, Outcomes

LEMMA FinishedOK ==
    ASSUME NEW o \in Outcomes
    PROVE  /\ Finished(o) \in Request
           /\ Finished(o).step = "done" /\ Finished(o).asked = <<>>
<1>1. Finished(o) = [Vacant EXCEPT !.step = "done", !.outcome = o]
  BY DEF Finished
<1>2. Vacant.asked = <<>>
  BY DEF Vacant, Fresh
<1> QED
  BY <1>1, <1>2, VacantOK DEF Request, Steps

LEMMA OnOfferOK ==
    ASSUME NEW c \in Creds
    PROVE  OnOffer(c) \in Seq(Offers)
<1>1. Catalog[c] \in Seq(Offers)
  <2>1. Catalog[c] \in Seq([id : Models, kind : Kinds \ {"declared"}])
    BY FallbackAssumption
  <2>2. [id : Models, kind : Kinds \ {"declared"}] \subseteq Offers
    BY DEF Offers
  <2> QED
    BY <2>1, <2>2, SeqMonotonic
<1>2. ExtraModels \in Seq(Offers)
  <2>1. ExtraModels \in Seq([id : Models, kind : {"declared"}])
    BY FallbackAssumption
  <2>2. [id : Models, kind : {"declared"}] \subseteq Offers
    BY DEF Offers, Kinds
  <2> QED
    BY <2>1, <2>2, SeqMonotonic
<1>3. <<>> \in Seq(Offers)
  BY EmptySeq
<1> QED
  BY <1>1, <1>2, <1>3, ConcatProperties DEF OnOffer

LEMMA ScanningOK ==
    ASSUME NEW q \in Request, NEW tried \in SUBSET Models
    PROVE  Scanning(q, tried) \in Request
<1>1. OnOffer(q.cred) \in Seq(Offers)
  BY OnOfferOK DEF Request
<1> QED
  BY <1>1, EmptySeq DEF Scanning, Request, Steps

LEMMA ScanningFields ==
    ASSUME NEW q \in Request, NEW tried
    PROVE  LET p == Scanning(q, tried)
           IN  /\ p.step = "scan" /\ p.tried = tried
               /\ p.todo = OnOffer(q.cred) /\ p.pool = <<>>
               /\ p.cred = q.cred /\ p.requested = q.requested
               /\ p.model = q.model /\ p.asked = q.asked
  BY DEF Scanning, Request

LEMMA RotatedOK ==
    ASSUME NEW pool \in Seq(Models), pool # <<>>, cursor \in Nat
    PROVE  /\ Rotated(pool) \in Models
           /\ \E i \in DOMAIN pool : Rotated(pool) = pool[i]
<1>1. Len(pool) \in Nat \ {0}
  BY EmptySeq
<1>2. cursor % Len(pool) \in 0..(Len(pool) - 1)
  BY <1>1, SMT
<1>3. (cursor % Len(pool)) + 1 \in DOMAIN pool
  BY <1>1, <1>2
<1> QED
  BY <1>3, ElementOfSeq DEF Rotated

LEMMA ObserveOK ==
    ASSUME TypeOK, Observe, req' \in [Reqs -> Request]
    PROVE  since' \in [Watched -> History]
<1>1. \A c : Started(c) \in History
  BY DEF Started, History
<1>2. \A r \in Watched : Continued(r) \in History
  BY <1>1 DEF TypeOK, Continued, History
<1>3. NoHistory \in History
  BY DEF NoHistory, History
<1> QED
  BY <1>1, <1>2, <1>3 DEF Observe

LEMMA TypeInit == Init => TypeOK
<1>1. NoHistory \in History
  BY DEF NoHistory, History
<1>2. [Vacant EXCEPT !.step = "idle"] \in Request
  BY VacantOK DEF Request, Steps
<1> QED
  BY <1>1, <1>2, InitCoolingOK, FallbackAssumption DEF Init, TypeOK

LEMMA TypeStep == TypeOK /\ [Next]_vars => TypeOK'
<1> SUFFICES ASSUME TypeOK, [Next]_vars
             PROVE  TypeOK'
  OBVIOUS
<1> USE DEF TypeOK
<1>0. \A r \in Reqs : req[r] \in Request
  OBVIOUS
<1>1. ASSUME NEW r \in Reqs, NEW c \in Creds, NEW m \in Models, Accept(r, c, m)
      PROVE  TypeOK'
  <2>1. Fresh(c, m) \in Request
    BY EmptySeq DEF Fresh, Request, Steps, Outcomes
  <2>2. req' \in [Reqs -> Request]
    BY <1>1, <2>1 DEF Accept
  <2> QED
    BY <1>1, <2>2, ObserveOK DEF Accept, CoolingOK
<1>2. ASSUME NEW r \in Reqs, CheckRequested(r)
      PROVE  TypeOK'
  <2>1. [req[r] EXCEPT !.step = "send"] \in Request
    BY <1>0 DEF Request, Steps
  <2>3. {req[r].model} \in SUBSET Models
    BY <1>0 DEF Request
  <2>4. Scanning(req[r], {req[r].model}) \in Request
    BY <1>0, <2>3, ScanningOK
  <2>2. req' \in [Reqs -> Request]
    BY <1>2, <2>1, <2>4 DEF CheckRequested
  <2> QED
    BY <1>2, <2>2, ObserveOK DEF CheckRequested, CoolingOK
<1>3. ASSUME NEW r \in Reqs, Examine(r)
      PROVE  TypeOK'
  <2>1. /\ req[r].todo \in Seq(Offers) /\ req[r].todo # <<>>
        /\ req[r].pool \in Seq(Models)
    BY <1>0, <1>3 DEF Examine, Request
  <2>2. /\ Head(req[r].todo) \in Offers
        /\ Tail(req[r].todo) \in Seq(Offers)
    BY <2>1, HeadTailProperties
  <2>3. Append(req[r].pool, Head(req[r].todo).id) \in Seq(Models)
    BY <2>1, <2>2, AppendProperties DEF Offers
  <2>4. req' \in [Reqs -> Request]
    BY <1>0, <1>3, <2>1, <2>2, <2>3 DEF Examine, Request
  <2> QED
    BY <1>3, <2>4, ObserveOK DEF Examine, CoolingOK
<1>4. ASSUME NEW r \in Reqs, Pick(r)
      PROVE  TypeOK'
  <2>1. Rotated(req[r].pool) \in Models
    BY <1>0, <1>4, RotatedOK, FallbackAssumption DEF Pick, Request
  <2>2. req' \in [Reqs -> Request]
    BY <1>0, <1>4, <2>1, EmptySeq DEF Pick, Request, Steps
  <2>3. cursor' \in 0..(CursorMod - 1)
    BY <1>4, FallbackAssumption DEF Pick
  <2> QED
    BY <1>4, <2>2, <2>3, ObserveOK DEF Pick, CoolingOK
<1>5. ASSUME NEW r \in Reqs, GiveUp(r)
      PROVE  TypeOK'
  <2>1. req' \in [Reqs -> Request]
    BY <1>5, FinishedOK DEF GiveUp, Outcomes
  <2> QED
    BY <1>5, <2>1, ObserveOK DEF GiveUp, CoolingOK
<1>6. ASSUME NEW r \in Reqs, Send(r)
      PROVE  TypeOK'
  <2>1. Append(req[r].asked, req[r].model) \in Seq(Models)
    BY <1>0, AppendProperties DEF Request
  <2>2. req' \in [Reqs -> Request]
    BY <1>0, <1>6, <2>1 DEF Send, Request, Steps
  <2> QED
    BY <1>6, <2>2, ObserveOK DEF Send, CoolingOK
<1>7. ASSUME NEW r \in Reqs, NEW refusal \in Refusals, Throttled(r, refusal)
      PROVE  TypeOK'
  <2>1. /\ Finished("throttled") \in Request
        /\ Scanning(req[r], req[r].tried) \in Request
    BY <1>0, FinishedOK, ScanningOK DEF Request, Outcomes
  <2>2. req' \in [Reqs -> Request]
    BY <1>7, <2>1 DEF Throttled
  <2>3. CoolingOK'
    BY <1>0, <1>7, MarkParks, FallbackAssumption DEF Throttled, Request
  <2> QED
    BY <1>7, <2>2, <2>3, ObserveOK DEF Throttled
<1>8. ASSUME NEW r \in Reqs, Answered(r)
      PROVE  TypeOK'
  <2>1. req' \in [Reqs -> Request]
    BY <1>0, <1>8 DEF Answered, Request, Steps
  <2> QED
    BY <1>8, <2>1, ObserveOK DEF Answered, CoolingOK
<1>9. ASSUME NEW r \in Reqs, Forgive(r)
      PROVE  TypeOK'
  <2>1. req' \in [Reqs -> Request]
    BY <1>9, FinishedOK DEF Forgive, Outcomes
  <2>2. CoolingOK'
    BY <1>0, <1>9, ClearFrees DEF Forgive, Request
  <2> QED
    BY <1>9, <2>1, <2>2, ObserveOK DEF Forgive
<1>10. ASSUME NEW r \in Reqs, Errored(r)
       PROVE  TypeOK'
  <2>1. req' \in [Reqs -> Request]
    BY <1>10, FinishedOK DEF Errored, Outcomes
  <2> QED
    BY <1>10, <2>1, ObserveOK DEF Errored, CoolingOK
<1>11. ASSUME NEW c \in Creds, Discover(c)
       PROVE  TypeOK'
  BY <1>11, ObserveOK DEF Discover, CoolingOK
<1>12. ASSUME NEW c \in Creds, Expire(c)
       PROVE  TypeOK'
  BY <1>12, ObserveOK DEF Expire, CoolingOK
<1>13. ASSUME Tick
       PROVE  TypeOK'
  <2>1. CoolingOK'
    BY <1>13, ElapseFrees DEF Tick
  <2> QED
    BY <1>13, <2>1, ObserveOK DEF Tick
<1>14. ASSUME UNCHANGED vars
       PROVE  TypeOK'
  BY <1>14 DEF vars, CoolingOK
<1> QED
  BY <1>1, <1>2, <1>3, <1>4, <1>5, <1>6, <1>7, <1>8, <1>9, <1>10, <1>11,
     <1>12, <1>13, <1>14
  DEF Next, Work

\* Every variable keeps its type: no wait is ever longer than
\* cooldownResetMax, no record of a request ill-formed.
THEOREM TypeCorrect == Spec => []TypeOK
  BY TypeInit, TypeStep, PTL DEF Spec

-----------------------------------------------------------------------------
(***************************************************************************)
(* A step changes the locals of at most one request.                       *)
(***************************************************************************)
LEMMA StepOfOne ==
    ASSUME TypeOK, [Next]_vars, NEW r \in Reqs
    PROVE  \/ req'[r] = req[r]
           \/ \E c \in Creds, m \in Models : Accept(r, c, m)
           \/ Work(r)
<1>1. ASSUME NEW q \in Reqs, NEW c \in Creds, NEW m \in Models,
             Accept(q, c, m), q # r
      PROVE  req'[r] = req[r]
  BY <1>1 DEF Accept, TypeOK
<1>2. ASSUME NEW q \in Reqs, Work(q), q # r
      PROVE  req'[r] = req[r]
  BY <1>2 DEF Work, CheckRequested, Examine, Pick, GiveUp, Send, Throttled,
              Answered, Forgive, Errored, TypeOK
<1>3. ASSUME NEW c \in Creds, Discover(c) \/ Expire(c)
      PROVE  req'[r] = req[r]
  BY <1>3 DEF Discover, Expire
<1>4. ASSUME Tick \/ UNCHANGED vars
      PROVE  req'[r] = req[r]
  BY <1>4 DEF Tick, vars
<1> QED
  BY <1>1, <1>2, <1>3, <1>4 DEF Next

-----------------------------------------------------------------------------
(***************************************************************************)
(* What the locals of one request say about each other.  `asked` alone     *)
(* does not carry the claim that no model is asked twice: it rests on      *)
(* `tried`, which gets the first model only after its successor was found. *)
(***************************************************************************)
FewAndDistinct(asked) ==
    /\ Len(asked) <= FallbackAttempts
    /\ \A i, j \in DOMAIN asked :
          i < j /\ asked[i] = asked[j] => i = 1 /\ j = 2

LocalInv(q) ==
    /\ FewAndDistinct(q.asked)
    /\ q.step = "check" => q.asked = <<>> /\ q.model = q.requested
    /\ q.step \in {"scan", "send"} => Len(q.asked) < FallbackAttempts
    /\ \A i \in DOMAIN q.asked : q.asked[i] \in q.tried \cup {q.model}
    /\ Len(q.asked) >= 2 => \A i \in DOMAIN q.asked : q.asked[i] \in q.tried
    /\ q.step = "scan" => \A i \in DOMAIN q.pool : q.pool[i] \notin q.tried
    /\ q.step = "send" /\ q.asked # <<>> =>
          /\ q.model \in q.tried
          /\ \A i \in DOMAIN q.asked : q.asked[i] \in q.tried
    /\ q.step = "send" /\ Len(q.asked) >= 2 =>
          \A i \in DOMAIN q.asked : q.asked[i] # q.model

LEMMA NothingAsked ==
    ASSUME NEW q \in Request, q.asked = <<>>, q.step \in {"idle", "done"}
    PROVE  LocalInv(q)
  BY FallbackAssumption DEF LocalInv, FewAndDistinct

LEMMA LocalAccept ==
    ASSUME TypeOK, NEW r \in Reqs, NEW c \in Creds, NEW m \in Models,
           Accept(r, c, m)
    PROVE  LocalInv(req'[r])
  BY FallbackAssumption DEF Accept, Fresh, LocalInv, FewAndDistinct, TypeOK

LEMMA LocalCheck ==
    ASSUME TypeOK, NEW r \in Reqs, LocalInv(req[r]), CheckRequested(r)
    PROVE  LocalInv(req'[r])
<1>1. req[r] \in Request
  BY DEF TypeOK
<1>2. CASE Parked(req[r].cred, req[r].model)
  <2>1. req'[r] = Scanning(req[r], {req[r].model})
    BY <1>2 DEF CheckRequested, TypeOK
  <2>2. req[r].asked = <<>>
    BY DEF LocalInv, CheckRequested
  <2>3. /\ req'[r].step = "scan" /\ req'[r].pool = <<>>
        /\ req'[r].asked = req[r].asked
    BY <1>1, <2>1, ScanningFields
  <2>4. /\ Len(req'[r].asked) = 0 /\ DOMAIN req'[r].asked = {}
        /\ DOMAIN req'[r].pool = {}
    BY <2>2, <2>3
  <2> QED
    BY <2>3, <2>4, FallbackAssumption DEF LocalInv, FewAndDistinct
<1>3. CASE ~Parked(req[r].cred, req[r].model)
  <2>1. req'[r] = [req[r] EXCEPT !.step = "send"]
    BY <1>3 DEF CheckRequested, TypeOK
  <2>2. req[r].asked = <<>>
    BY DEF LocalInv, CheckRequested
  <2>3. req'[r].step = "send" /\ req'[r].asked = req[r].asked
    BY <1>1, <2>1 DEF Request
  <2>4. Len(req'[r].asked) = 0 /\ DOMAIN req'[r].asked = {}
    BY <2>2, <2>3
  <2> QED
    BY <2>2, <2>3, <2>4, FallbackAssumption DEF LocalInv, FewAndDistinct
<1> QED
  BY <1>2, <1>3

LEMMA LocalExamine ==
    ASSUME TypeOK, NEW r \in Reqs, LocalInv(req[r]), Examine(r)
    PROVE  LocalInv(req'[r])
<1> DEFINE q == req[r]
           o == Head(q.todo)
<1>1. /\ q \in Request /\ q.step = "scan"
      /\ q.pool \in Seq(Models) /\ q.todo \in Seq(Offers) /\ q.todo # <<>>
  BY DEF TypeOK, Examine, Request
<1>2. o \in Offers
  BY <1>1, HeadTailProperties
<1>3. req'[r] = [q EXCEPT !.todo = Tail(q.todo),
                          !.pool = IF Usable(q, o) THEN Append(q.pool, o.id)
                                   ELSE q.pool]
  BY <1>1 DEF Examine, TypeOK, Request
<1>4. \A i \in DOMAIN req'[r].pool : req'[r].pool[i] \notin q.tried
  <2>1. CASE Usable(q, o)
    <3>1. req'[r].pool = Append(q.pool, o.id)
      BY <1>1, <1>3, <2>1 DEF Request
    <3>2. o.id \in Models /\ o.id \notin q.tried
      BY <1>2, <2>1 DEF Offers, Usable
    <3> QED
      BY <1>1, <3>1, <3>2, AppendProperties DEF LocalInv
  <2>2. CASE ~Usable(q, o)
    BY <1>1, <1>3, <2>2 DEF LocalInv, Request
  <2> QED
    BY <2>1, <2>2
<1>5. /\ req'[r].step = q.step /\ req'[r].asked = q.asked
      /\ req'[r].tried = q.tried /\ req'[r].model = q.model
  BY <1>1, <1>3 DEF Request
<1> QED
  BY <1>1, <1>4, <1>5 DEF LocalInv

LEMMA LocalPick ==
    ASSUME TypeOK, NEW r \in Reqs, LocalInv(req[r]), Pick(r)
    PROVE  LocalInv(req'[r])
<1> DEFINE q    == req[r]
           next == Rotated(q.pool)
<1>1. /\ q \in Request /\ q.step = "scan"
      /\ q.pool \in Seq(Models) /\ q.pool # <<>>
  BY DEF TypeOK, Pick, Request
<1>2. \E i \in DOMAIN q.pool : next = q.pool[i]
  BY <1>1, RotatedOK, FallbackAssumption DEF TypeOK
<1>3. next \notin q.tried
  BY <1>1, <1>2 DEF LocalInv
<1>4. req'[r] = [q EXCEPT !.step = "send", !.pool = <<>>,
                          !.tried = q.tried \cup {q.model, next},
                          !.model = next]
  BY <1>1 DEF Pick, TypeOK, Request
<1>5. /\ req'[r].step = "send" /\ req'[r].asked = q.asked
      /\ req'[r].tried = q.tried \cup {q.model, next}
      /\ req'[r].model = next
  BY <1>1, <1>4 DEF Request
<1> HIDE DEF next
<1> QED
  BY <1>1, <1>3, <1>5 DEF LocalInv

LEMMA LocalSend ==
    ASSUME TypeOK, NEW r \in Reqs, LocalInv(req[r]), Send(r)
    PROVE  LocalInv(req'[r])
<1> DEFINE q == req[r]
           a == Append(q.asked, q.model)
<1>1. /\ q \in Request /\ q.step = "send"
      /\ q.asked \in Seq(Models) /\ q.model \in Models
  BY DEF TypeOK, Send, Request
<1>2. /\ req'[r].step = "wait" /\ req'[r].asked = a
      /\ req'[r].tried = q.tried /\ req'[r].model = q.model
  BY <1>1 DEF Send, TypeOK, Request
<1>3. /\ a \in Seq(Models) /\ Len(a) = Len(q.asked) + 1
      /\ \A i \in 1..Len(q.asked) : a[i] = q.asked[i]
      /\ a[Len(q.asked) + 1] = q.model
  BY <1>1, AppendProperties
<1>4. DOMAIN a = 1..Len(a) /\ DOMAIN q.asked = 1..Len(q.asked)
      /\ Len(q.asked) \in Nat
  BY <1>1, <1>3
<1> HIDE DEF a
<1>5. FewAndDistinct(a)
  <2>1. Len(a) <= FallbackAttempts
    BY <1>1, <1>3, <1>4, FallbackAssumption DEF LocalInv
  <2>2. ASSUME NEW i \in DOMAIN a, NEW j \in DOMAIN a, i < j, a[i] = a[j]
        PROVE  i = 1 /\ j = 2
    <3>1. CASE j <= Len(q.asked)
      BY <1>3, <1>4, <2>2, <3>1 DEF LocalInv, FewAndDistinct
    <3>2. CASE j = Len(q.asked) + 1
      <4>1. i \in DOMAIN q.asked /\ q.asked[i] = q.model
        BY <1>3, <1>4, <2>2, <3>2
      <4>2. Len(q.asked) < 2
        BY <1>1, <1>4, <4>1 DEF LocalInv
      <4> QED
        BY <1>4, <2>2, <3>2, <4>1, <4>2
    <3> QED
      BY <1>3, <1>4, <3>1, <3>2
  <2> QED
    BY <2>1, <2>2 DEF FewAndDistinct
<1>6. \A i \in DOMAIN a : a[i] \in q.tried \cup {q.model}
  BY <1>1, <1>3, <1>4 DEF LocalInv
<1>7. Len(a) >= 2 => \A i \in DOMAIN a : a[i] \in q.tried
  <2>1. Len(a) >= 2 => q.asked # <<>>
    BY <1>3, <1>4
  <2> QED
    BY <1>1, <1>3, <1>4, <2>1 DEF LocalInv
<1> QED
  BY <1>2, <1>5, <1>6, <1>7 DEF LocalInv

LEMMA LocalThrottled ==
    ASSUME TypeOK, NEW r \in Reqs, LocalInv(req[r]),
           NEW refusal \in Refusals, Throttled(r, refusal)
    PROVE  LocalInv(req'[r])
<1>1. req[r] \in Request /\ Len(req[r].asked) \in Nat
  BY DEF TypeOK, Request
<1>2. CASE Len(req[r].asked) >= FallbackAttempts
  <2>1. req'[r] = Finished("throttled")
    BY <1>2 DEF Throttled, TypeOK
  <2> QED
    BY <2>1, FinishedOK, NothingAsked DEF Outcomes
<1>3. CASE ~(Len(req[r].asked) >= FallbackAttempts)
  <2>1. req'[r] = Scanning(req[r], req[r].tried)
    BY <1>3 DEF Throttled, TypeOK
  <2>2. /\ req'[r].step = "scan" /\ req'[r].pool = <<>>
        /\ req'[r].asked = req[r].asked /\ req'[r].tried = req[r].tried
        /\ req'[r].model = req[r].model
    BY <1>1, <2>1, ScanningFields
  <2> QED
    BY <1>1, <1>3, <2>2, FallbackAssumption DEF LocalInv
<1> QED
  BY <1>2, <1>3

LEMMA LocalStep ==
    ASSUME TypeOK, [Next]_vars, NEW r \in Reqs, LocalInv(req[r])
    PROVE  LocalInv(req'[r])
<1>1. ASSUME GiveUp(r) \/ Forgive(r) \/ Errored(r)
      PROVE  LocalInv(req'[r])
  <2>1. \E o \in Outcomes : req'[r] = Finished(o)
    BY <1>1 DEF GiveUp, Forgive, Errored, TypeOK, Outcomes
  <2> QED
    BY <2>1, FinishedOK, NothingAsked
<1>2. ASSUME Answered(r)
      PROVE  LocalInv(req'[r])
  <2>1. req[r] \in Request
    BY DEF TypeOK
  <2>2. req'[r] = [req[r] EXCEPT !.step = "clear"]
    BY <1>2 DEF Answered, TypeOK
  <2> QED
    BY <2>1, <2>2 DEF LocalInv, Request
<1>3. ASSUME Work(r)
      PROVE  LocalInv(req'[r])
  BY <1>1, <1>2, <1>3, LocalCheck, LocalExamine, LocalPick, LocalSend,
     LocalThrottled
  DEF Work
<1> QED
  BY <1>3, StepOfOne, LocalAccept

LEMMA LocalInit == Init => \A r \in Reqs : LocalInv(req[r])
<1> SUFFICES ASSUME Init, NEW r \in Reqs
             PROVE  LocalInv(req[r])
  OBVIOUS
<1>1. Vacant \in Request /\ Vacant.asked = <<>>
  BY VacantOK DEF Vacant, Fresh
<1>2. req[r] = [Vacant EXCEPT !.step = "idle"]
  BY DEF Init
<1>3. /\ req[r] \in Request
      /\ req[r].asked = <<>> /\ req[r].step = "idle"
  BY <1>1, <1>2 DEF Request, Steps
<1> QED
  BY <1>3, NothingAsked

\* Few calls, and distinct ones, for any number of attempts and requests,
\* whatever the others do to the table meanwhile.
THEOREM FewAndDistinctCalls == Spec => []AsksFewAndDistinct
<1> DEFINE Inv == \A r \in Reqs : LocalInv(req[r])
<1>1. Init => Inv
  BY LocalInit
<1>2. TypeOK /\ Inv /\ [Next]_vars => Inv'
  BY LocalStep
<1>3. Inv => AsksFewAndDistinct
  BY DEF LocalInv, FewAndDistinct, AsksFewAndDistinct
<1> QED
  BY <1>1, <1>2, <1>3, TypeCorrect, PTL DEF Spec

-----------------------------------------------------------------------------
(***************************************************************************)
(* What a request looks at, and hence what it asks, is the model the       *)
(* client named or a candidate.                                            *)
(***************************************************************************)
SpareInv(q) ==
    LET spares == Candidates(q.cred, TRUE)
    IN  /\ q.model \in {q.requested} \cup spares
        /\ \A i \in DOMAIN q.asked : q.asked[i] \in {q.requested} \cup spares
        /\ \A i \in DOMAIN q.pool : q.pool[i] \in spares
        /\ \A i \in DOMAIN q.todo :
              q.todo[i].kind \in {"free", "declared"} => q.todo[i].id \in spares

LEMMA FreshSpare ==
    ASSUME NEW q, q.model = q.requested,
           q.asked = <<>>, q.pool = <<>>, q.todo = <<>>
    PROVE  SpareInv(q)
  BY DEF SpareInv

LEMMA FinishedSpare ==
    ASSUME NEW o \in Outcomes
    PROVE  SpareInv(Finished(o))
<1>1. Finished(o) = [Vacant EXCEPT !.step = "done", !.outcome = o]
  BY DEF Finished
<1>2. /\ Vacant.model = Vacant.requested
      /\ Vacant.asked = <<>> /\ Vacant.pool = <<>> /\ Vacant.todo = <<>>
  BY DEF Vacant, Fresh
<1> QED
  BY <1>1, <1>2, VacantOK, FreshSpare DEF Request

\* Only the ids of the catalog that are free, and the declared ones, are on
\* offer as something to be picked.
LEMMA OnOfferSpare ==
    ASSUME NEW c \in Creds
    PROVE  \A i \in DOMAIN OnOffer(c) :
              OnOffer(c)[i].kind \in {"free", "declared"}
              => OnOffer(c)[i].id \in Candidates(c, TRUE)
<1>1. /\ Catalog[c] \in Seq([id : Models, kind : Kinds \ {"declared"}])
      /\ ExtraModels \in Seq([id : Models, kind : {"declared"}])
  BY FallbackAssumption
<1>2. \A i \in DOMAIN ExtraModels : ExtraModels[i].id \in Candidates(c, TRUE)
  BY <1>1 DEF Candidates, Range
<1>3. ASSUME NEW i \in DOMAIN Catalog[c],
             Catalog[c][i].kind \in {"free", "declared"}
      PROVE  Catalog[c][i].id \in Candidates(c, TRUE)
  <2>1. Catalog[c][i].kind = "free"
    <3>1. DOMAIN Catalog[c] = 1..Len(Catalog[c])
      BY <1>1
    <3>2. Catalog[c][i] \in [id : Models, kind : Kinds \ {"declared"}]
      BY <1>1, <1>3, <3>1, ElementOfSeq
    <3> QED
      BY <1>3, <3>2
  <2> QED
    BY <2>1 DEF Candidates, Range
<1>4. CASE c \in warm
  <2>1. OnOffer(c) = Catalog[c] \o ExtraModels
    BY <1>4 DEF OnOffer
  <2>2. Catalog[c] \in Seq(Offers) /\ ExtraModels \in Seq(Offers)
    <3>1. /\ [id : Models, kind : Kinds \ {"declared"}] \subseteq Offers
          /\ [id : Models, kind : {"declared"}] \subseteq Offers
      BY DEF Offers, Kinds
    <3> QED
      BY <1>1, <3>1, SeqMonotonic
  <2>3. ASSUME NEW i \in DOMAIN OnOffer(c)
        PROVE  \/ i \in DOMAIN Catalog[c] /\ OnOffer(c)[i] = Catalog[c][i]
               \/ \E j \in DOMAIN ExtraModels :
                     OnOffer(c)[i] = ExtraModels[j]
    <3>1. i \in 1..(Len(Catalog[c]) + Len(ExtraModels))
      BY <2>1, <2>2, <2>3, ConcatProperties
    <3>2. OnOffer(c)[i] = IF i <= Len(Catalog[c]) THEN Catalog[c][i]
                          ELSE ExtraModels[i - Len(Catalog[c])]
      BY <2>1, <2>2, <3>1, ConcatProperties
    <3>3. Len(Catalog[c]) \in Nat /\ Len(ExtraModels) \in Nat
          /\ DOMAIN Catalog[c] = 1..Len(Catalog[c])
          /\ DOMAIN ExtraModels = 1..Len(ExtraModels)
      BY <2>2
    <3>4. CASE i <= Len(Catalog[c])
      BY <3>1, <3>2, <3>3, <3>4
    <3>5. CASE ~(i <= Len(Catalog[c]))
      <4>1. i - Len(Catalog[c]) \in DOMAIN ExtraModels
        BY <3>1, <3>3, <3>5
      <4> QED
        BY <3>2, <3>5, <4>1
    <3> QED
      BY <3>4, <3>5
  <2> QED
    BY <1>2, <1>3, <2>3
<1>5. CASE c \notin warm
  <2>1. OnOffer(c) = <<>> \o ExtraModels
    BY <1>5 DEF OnOffer
  <2>2. OnOffer(c) = ExtraModels
    BY <1>1, <2>1, ConcatEmptySeq
  <2> QED
    BY <1>2, <2>2
<1> QED
  BY <1>4, <1>5

LEMMA ScanningSpare ==
    ASSUME TypeOK, NEW q \in Request, NEW tried, SpareInv(q)
    PROVE  SpareInv(Scanning(q, tried))
<1> DEFINE p == Scanning(q, tried)
<1>1. /\ p.todo = OnOffer(q.cred) /\ p.pool = <<>>
      /\ p.cred = q.cred /\ p.requested = q.requested
      /\ p.model = q.model /\ p.asked = q.asked
  BY ScanningFields
<1>2. q.cred \in Creds
  BY DEF Request
<1> HIDE DEF p
<1>3. DOMAIN p.pool = {}
  BY <1>1
<1> QED
  BY <1>1, <1>2, <1>3, OnOfferSpare DEF SpareInv, p

LEMMA SpareStep ==
    ASSUME TypeOK, [Next]_vars, NEW r \in Reqs, SpareInv(req[r])
    PROVE  SpareInv(req'[r])
<1> DEFINE q == req[r]
<1>0. q \in Request
  BY DEF TypeOK
<1>1. ASSUME NEW c \in Creds, NEW m \in Models, Accept(r, c, m)
      PROVE  SpareInv(req'[r])
  BY <1>1, FreshSpare DEF Accept, Fresh, TypeOK
<1>2. ASSUME CheckRequested(r)
      PROVE  SpareInv(req'[r])
  <2>1. \/ req'[r] = Scanning(q, {q.model})
        \/ req'[r] = [q EXCEPT !.step = "send"]
    BY <1>2 DEF CheckRequested, TypeOK
  <2>2. SpareInv([q EXCEPT !.step = "send"])
    BY <1>0 DEF SpareInv, Request
  <2> QED
    BY <1>0, <2>1, <2>2, ScanningSpare
<1>3. ASSUME Examine(r)
      PROVE  SpareInv(req'[r])
  <2> DEFINE o == Head(q.todo)
  <2>1. /\ q.pool \in Seq(Models) /\ q.todo \in Seq(Offers) /\ q.todo # <<>>
    BY <1>0, <1>3 DEF Examine, Request
  <2>2. /\ o \in Offers /\ o = q.todo[1] /\ 1 \in DOMAIN q.todo
        /\ Tail(q.todo) \in Seq(Offers)
        /\ Len(Tail(q.todo)) = Len(q.todo) - 1
        /\ \A i \in 1..Len(Tail(q.todo)) : Tail(q.todo)[i] = q.todo[i + 1]
    BY <2>1, HeadTailProperties
  <2>3. req'[r] = [q EXCEPT !.todo = Tail(q.todo),
                            !.pool = IF Usable(q, o)
                                     THEN Append(q.pool, o.id) ELSE q.pool]
    BY <1>0, <1>3 DEF Examine, TypeOK, Request
  <2>4. /\ req'[r].todo = Tail(q.todo)
        /\ req'[r].pool = IF Usable(q, o) THEN Append(q.pool, o.id)
                          ELSE q.pool
        /\ req'[r].cred = q.cred /\ req'[r].requested = q.requested
        /\ req'[r].model = q.model /\ req'[r].asked = q.asked
    BY <1>0, <2>3 DEF Request
  <2>5. \A i \in DOMAIN Tail(q.todo) :
           \E j \in DOMAIN q.todo : Tail(q.todo)[i] = q.todo[j]
    <3>1. ASSUME NEW i \in DOMAIN Tail(q.todo)
          PROVE  i + 1 \in DOMAIN q.todo /\ Tail(q.todo)[i] = q.todo[i + 1]
      BY <2>1, <2>2, <3>1
    <3> QED
      BY <3>1
  <2>6. Usable(q, o) => o.id \in Models /\ o.id \in Candidates(q.cred, TRUE)
    BY <2>2 DEF SpareInv, Usable, Offers
  <2>7. \A i \in DOMAIN req'[r].pool :
           req'[r].pool[i] \in Candidates(q.cred, TRUE)
    <3>1. CASE Usable(q, o)
      <4>1. req'[r].pool = Append(q.pool, o.id) /\ o.id \in Models
        BY <2>4, <2>6, <3>1
      <4>2. \A i \in DOMAIN req'[r].pool :
               \/ i \in DOMAIN q.pool /\ req'[r].pool[i] = q.pool[i]
               \/ req'[r].pool[i] = o.id
        BY <2>1, <4>1, AppendProperties
      <4> QED
        BY <2>6, <3>1, <4>2 DEF SpareInv
    <3>2. CASE ~Usable(q, o)
      BY <2>4, <3>2 DEF SpareInv
    <3> QED
      BY <3>1, <3>2
  <2> HIDE DEF o
  <2> QED
    BY <2>4, <2>5, <2>7 DEF SpareInv
<1>4. ASSUME Pick(r)
      PROVE  SpareInv(req'[r])
  <2>1. q.pool \in Seq(Models) /\ q.pool # <<>>
    BY <1>0, <1>4 DEF Pick, Request
  <2>2. \E i \in DOMAIN q.pool : Rotated(q.pool) = q.pool[i]
    BY <2>1, RotatedOK, FallbackAssumption DEF TypeOK
  <2>3. Rotated(q.pool) \in Candidates(q.cred, TRUE)
    BY <2>2 DEF SpareInv
  <2>4. /\ req'[r].todo = q.todo /\ req'[r].pool = <<>>
        /\ req'[r].cred = q.cred /\ req'[r].requested = q.requested
        /\ req'[r].model = Rotated(q.pool) /\ req'[r].asked = q.asked
    BY <1>0, <1>4 DEF Pick, TypeOK, Request
  <2>5. DOMAIN req'[r].pool = {}
    BY <2>4
  <2> QED
    BY <2>3, <2>4, <2>5 DEF SpareInv
<1>5. ASSUME Send(r)
      PROVE  SpareInv(req'[r])
  <2>1. q.asked \in Seq(Models) /\ q.model \in Models
    BY <1>0 DEF Request
  <2>2. /\ req'[r].todo = q.todo /\ req'[r].pool = q.pool
        /\ req'[r].cred = q.cred /\ req'[r].requested = q.requested
        /\ req'[r].model = q.model /\ req'[r].asked = Append(q.asked, q.model)
    BY <1>0, <1>5 DEF Send, TypeOK, Request
  <2>3. \A i \in DOMAIN req'[r].asked :
           \/ i \in DOMAIN q.asked /\ req'[r].asked[i] = q.asked[i]
           \/ req'[r].asked[i] = q.model
    BY <2>1, <2>2, AppendProperties
  <2> QED
    BY <2>2, <2>3 DEF SpareInv
<1>6. ASSUME NEW refusal \in Refusals, Throttled(r, refusal)
      PROVE  SpareInv(req'[r])
  <2>1. \/ req'[r] = Finished("throttled")
        \/ req'[r] = Scanning(q, q.tried)
    BY <1>6 DEF Throttled, TypeOK
  <2> QED
    BY <1>0, <2>1, FinishedSpare, ScanningSpare DEF Outcomes
<1>7. ASSUME Answered(r)
      PROVE  SpareInv(req'[r])
  <2>1. req'[r] = [q EXCEPT !.step = "clear"]
    BY <1>7 DEF Answered, TypeOK
  <2> QED
    BY <1>0, <2>1 DEF SpareInv, Request
<1>8. ASSUME GiveUp(r) \/ Forgive(r) \/ Errored(r)
      PROVE  SpareInv(req'[r])
  <2>1. \E o \in Outcomes : req'[r] = Finished(o)
    BY <1>8 DEF GiveUp, Forgive, Errored, TypeOK, Outcomes
  <2> QED
    BY <2>1, FinishedSpare
<1>9. Work(r) => SpareInv(req'[r])
  BY <1>2, <1>3, <1>4, <1>5, <1>6, <1>7, <1>8 DEF Work
<1> QED
  BY <1>1, <1>9, StepOfOne

LEMMA SpareInit == Init => \A r \in Reqs : SpareInv(req[r])
<1> SUFFICES ASSUME Init, NEW r \in Reqs
             PROVE  SpareInv(req[r])
  OBVIOUS
<1>1. /\ Vacant.model = Vacant.requested
      /\ Vacant.asked = <<>> /\ Vacant.pool = <<>> /\ Vacant.todo = <<>>
  BY DEF Vacant, Fresh
<1>2. req[r] = [Vacant EXCEPT !.step = "idle"]
  BY DEF Init
<1> QED
  BY <1>1, <1>2, VacantOK, FreshSpare DEF Request

\* A fallback is a free model of the catalog or a declared one, for any
\* catalogs and any declarations.
THEOREM OnlyCandidatesAsked == Spec => []SparesAreCandidates
<1> DEFINE Inv == \A r \in Reqs : SpareInv(req[r])
<1>1. Init => Inv
  BY SpareInit
<1>2. TypeOK /\ Inv /\ [Next]_vars => Inv'
  BY SpareStep
<1>3. Inv => SparesAreCandidates
  BY DEF SpareInv, SparesAreCandidates
<1> QED
  BY <1>1, <1>2, <1>3, TypeCorrect, PTL DEF Spec

-----------------------------------------------------------------------------
(***************************************************************************)
(* The history.  It agrees with the present (Anchored) whatever the step,  *)
(* and only shrinks while a request is open; what the locals have to do    *)
(* with it (Apt) survives any shrinking, so the steps of other requests,   *)
(* of the cache and of the clock cannot break it.                          *)
(***************************************************************************)
Anchored(r) ==
    /\ \A m \in since[r].parked : cooling[<<req[r].cred, m>>].left > 0
    /\ \A m \in since[r].idle : cooling[<<req[r].cred, m>>].left = 0
    /\ since[r].warm => req[r].cred \in warm

Eligible(o) == o.kind \in {"free", "declared"}

Apt(q, h) ==
    /\ q.step = "check" => q.tried = {}
    /\ q.step = "scan" =>
          /\ \A i \in DOMAIN q.pool : q.pool[i] \notin h.parked
          /\ \A m \in h.idle : m \notin q.tried /\ m # q.model
          /\ \A m \in h.idle \cap Candidates(q.cred, h.warm) :
                \/ \E i \in DOMAIN q.pool : q.pool[i] = m
                \/ \E i \in DOMAIN q.todo :
                      q.todo[i].id = m /\ Eligible(q.todo[i])
    /\ q.step \in {"send", "wait"} =>
          /\ q.model \notin h.parked
          /\ \A m \in h.idle : m \in q.tried => m = q.model

Within(g, h) ==
    /\ g.parked \subseteq h.parked
    /\ g.idle \subseteq h.idle
    /\ g.warm => h.warm

LEMMA AptWithin ==
    ASSUME NEW q, NEW h \in History, NEW g \in History,
           Apt(q, h), Within(g, h)
    PROVE  Apt(q, g)
<1>1. Candidates(q.cred, g.warm) \subseteq Candidates(q.cred, h.warm)
  BY DEF Candidates, Within
<1> QED
  BY <1>1 DEF Apt, Within

LEMMA StepObserves ==
    ASSUME [Next]_vars
    PROVE  Observe \/ UNCHANGED vars
  BY DEF Next, Work, Accept, CheckRequested, Examine, Pick, GiveUp, Send,
         Throttled, Answered, Forgive, Errored, Discover, Expire, Tick

LEMMA CredKept ==
    ASSUME TypeOK, [Next]_vars, NEW r \in Reqs,
           Open(req[r]), Open(req'[r])
    PROVE  req'[r].cred = req[r].cred
<1>0. req[r] \in Request
  BY DEF TypeOK
<1>1. ASSUME CheckRequested(r)
      PROVE  req'[r].cred = req[r].cred
  <2>1. \/ req'[r] = Scanning(req[r], {req[r].model})
        \/ req'[r] = [req[r] EXCEPT !.step = "send"]
    BY <1>1 DEF CheckRequested, TypeOK
  <2>2. [req[r] EXCEPT !.step = "send"].cred = req[r].cred
    BY <1>0 DEF Request
  <2>3. Scanning(req[r], {req[r].model}).cred = req[r].cred
    BY <1>0, ScanningFields
  <2> QED
    BY <2>1, <2>2, <2>3
<1>2. ASSUME NEW refusal \in Refusals, Throttled(r, refusal)
      PROVE  req'[r].cred = req[r].cred
  <2>1. \/ req'[r] = Scanning(req[r], req[r].tried)
        \/ req'[r] = Finished("throttled")
    BY <1>2 DEF Throttled, TypeOK
  <2> QED
    BY <1>0, <2>1, ScanningFields, FinishedOK DEF Open, Outcomes
<1>3. ASSUME Examine(r) \/ Pick(r) \/ Send(r) \/ Answered(r)
      PROVE  req'[r].cred = req[r].cred
  BY <1>0, <1>3 DEF Examine, Pick, Send, Answered, TypeOK, Request
<1>4. ASSUME GiveUp(r) \/ Forgive(r) \/ Errored(r)
      PROVE  FALSE
  <2>1. \E o \in Outcomes : req'[r] = Finished(o)
    BY <1>4 DEF GiveUp, Forgive, Errored, TypeOK, Outcomes
  <2> QED
    BY <2>1, FinishedOK DEF Open
<1>5. Work(r) => req'[r].cred = req[r].cred
  BY <1>1, <1>2, <1>3, <1>4 DEF Work
<1> QED
  BY <1>5, StepOfOne DEF Accept

LEMMA ContinuedFields ==
    ASSUME NEW r
    PROVE  LET now == Started(req[r].cred)
           IN  /\ Continued(r).parked = since[r].parked \cap now.parked
               /\ Continued(r).idle = since[r].idle \cap now.idle
               /\ Continued(r).warm = (since[r].warm /\ now.warm)
  BY Zenon DEF Continued

LEMMA AnchoredStep ==
    ASSUME TypeOK, [Next]_vars, NEW r \in Watched, Anchored(r)
    PROVE  Anchored(r)'
<1>0. r \in Reqs
  BY FallbackAssumption
<1>1. CASE UNCHANGED vars
  BY <1>1 DEF vars, Anchored
<1>2. CASE Observe /\ ~Open(req'[r])
  <2>1. since'[r] = NoHistory
    BY <1>2 DEF Observe
  <2>2. /\ since'[r].parked = {} /\ since'[r].idle = {}
        /\ since'[r].warm = FALSE
    BY <2>1 DEF NoHistory
  <2> QED
    BY <2>2 DEF Anchored
<1>3. CASE Observe /\ Open(req'[r]) /\ ~Open(req[r])
  <2>1. since'[r] = Started(req'[r].cred)
    BY <1>3 DEF Observe
  <2>2. /\ Started(req'[r].cred).parked
              = {m \in Models : cooling'[<<req'[r].cred, m>>].left > 0}
        /\ Started(req'[r].cred).idle
              = {m \in Models : cooling'[<<req'[r].cred, m>>].left = 0}
        /\ Started(req'[r].cred).warm = (req'[r].cred \in warm')
    BY Zenon DEF Started
  <2>3. /\ \A m \in since'[r].parked : cooling'[<<req'[r].cred, m>>].left > 0
        /\ \A m \in since'[r].idle : cooling'[<<req'[r].cred, m>>].left = 0
    BY <2>1, <2>2, Zenon
  <2>4. since'[r].warm => req'[r].cred \in warm'
    BY <2>1, <2>2, Zenon
  <2> QED
    BY <2>3, <2>4 DEF Anchored
<1>4. CASE Observe /\ Open(req'[r]) /\ Open(req[r])
  <2>1. since'[r] = Continued(r) /\ req'[r].cred = req[r].cred
    BY <1>0, <1>4, CredKept DEF Observe
  <2>2. /\ Started(req[r].cred).parked
              = {m \in Models : cooling'[<<req[r].cred, m>>].left > 0}
        /\ Started(req[r].cred).idle
              = {m \in Models : cooling'[<<req[r].cred, m>>].left = 0}
        /\ Started(req[r].cred).warm = (req[r].cred \in warm')
    BY Zenon DEF Started
  <2>3. /\ since'[r].parked
              = since[r].parked \cap Started(req[r].cred).parked
        /\ since'[r].idle = since[r].idle \cap Started(req[r].cred).idle
        /\ since'[r].warm = (since[r].warm /\ Started(req[r].cred).warm)
    BY <2>1, ContinuedFields
  <2>4. /\ \A m \in since'[r].parked : cooling'[<<req[r].cred, m>>].left > 0
        /\ \A m \in since'[r].idle : cooling'[<<req[r].cred, m>>].left = 0
    BY <2>2, <2>3, Zenon
  <2>5. since'[r].warm => req[r].cred \in warm'
    BY <2>2, <2>3, Zenon
  <2> QED
    BY <2>1, <2>4, <2>5 DEF Anchored
<1> QED
  BY <1>1, <1>2, <1>3, <1>4, StepObserves

LEMMA Shrinks ==
    ASSUME TypeOK, [Next]_vars, NEW r \in Watched,
           Open(req[r]), Open(req'[r])
    PROVE  Within(since'[r], since[r])
<1>1. CASE UNCHANGED vars
  BY <1>1 DEF vars, Within
<1>2. CASE Observe
  <2>1. since'[r] = Continued(r)
    BY <1>2 DEF Observe
  <2> QED
    BY <2>1, ContinuedFields DEF Within
<1> QED
  BY <1>1, <1>2, StepObserves

\* A search leaves no candidate out.
LEMMA OnOfferComplete ==
    ASSUME NEW c \in Creds, NEW w \in BOOLEAN, w => c \in warm,
           NEW m \in Candidates(c, w)
    PROVE  \E i \in DOMAIN OnOffer(c) :
              OnOffer(c)[i].id = m /\ Eligible(OnOffer(c)[i])
<1>1. /\ Catalog[c] \in Seq(Offers) /\ ExtraModels \in Seq(Offers)
      /\ ExtraModels \in Seq([id : Models, kind : {"declared"}])
  <2>1. /\ [id : Models, kind : Kinds \ {"declared"}] \subseteq Offers
        /\ [id : Models, kind : {"declared"}] \subseteq Offers
    BY DEF Offers, Kinds
  <2> QED
    BY <2>1, SeqMonotonic, FallbackAssumption
<1> DEFINE s1 == IF c \in warm THEN Catalog[c] ELSE <<>>
<1>2. s1 \in Seq(Offers) /\ OnOffer(c) = s1 \o ExtraModels
  BY <1>1, EmptySeq DEF OnOffer
<1>3. /\ Len(OnOffer(c)) = Len(s1) + Len(ExtraModels)
      /\ OnOffer(c) \in Seq(Offers)
      /\ \A i \in 1..(Len(s1) + Len(ExtraModels)) :
            OnOffer(c)[i] = IF i <= Len(s1) THEN s1[i]
                            ELSE ExtraModels[i - Len(s1)]
  BY <1>1, <1>2, ConcatProperties
<1>4. /\ Len(s1) \in Nat /\ DOMAIN s1 = 1..Len(s1)
      /\ Len(ExtraModels) \in Nat /\ DOMAIN ExtraModels = 1..Len(ExtraModels)
      /\ DOMAIN OnOffer(c) = 1..Len(OnOffer(c))
  BY <1>1, <1>2, <1>3
<1>5. CASE \E j \in DOMAIN ExtraModels : ExtraModels[j].id = m
  <2>1. PICK j \in DOMAIN ExtraModels : ExtraModels[j].id = m
    BY <1>5
  <2>2. ExtraModels[j].kind = "declared"
    <3>1. ExtraModels[j] \in [id : Models, kind : {"declared"}]
      BY <1>1, <1>4, <2>1, ElementOfSeq
    <3> QED
      BY <3>1
  <2>3. /\ Len(s1) + j \in DOMAIN OnOffer(c)
        /\ OnOffer(c)[Len(s1) + j] = ExtraModels[j]
    <3> HIDE DEF s1
    <3> QED
      BY <1>3, <1>4
  <2> QED
    BY <2>1, <2>2, <2>3 DEF Eligible
<1>6. CASE w /\ \E j \in DOMAIN Catalog[c] :
                   Catalog[c][j].id = m /\ Catalog[c][j].kind = "free"
  <2>1. PICK j \in DOMAIN Catalog[c] :
               Catalog[c][j].id = m /\ Catalog[c][j].kind = "free"
    BY <1>6
  <2>2. s1 = Catalog[c]
    BY <1>6
  <2>3. j \in DOMAIN OnOffer(c) /\ OnOffer(c)[j] = Catalog[c][j]
    <3> HIDE DEF s1
    <3> QED
      BY <1>3, <1>4, <2>1, <2>2
  <2> QED
    BY <2>1, <2>3 DEF Eligible
<1> QED
  BY <1>5, <1>6 DEF Candidates, Range

LEMMA AptStep ==
    ASSUME TypeOK, [Next]_vars, NEW r \in Watched, Anchored(r), TypeOK',
           Apt(req[r], since[r])
    PROVE  Apt(req'[r], since'[r])
<1> DEFINE q == req[r]
           h == since'[r]
<1>0. /\ r \in Reqs /\ q \in Request
      /\ since[r] \in History /\ since'[r] \in History
  BY FallbackAssumption DEF TypeOK
<1>1. Anchored(r)'
  BY AnchoredStep
<1>2. ASSUME ~Open(req'[r])
      PROVE  Apt(req'[r], h)
  BY <1>2 DEF Apt, Open
<1>3. ASSUME ~Open(q), Open(req'[r])
      PROVE  Apt(req'[r], h)
  <2>1. \E c \in Creds, m \in Models : Accept(r, c, m)
    BY <1>0, <1>3, StepOfOne
    DEF Work, CheckRequested, Examine, Pick, GiveUp, NoneLeft, Send,
        Throttled, Answered, Forgive, Errored, Open
  <2>2. req'[r].step = "check" /\ req'[r].tried = {}
    BY <1>0, <2>1 DEF Accept, Fresh, TypeOK
  <2> QED
    BY <2>2 DEF Apt
<1>4. ASSUME Open(q), Open(req'[r])
      PROVE  Apt(req'[r], h)
  <2>1. Within(h, since[r])
    BY <1>4, Shrinks
  <2>2. Apt(q, h)
    BY <1>0, <2>1, AptWithin
  <2>3. /\ req'[r].cred = q.cred /\ q.cred \in Creds
        /\ q.model \in Models
    BY <1>0, <1>4, CredKept DEF Request
  <2>4. ASSUME req'[r] = q
        PROVE  Apt(req'[r], h)
    BY <2>2, <2>4
  <2>5. ASSUME CheckRequested(r)
        PROVE  Apt(req'[r], h)
    <3>1. q.step = "check" /\ q.tried = {} /\ cooling' = cooling
          /\ warm' = warm
      BY <2>2, <2>5 DEF CheckRequested, Apt
    <3>2. CASE Parked(q.cred, q.model)
      <4>1. req'[r] = Scanning(q, {q.model})
        BY <1>0, <2>5, <3>2 DEF CheckRequested, TypeOK
      <4>2. /\ req'[r].step = "scan" /\ req'[r].tried = {q.model}
            /\ req'[r].todo = OnOffer(q.cred) /\ req'[r].pool = <<>>
            /\ req'[r].model = q.model
        BY <1>0, <4>1, ScanningFields
      <4>3. q.model \notin h.idle
        BY <1>1, <2>3, <3>1, <3>2 DEF Anchored, Parked, cooldownRemaining
      <4>4. h.warm \in BOOLEAN /\ (h.warm => q.cred \in warm)
        BY <1>0, <1>1, <2>3, <3>1 DEF Anchored, History
      <4>5. DOMAIN req'[r].pool = {}
        BY <4>2
      <4> QED
        BY <2>3, <4>2, <4>3, <4>4, <4>5, OnOfferComplete DEF Apt
    <3>3. CASE ~Parked(q.cred, q.model)
      <4>1. req'[r] = [q EXCEPT !.step = "send"]
        BY <1>0, <2>5, <3>3 DEF CheckRequested, TypeOK
      <4>2. /\ req'[r].step = "send" /\ req'[r].tried = {}
            /\ req'[r].model = q.model
        BY <1>0, <3>1, <4>1 DEF Request
      <4>3. q.model \notin h.parked
        BY <1>1, <2>3, <3>1, <3>3 DEF Anchored, Parked, cooldownRemaining
      <4> QED
        BY <4>2, <4>3 DEF Apt
    <3> QED
      BY <3>2, <3>3
  <2>6. ASSUME Examine(r)
        PROVE  Apt(req'[r], h)
    <3> DEFINE o == Head(q.todo)
    <3>1. /\ q.step = "scan" /\ cooling' = cooling
          /\ q.pool \in Seq(Models) /\ q.todo \in Seq(Offers)
          /\ q.todo # <<>>
      BY <1>0, <2>6 DEF Examine, Request
    <3>2. /\ o \in Offers /\ o = q.todo[1]
          /\ Len(Tail(q.todo)) = Len(q.todo) - 1
          /\ \A i \in 1..Len(Tail(q.todo)) : Tail(q.todo)[i] = q.todo[i + 1]
          /\ Tail(q.todo) \in Seq(Offers)
      BY <3>1, HeadTailProperties
    <3>3. req'[r] = [q EXCEPT !.todo = Tail(q.todo),
                              !.pool = IF Usable(q, o)
                                       THEN Append(q.pool, o.id) ELSE q.pool]
      BY <1>0, <2>6 DEF Examine, TypeOK, Request
    <3>4. /\ req'[r].step = "scan" /\ req'[r].tried = q.tried
          /\ req'[r].model = q.model /\ req'[r].todo = Tail(q.todo)
          /\ req'[r].pool = IF Usable(q, o) THEN Append(q.pool, o.id)
                            ELSE q.pool
      BY <1>0, <3>1, <3>3 DEF Request
    <3>5. \A i \in DOMAIN q.todo :
             \/ q.todo[i] = o
             \/ \E j \in DOMAIN Tail(q.todo) : Tail(q.todo)[j] = q.todo[i]
      <4>1. ASSUME NEW i \in DOMAIN q.todo, i # 1
            PROVE  /\ i - 1 \in DOMAIN Tail(q.todo)
                   /\ Tail(q.todo)[i - 1] = q.todo[i]
        BY <3>1, <3>2, <4>1
      <4> QED
        BY <3>2, <4>1
    <3>6. CASE Usable(q, o)
      <4>1. o.id \in Models /\ o.id \notin h.parked
        BY <1>1, <2>3, <3>1, <3>2, <3>6
        DEF Usable, Offers, Anchored, Parked, cooldownRemaining
      <4>2. req'[r].pool = Append(q.pool, o.id)
        BY <3>4, <3>6
      <4>3. /\ \A i \in DOMAIN req'[r].pool :
                  \/ i \in DOMAIN q.pool /\ req'[r].pool[i] = q.pool[i]
                  \/ req'[r].pool[i] = o.id
            /\ \A i \in DOMAIN q.pool :
                  i \in DOMAIN req'[r].pool /\ req'[r].pool[i] = q.pool[i]
            /\ \E i \in DOMAIN req'[r].pool : req'[r].pool[i] = o.id
        <5>1. /\ DOMAIN q.pool = 1..Len(q.pool) /\ Len(q.pool) \in Nat
              /\ DOMAIN req'[r].pool = 1..(Len(q.pool) + 1)
              /\ req'[r].pool[Len(q.pool) + 1] = o.id
              /\ \A i \in 1..Len(q.pool) : req'[r].pool[i] = q.pool[i]
          BY <3>1, <4>1, <4>2, AppendProperties
        <5> HIDE DEF o, q
        <5>2. \A i \in 1..(Len(q.pool) + 1) :
                 i \in 1..Len(q.pool) \/ i = Len(q.pool) + 1
          BY <5>1
        <5> QED
          BY <5>1, <5>2
      <4> HIDE DEF o, q, h
      <4>4. \A i \in DOMAIN req'[r].pool : req'[r].pool[i] \notin h.parked
        BY <2>2, <3>1, <4>1, <4>3 DEF Apt
      <4>5. \A m \in h.idle \cap Candidates(q.cred, h.warm) :
               \/ \E i \in DOMAIN req'[r].pool : req'[r].pool[i] = m
               \/ \E i \in DOMAIN Tail(q.todo) :
                     Tail(q.todo)[i].id = m /\ Eligible(Tail(q.todo)[i])
        <5>1. ASSUME NEW m \in h.idle \cap Candidates(q.cred, h.warm)
              PROVE  \/ \E i \in DOMAIN q.pool : q.pool[i] = m
                     \/ \E i \in DOMAIN q.todo :
                           q.todo[i].id = m /\ Eligible(q.todo[i])
          BY <2>2, <3>1 DEF Apt
        <5>2. ASSUME NEW m, NEW i \in DOMAIN q.todo,
                     q.todo[i].id = m, Eligible(q.todo[i])
              PROVE  \/ o.id = m
                     \/ \E j \in DOMAIN Tail(q.todo) :
                           Tail(q.todo)[j].id = m /\ Eligible(Tail(q.todo)[j])
          BY <3>5, <5>2
        <5> QED
          BY <4>3, <5>1, <5>2
      <4> QED
        BY <2>2, <2>3, <3>1, <3>4, <4>4, <4>5 DEF Apt
    <3>7. CASE ~Usable(q, o)
      <4>1. req'[r].pool = q.pool
        BY <3>4, <3>7
      <4>2. Eligible(o) => o.id \in q.tried \/ o.id \notin h.idle
        BY <1>1, <2>3, <3>1, <3>7
        DEF Usable, Eligible, Anchored, Parked, cooldownRemaining
      <4> HIDE DEF o, q, h
      <4>3. \A m \in h.idle \cap Candidates(q.cred, h.warm) :
               \/ \E i \in DOMAIN q.pool : q.pool[i] = m
               \/ \E i \in DOMAIN Tail(q.todo) :
                     Tail(q.todo)[i].id = m /\ Eligible(Tail(q.todo)[i])
        <5>1. ASSUME NEW m \in h.idle \cap Candidates(q.cred, h.warm)
              PROVE  /\ m \in h.idle /\ m \notin q.tried
                     /\ \/ \E i \in DOMAIN q.pool : q.pool[i] = m
                        \/ \E i \in DOMAIN q.todo :
                              q.todo[i].id = m /\ Eligible(q.todo[i])
          BY <2>2, <3>1 DEF Apt
        <5>2. ASSUME NEW m, NEW i \in DOMAIN q.todo,
                     q.todo[i].id = m, Eligible(q.todo[i])
              PROVE  \/ o.id = m /\ Eligible(o)
                     \/ \E j \in DOMAIN Tail(q.todo) :
                           Tail(q.todo)[j].id = m /\ Eligible(Tail(q.todo)[j])
          BY <3>5, <5>2
        <5> QED
          BY <4>2, <5>1, <5>2
      <4>4. /\ \A i \in DOMAIN q.pool : q.pool[i] \notin h.parked
            /\ \A m \in h.idle : m \notin q.tried /\ m # q.model
        BY <2>2, <3>1 DEF Apt
      <4>5. /\ req'[r].step = "scan" /\ req'[r].cred = q.cred
            /\ \A i \in DOMAIN req'[r].pool : req'[r].pool[i] \notin h.parked
            /\ \A m \in h.idle : m \notin req'[r].tried /\ m # req'[r].model
            /\ \A m \in h.idle \cap Candidates(q.cred, h.warm) :
                  \/ \E i \in DOMAIN req'[r].pool : req'[r].pool[i] = m
                  \/ \E i \in DOMAIN req'[r].todo :
                        req'[r].todo[i].id = m /\ Eligible(req'[r].todo[i])
        <5> HIDE DEF Apt
        <5> QED
          BY <2>3, <3>4, <4>1, <4>3, <4>4, Zenon
      <4> QED
        BY <4>5 DEF Apt
    <3> QED
      BY <3>6, <3>7
  <2>7. ASSUME Pick(r)
        PROVE  Apt(req'[r], h)
    <3>1. /\ q.step = "scan" /\ q.pool \in Seq(Models) /\ q.pool # <<>>
      BY <1>0, <2>7 DEF Pick, Request
    <3>2. \E i \in DOMAIN q.pool : Rotated(q.pool) = q.pool[i]
      BY <3>1, RotatedOK, FallbackAssumption DEF TypeOK
    <3>3. /\ req'[r].step = "send" /\ req'[r].model = Rotated(q.pool)
          /\ req'[r].tried = q.tried \cup {q.model, Rotated(q.pool)}
      BY <1>0, <2>7 DEF Pick, TypeOK, Request
    <3> QED
      BY <2>2, <3>1, <3>2, <3>3 DEF Apt
  <2>8. ASSUME Send(r)
        PROVE  Apt(req'[r], h)
    <3>1. /\ q.step = "send" /\ req'[r].step = "wait"
          /\ req'[r].model = q.model /\ req'[r].tried = q.tried
      BY <1>0, <2>8 DEF Send, TypeOK, Request
    <3> QED
      BY <2>2, <3>1 DEF Apt
  <2>9. ASSUME NEW refusal \in Refusals, Throttled(r, refusal)
        PROVE  Apt(req'[r], h)
    <3>1. req'[r] = Scanning(q, q.tried)
      <4>1. \/ req'[r] = Scanning(q, q.tried)
            \/ req'[r] = Finished("throttled")
        BY <1>0, <2>9 DEF Throttled, TypeOK
      <4> QED
        BY <1>4, <4>1, FinishedOK DEF Open, Outcomes
    <3>2. /\ req'[r].step = "scan" /\ req'[r].tried = q.tried
          /\ req'[r].todo = OnOffer(q.cred) /\ req'[r].pool = <<>>
          /\ req'[r].model = q.model
      BY <1>0, <3>1, ScanningFields
    <3>3. q.step = "wait" /\ warm' = warm
      BY <2>9 DEF Throttled
    <3>4. cooling'[<<q.cred, q.model>>].left > 0
      BY <2>3, <2>9, MarkParks, FallbackAssumption DEF Throttled, TypeOK
    <3>5. q.model \notin h.idle
      BY <1>1, <2>3, <3>4 DEF Anchored
    <3>6. h.warm \in BOOLEAN /\ (h.warm => q.cred \in warm)
      BY <1>0, <1>1, <2>3, <3>3 DEF Anchored, History
    <3>7. DOMAIN req'[r].pool = {}
      BY <3>2
    <3>8. \A m \in h.idle : m \notin q.tried
      BY <2>2, <3>3, <3>5 DEF Apt
    <3> QED
      BY <2>3, <3>2, <3>5, <3>6, <3>7, <3>8, OnOfferComplete DEF Apt
  <2>10. ASSUME Answered(r)
         PROVE  Apt(req'[r], h)
    <3>1. req'[r].step = "clear"
      BY <1>0, <2>10 DEF Answered, TypeOK, Request
    <3> QED
      BY <3>1 DEF Apt
  <2>11. ASSUME GiveUp(r) \/ Forgive(r) \/ Errored(r)
         PROVE  FALSE
    <3>1. \E o \in Outcomes : req'[r] = Finished(o)
      BY <1>0, <2>11 DEF GiveUp, Forgive, Errored, TypeOK, Outcomes
    <3> QED
      BY <1>4, <3>1, FinishedOK DEF Open
  <2>12. ~\E c \in Creds, m \in Models : Accept(r, c, m)
    BY <1>4 DEF Accept
  <2> QED
    BY <1>0, <2>4, <2>5, <2>6, <2>7, <2>8, <2>9, <2>10, <2>11, <2>12,
       StepOfOne
    DEF Work
<1> QED
  BY <1>2, <1>3, <1>4

HistoryInv == \A r \in Watched : Anchored(r) /\ Apt(req[r], since[r])

LEMMA HistoryInit == Init => HistoryInv
<1> SUFFICES ASSUME Init, NEW r \in Watched
             PROVE  Anchored(r) /\ Apt(req[r], since[r])
  BY DEF HistoryInv
<1>1. since[r] = NoHistory /\ r \in Reqs
  BY FallbackAssumption DEF Init
<1>2. req[r].step = "idle"
  BY <1>1, VacantOK DEF Init, Request
<1> QED
  BY <1>1, <1>2 DEF Anchored, Apt, NoHistory

LEMMA HistoryAlways == Spec => []HistoryInv
<1>1. TypeOK /\ TypeOK' /\ HistoryInv /\ [Next]_vars => HistoryInv'
  BY AptStep, AnchoredStep DEF HistoryInv
<1> QED
  BY <1>1, HistoryInit, TypeCorrect, PTL DEF Spec

\* Whatever other requests mark and clear, no call goes to a model that was
\* cooling ever since the request came in.
THEOREM ParkedNotAsked == Spec => []NeverAsksParked
<1>1. HistoryInv => NeverAsksParked
  BY DEF HistoryInv, Apt, NeverAsksParked
<1> QED
  BY <1>1, HistoryAlways, PTL

\* A request gives up early only when no candidate was free all along.
THEOREM NoFalseRefusal == Spec => []TurnedAwayForAReason
<1>1. HistoryInv => TurnedAwayForAReason
  <2> SUFFICES ASSUME HistoryInv, NEW r \in Watched, NoneLeft(req[r])
               PROVE  since[r].idle \cap
                        Candidates(req[r].cred, since[r].warm) = {}
    BY DEF TurnedAwayForAReason
  <2>1. /\ req[r].step = "scan"
        /\ DOMAIN req[r].pool = {} /\ DOMAIN req[r].todo = {}
    BY DEF NoneLeft
  <2> QED
    BY <2>1 DEF HistoryInv, Apt
<1> QED
  BY <1>1, HistoryAlways, PTL

-----------------------------------------------------------------------------
(***************************************************************************)
(* The request path implements RequestContract, and the backoff table      *)
(* follows upstream's word: proofs for any number of requests, models and  *)
(* attempts, any catalogs and any answers of upstream.                     *)
(***************************************************************************)

(***************************************************************************)
(* What the contract sees of a request, and what its locals have to say    *)
(* about that, beyond LocalInv: nothing is left of a request that is over, *)
(* nothing is told before, and the model upstream is asked for is the one  *)
(* that was asked last.                                                    *)
(***************************************************************************)
Phase(q) == IF Open(q) THEN "open" ELSE IF q.step = "done" THEN "over" ELSE "idle"

Settled(q) ==
    /\ ~Open(q) => q.asked = <<>>
    /\ Open(q) => q.outcome = "none"
    /\ q.step \in {"wait", "clear"} =>
          q.asked # <<>> /\ q.asked[Len(q.asked)] = q.model

Inv == TypeOK /\ \A r \in Reqs : LocalInv(req[r]) /\ Settled(req[r])

-----------------------------------------------------------------------------
(***************************************************************************)
(* The steps of a request, each by what it does to its locals.             *)
(***************************************************************************)
LEMMA FinishedFields ==
    ASSUME NEW o \in Outcomes
    PROVE  LET p == Finished(o)
           IN  /\ p \in Request /\ p.step = "done" /\ p.asked = <<>> /\ p.outcome = o
               /\ ~Open(p) /\ Phase(p) = "over" /\ Settled(p)
<1>1. Finished(o) = [Vacant EXCEPT !.step = "done", !.outcome = o]
  BY DEF Finished
<1>2. Finished(o).outcome = o
  BY <1>1, VacantOK DEF Request
<1> QED
  BY <1>2, FinishedOK DEF Open, Phase, Settled

\* A request that goes on: it is still open, and nothing is asked or told.
GoesOn(q, p) ==
    /\ Open(q) /\ Open(p)
    /\ p.asked = q.asked /\ p.outcome = q.outcome

LEMMA ScanningGoesOn ==
    ASSUME NEW q \in Request, Open(q), NEW tried
    PROVE  GoesOn(q, Scanning(q, tried)) /\ Scanning(q, tried).step = "scan"
<1>1. Scanning(q, tried).outcome = q.outcome
  BY DEF Scanning, Request
<1> QED
  BY <1>1, ScanningFields DEF GoesOn, Open

LEMMA SearchStep ==
    ASSUME TypeOK, NEW r \in Reqs, CheckRequested(r) \/ Examine(r) \/ Pick(r)
    PROVE  /\ GoesOn(req[r], req'[r])
           /\ req'[r].step \in {"scan", "send"}
<1> DEFINE q == req[r]
<1>1. q \in Request /\ q.step \in {"check", "scan"} /\ Open(q)
  BY DEF TypeOK, CheckRequested, Examine, Pick, Open
<1>2. CASE CheckRequested(r)
  <2>1. CASE Parked(q.cred, q.model)
    <3>1. req'[r] = Scanning(q, {q.model})
      BY <1>2, <2>1 DEF CheckRequested, TypeOK
    <3> QED
      BY <1>1, <3>1, ScanningGoesOn
  <2>2. CASE ~Parked(q.cred, q.model)
    <3>1. req'[r] = [q EXCEPT !.step = "send"]
      BY <1>2, <2>2 DEF CheckRequested, TypeOK
    <3> QED
      BY <1>1, <3>1 DEF GoesOn, Open, Request
  <2> QED
    BY <2>1, <2>2
<1>3. CASE Examine(r)
  <2>1. PICK pool : req'[r] = [q EXCEPT !.todo = Tail(q.todo), !.pool = pool]
    BY <1>1, <1>3 DEF Examine, TypeOK, Request
  <2>2. /\ req'[r].step = q.step /\ req'[r].asked = q.asked
        /\ req'[r].outcome = q.outcome /\ q.step = "scan"
    BY <1>1, <1>3, <2>1 DEF Examine, Request
  <2> QED
    BY <1>1, <2>2 DEF GoesOn, Open
<1>4. CASE Pick(r)
  <2> DEFINE next == Rotated(q.pool)
             tried == q.tried \cup {q.model, next}
  <2>1. req'[r] = [q EXCEPT !.step = "send", !.pool = <<>>,
                            !.tried = tried, !.model = next]
    BY <1>1, <1>4 DEF Pick, TypeOK, Request
  <2> HIDE DEF next, tried
  <2>2. /\ req'[r].step = "send" /\ req'[r].asked = q.asked
        /\ req'[r].outcome = q.outcome
    BY <1>1, <2>1 DEF Request
  <2> QED
    BY <1>1, <2>2 DEF GoesOn, Open
<1> QED
  BY <1>2, <1>3, <1>4

LEMMA SendStep ==
    ASSUME TypeOK, NEW r \in Reqs, Send(r)
    PROVE  /\ req[r].step = "send" /\ req'[r].step = "wait"
           /\ req'[r].asked = Append(req[r].asked, req[r].model)
           /\ req'[r].outcome = req[r].outcome /\ req'[r].model = req[r].model
<1>1. req[r] \in Request
  BY DEF TypeOK
<1>2. req'[r] = [req[r] EXCEPT !.step = "wait", !.asked = Append(req[r].asked, req[r].model)]
  BY <1>1 DEF Send, TypeOK, Request
<1>3. req[r].step = "send"
  BY DEF Send
<1> DEFINE q == req[r]
           p == req'[r]
           asked == Append(q.asked, q.model)
<1>4. q \in Request /\ p = [q EXCEPT !.step = "wait", !.asked = asked]
  BY <1>1, <1>2
<1> HIDE DEF q, p, asked
<1>5. /\ p.step = "wait" /\ p.asked = asked
      /\ p.outcome = q.outcome /\ p.model = q.model
  BY <1>4 DEF Request
<1> QED
  BY <1>3, <1>5 DEF q, p, asked

LEMMA AnsweredStep ==
    ASSUME TypeOK, NEW r \in Reqs, Answered(r)
    PROVE  /\ GoesOn(req[r], req'[r]) /\ req[r].step = "wait"
           /\ req'[r].step = "clear" /\ req'[r].model = req[r].model
<1>1. req[r] \in Request /\ req'[r] = [req[r] EXCEPT !.step = "clear"]
  BY DEF Answered, TypeOK
<1> QED
  BY <1>1 DEF Answered, GoesOn, Open, Request

\* A 429 is the end of a request, or the begin of a search.
LEMMA ThrottledStep ==
    ASSUME TypeOK, NEW r \in Reqs, NEW refusal \in Refusals, Throttled(r, refusal)
    PROVE  /\ req[r].step = "wait"
           /\ \/ req'[r] = Finished("throttled")
              \/ GoesOn(req[r], req'[r]) /\ req'[r].step = "scan"
<1>1. req[r] \in Request /\ req[r].step = "wait" /\ Open(req[r])
  BY DEF TypeOK, Throttled, Open
<1>2. \/ req'[r] = Finished("throttled")
      \/ req'[r] = Scanning(req[r], req[r].tried)
  BY DEF Throttled, TypeOK
<1> QED
  BY <1>1, <1>2, ScanningGoesOn

\* The other ends.
LEMMA EndStep ==
    ASSUME TypeOK, NEW r \in Reqs, GiveUp(r) \/ Forgive(r) \/ Errored(r)
    PROVE  /\ Open(req[r])
           /\ \E o \in Outcomes \ {"none"} :
                 /\ req'[r] = Finished(o)
                 /\ o # "throttled" => req[r].step \in {"wait", "clear"}
  BY DEF GiveUp, NoneLeft, Forgive, Errored, TypeOK, Outcomes, Open

-----------------------------------------------------------------------------
LEMMA SettledStep ==
    ASSUME TypeOK, [Next]_vars, NEW r \in Reqs, Settled(req[r])
    PROVE  Settled(req'[r])
<1>1. ASSUME NEW c \in Creds, NEW m \in Models, Accept(r, c, m)
      PROVE  Settled(req'[r])
  <2>1. req'[r] = Fresh(c, m)
    BY <1>1 DEF Accept, TypeOK
  <2> QED
    BY <2>1 DEF Fresh, Settled, Open
<1>2. ASSUME CheckRequested(r) \/ Examine(r) \/ Pick(r)
      PROVE  Settled(req'[r])
  BY <1>2, SearchStep DEF Settled, GoesOn
<1>3. ASSUME Send(r)
      PROVE  Settled(req'[r])
  <2>1. req[r].asked \in Seq(Models) /\ req[r].model \in Models /\ Open(req[r])
    BY <1>3, SendStep DEF TypeOK, Request, Open
  <2>2. /\ req'[r].asked # <<>>
        /\ req'[r].asked[Len(req'[r].asked)] = req[r].model
    BY <1>3, <2>1, SendStep, AppendProperties
  <2> QED
    BY <1>3, <2>1, <2>2, SendStep DEF Settled, Open
<1>4. ASSUME Answered(r)
      PROVE  Settled(req'[r])
  BY <1>4, AnsweredStep DEF Settled, GoesOn
<1>5. ASSUME NEW refusal \in Refusals, Throttled(r, refusal)
      PROVE  Settled(req'[r])
  BY <1>5, ThrottledStep, FinishedFields DEF Settled, GoesOn, Outcomes
<1>6. ASSUME GiveUp(r) \/ Forgive(r) \/ Errored(r)
      PROVE  Settled(req'[r])
  BY <1>6, EndStep, FinishedFields
<1> QED
  BY <1>1, <1>2, <1>3, <1>4, <1>5, <1>6, StepOfOne DEF Work

LEMMA Invariant == Spec => []Inv
<1>1. Init => Inv
  <2> SUFFICES ASSUME Init, NEW r \in Reqs
               PROVE  Settled(req[r])
    BY TypeInit, LocalInit DEF Inv
  <2>1. Vacant \in Request /\ Vacant.asked = <<>>
    BY VacantOK DEF Vacant, Fresh
  <2>2. req[r] = [Vacant EXCEPT !.step = "idle"]
    BY DEF Init
  <2>3. req[r].asked = <<>> /\ req[r].step = "idle"
    BY <2>1, <2>2 DEF Request
  <2> QED
    BY <2>3 DEF Settled, Open
<1>2. Inv /\ [Next]_vars => Inv'
  BY TypeStep, LocalStep, SettledStep DEF Inv
<1> QED
  BY <1>1, <1>2, PTL DEF Spec

-----------------------------------------------------------------------------
(***************************************************************************)
(* The refinement.                                                         *)
(***************************************************************************)
phaseBar == [r \in Reqs |-> Phase(req[r])]
askedBar == [r \in Reqs |-> req[r].asked]
outcomeBar == [r \in Reqs |-> req[r].outcome]

\* A step of one request, as the contract sees it.
LEMMA OneMoves ==
    ASSUME NEW r \in Reqs, NEW p, req \in [Reqs -> Request], req' = [req EXCEPT ![r] = p]
    PROVE  /\ phaseBar' = [phaseBar EXCEPT ![r] = Phase(p)]
           /\ askedBar' = [askedBar EXCEPT ![r] = p.asked]
           /\ outcomeBar' = [outcomeBar EXCEPT ![r] = p.outcome]
<1>1. \A x \in Reqs : req'[x] = IF x = r THEN p ELSE req[x]
  OBVIOUS
<1>2. phaseBar' = [x \in Reqs |-> Phase(req'[x])]
  BY DEF phaseBar, Phase, Open
<1> QED
  BY <1>1, <1>2 DEF phaseBar, askedBar, outcomeBar

LEMMA NothingMoves ==
    ASSUME req \in [Reqs -> Request],
           \/ UNCHANGED req
           \/ \E r \in Reqs : /\ req' = [req EXCEPT ![r] = req'[r]]
                              /\ GoesOn(req[r], req'[r])
    PROVE  UNCHANGED <<phaseBar, askedBar, outcomeBar>>
<1>1. ASSUME NEW r \in Reqs, req' = [req EXCEPT ![r] = req'[r]], GoesOn(req[r], req'[r])
      PROVE  UNCHANGED <<phaseBar, askedBar, outcomeBar>>
  <2>1. /\ phaseBar' = [phaseBar EXCEPT ![r] = Phase(req'[r])]
        /\ askedBar' = [askedBar EXCEPT ![r] = req'[r].asked]
        /\ outcomeBar' = [outcomeBar EXCEPT ![r] = req'[r].outcome]
    BY <1>1, OneMoves
  <2>2. /\ Phase(req'[r]) = phaseBar[r] /\ req'[r].asked = askedBar[r]
        /\ req'[r].outcome = outcomeBar[r]
    BY <1>1 DEF GoesOn, Phase, phaseBar, askedBar, outcomeBar
  <2> QED
    BY <2>1, <2>2 DEF phaseBar, askedBar, outcomeBar
<1>2. ASSUME UNCHANGED req
      PROVE  UNCHANGED <<phaseBar, askedBar, outcomeBar>>
  BY <1>2 DEF phaseBar, askedBar, outcomeBar, Phase, Open
<1> QED
  BY <1>1, <1>2

\* The step of a request only changes its own locals.
LEMMA WorkIsLocal ==
    ASSUME TypeOK, NEW r \in Reqs, Work(r)
    PROVE  req' = [req EXCEPT ![r] = req'[r]]
  BY DEF Work, CheckRequested, Examine, Pick, GiveUp, Send, Throttled, Answered, Forgive,
         Errored, TypeOK

\* Every step of a request is allowed by the contract, or invisible to it.
LEMMA WorkRefines ==
    ASSUME Inv, NEW r \in Reqs, Work(r)
    PROVE  \/ \E m \in Models : Contract!Ask(r, m)
           \/ \E o \in {"served", "error", "throttled"} : Contract!Answer(r, o)
           \/ UNCHANGED <<phaseBar, askedBar, outcomeBar>>
<1>1. /\ req \in [Reqs -> Request] /\ req' = [req EXCEPT ![r] = req'[r]]
      /\ LocalInv(req[r]) /\ Settled(req[r]) /\ req[r] \in Request
  BY WorkIsLocal DEF Inv, TypeOK
<1>2. /\ phaseBar' = [phaseBar EXCEPT ![r] = Phase(req'[r])]
      /\ askedBar' = [askedBar EXCEPT ![r] = req'[r].asked]
      /\ outcomeBar' = [outcomeBar EXCEPT ![r] = req'[r].outcome]
  BY <1>1, OneMoves
<1>3. /\ phaseBar[r] = Phase(req[r]) /\ askedBar[r] = req[r].asked
      /\ outcomeBar[r] = req[r].outcome
  BY DEF phaseBar, askedBar, outcomeBar
<1>4. ASSUME GoesOn(req[r], req'[r])
      PROVE  UNCHANGED <<phaseBar, askedBar, outcomeBar>>
  BY <1>1, <1>4, NothingMoves
<1>5. ASSUME NEW o \in Outcomes \ {"none"}, req'[r] = Finished(o), Open(req[r]),
             o # "throttled" => req[r].step \in {"wait", "clear"}
      PROVE  Contract!Answer(r, o)
  <2>1. /\ phaseBar[r] = "open" /\ (o # "throttled" => askedBar[r] # <<>>)
    BY <1>1, <1>3, <1>5 DEF Phase, Settled
  <2>2. /\ phaseBar' = [phaseBar EXCEPT ![r] = "over"]
        /\ askedBar' = [askedBar EXCEPT ![r] = <<>>]
        /\ outcomeBar' = [outcomeBar EXCEPT ![r] = o]
    BY <1>2, <1>5, FinishedFields
  <2> QED
    BY <2>1, <2>2 DEF Contract!Answer, phaseBar, askedBar, outcomeBar, Phase, Open
<1>6. ASSUME Send(r), NEW m \in Models, m = req[r].model
      PROVE  Contract!Ask(r, m)
  <2>1. /\ phaseBar[r] = "open" /\ Len(askedBar[r]) < FallbackAttempts
    BY <1>1, <1>3, <1>6, SendStep DEF Inv, Phase, Open, LocalInv
  <2>2. ASSUME m \in Range(req[r].asked)
        PROVE  req[r].asked = <<m>>
    <3>1. PICK i \in DOMAIN req[r].asked : req[r].asked[i] = m
      BY <2>2 DEF Range
    <3>2. req[r].asked \in Seq(Models) /\ Len(req[r].asked) < 2
      BY <1>1, <1>6, <3>1, SendStep DEF Inv, LocalInv, Request
    <3> QED
      BY <3>1, <3>2
  <2>3. /\ phaseBar' = phaseBar /\ outcomeBar' = outcomeBar
        /\ askedBar' = [askedBar EXCEPT ![r] = Append(askedBar[r], m)]
    <3>1. Phase(req'[r]) = phaseBar[r] /\ req'[r].outcome = outcomeBar[r]
      BY <1>3, <1>6, SendStep DEF Inv, Phase, Open
    <3>2. req'[r].asked = Append(askedBar[r], m)
      BY <1>3, <1>6, SendStep DEF Inv
    <3> QED
      BY <1>2, <3>1, <3>2 DEF phaseBar, outcomeBar
  <2> QED
    BY <1>3, <2>1, <2>2, <2>3
    DEF Contract!Ask, Contract!Range, Range, phaseBar, askedBar, outcomeBar, Phase, Open
<1>7. req[r].model \in Models
  BY <1>1 DEF Request
<1>8. ASSUME CheckRequested(r) \/ Examine(r) \/ Pick(r) \/ Answered(r)
      PROVE  GoesOn(req[r], req'[r])
  BY <1>8, SearchStep, AnsweredStep DEF Inv
<1>9. ASSUME GiveUp(r) \/ Forgive(r) \/ Errored(r)
      PROVE  \E o \in {"served", "error", "throttled"} : Contract!Answer(r, o)
  BY <1>5, <1>9, EndStep DEF Inv, Outcomes
<1>10. ASSUME NEW refusal \in Refusals, Throttled(r, refusal)
       PROVE  \/ Contract!Answer(r, "throttled")
              \/ GoesOn(req[r], req'[r])
  <2>1. Open(req[r])
    BY <1>10 DEF Throttled, Open
  <2> QED
    BY <1>5, <1>10, <2>1, ThrottledStep DEF Inv, Outcomes
<1>11. CASE CheckRequested(r) \/ Examine(r) \/ Pick(r) \/ Answered(r)
  BY <1>4, <1>8, <1>11
<1>12. CASE Send(r)
  <2>1. PICK m \in Models : m = req[r].model
    BY <1>7
  <2> QED
    BY <1>6, <1>12, <2>1
<1>13. CASE GiveUp(r) \/ Forgive(r) \/ Errored(r)
  BY <1>9, <1>13
<1>14. CASE \E refusal \in Refusals : Throttled(r, refusal)
  BY <1>4, <1>10, <1>14
<1> QED
  BY <1>11, <1>12, <1>13, <1>14 DEF Work

\* The request path implements its contract: whatever the table, the cache and
\* the other requests do, a client that was accepted is answered once, after at
\* most FallbackAttempts calls, none but the first of which is repeated.
THEOREM Implements == Spec => ImplementsContract
<1>1. Init => Contract!Init
  <2> SUFFICES ASSUME Init, NEW r \in Reqs
               PROVE  ~Open(req[r]) /\ req[r].step # "done" /\ req[r].asked = <<>>
                      /\ req[r].outcome = "none"
    BY DEF Contract!Init
  <2>1. /\ req[r] = [Vacant EXCEPT !.step = "idle"] /\ Vacant \in Request
        /\ Vacant.asked = <<>> /\ Vacant.outcome = "none"
    BY VacantOK DEF Init, Vacant, Fresh
  <2> QED
    BY <2>1 DEF Open, Request
<1>2. ASSUME Inv, [Next]_vars
      PROVE  [Contract!Next]_(Contract!vars)
  <2>1. ASSUME NEW r \in Reqs, NEW c \in Creds, NEW m \in Models, Accept(r, c, m)
        PROVE  Contract!Accept(r)
    <3>1. /\ req' = [req EXCEPT ![r] = Fresh(c, m)] /\ ~Open(req[r])
          /\ req \in [Reqs -> Request] /\ req[r].asked = <<>>
      BY <1>2, <2>1 DEF Accept, Inv, TypeOK, Settled
    <3>2. /\ Phase(Fresh(c, m)) = "open" /\ Fresh(c, m).asked = <<>>
          /\ Fresh(c, m).outcome = "none"
      BY DEF Fresh, Phase, Open
    <3>3. /\ phaseBar' = [phaseBar EXCEPT ![r] = "open"]
          /\ askedBar' = [askedBar EXCEPT ![r] = <<>>]
          /\ outcomeBar' = [outcomeBar EXCEPT ![r] = "none"]
      <4>1. PICK p : p = Fresh(c, m)
        OBVIOUS
      <4>2. /\ phaseBar' = [phaseBar EXCEPT ![r] = Phase(p)]
            /\ askedBar' = [askedBar EXCEPT ![r] = p.asked]
            /\ outcomeBar' = [outcomeBar EXCEPT ![r] = p.outcome]
        BY <3>1, <4>1, OneMoves
      <4> QED
        BY <3>2, <4>1, <4>2
    <3>4. phaseBar[r] # "open" /\ askedBar' = askedBar
      BY <3>1, <3>3 DEF phaseBar, askedBar, Phase
    <3> QED
      BY <3>3, <3>4 DEF Contract!Accept, phaseBar, askedBar, outcomeBar, Phase, Open
  <2>2. ASSUME UNCHANGED <<phaseBar, askedBar, outcomeBar>>
        PROVE  UNCHANGED Contract!vars
    BY <2>2 DEF Contract!vars, phaseBar, askedBar, outcomeBar, Phase, Open
  <2>3. ASSUME NEW r \in Reqs, Work(r)
        PROVE  Contract!Next \/ UNCHANGED Contract!vars
    BY <1>2, <2>2, <2>3, WorkRefines DEF Contract!Next
  <2>4. ASSUME UNCHANGED req
        PROVE  UNCHANGED Contract!vars
    BY <1>2, <2>2, <2>4, NothingMoves DEF Inv, TypeOK
  <2>5. CASE \E r \in Reqs, c \in Creds, m \in Models : Accept(r, c, m)
    BY <2>1, <2>5 DEF Contract!Next
  <2>6. CASE \E r \in Reqs : Work(r)
    BY <2>3, <2>6
  <2>7. CASE (\E c \in Creds : Discover(c)) \/ (\E c \in Creds : Expire(c)) \/ Tick
             \/ UNCHANGED vars
    BY <2>4, <2>7 DEF Discover, Expire, Tick, vars
  <2> QED
    BY <1>2, <2>5, <2>6, <2>7 DEF Next
<1>3. Inv /\ [Next]_vars => [Contract!Next]_(Contract!vars)
  BY <1>2
<1> QED
  BY <1>1, <1>3, Invariant, PTL DEF Spec, ImplementsContract, Contract!Spec

-----------------------------------------------------------------------------
(***************************************************************************)
(* The backoff table.                                                      *)
(***************************************************************************)
\* What markCooldown and clearCooldown are called for.
LEMMA TouchedEntry ==
    ASSUME Inv, NEW r \in Reqs, Work(r),
           NEW c \in Creds, NEW m \in Models, cooling'[<<c, m>>] # cooling[<<c, m>>]
    PROVE  /\ req[r].step \in {"wait", "clear"} /\ req'[r] # req[r]
           /\ req[r].cred = c /\ req[r].model = m
<1>1. req[r] \in Request /\ CoolingOK /\ <<c, m>> \in Keys
  BY DEF Inv, TypeOK, Keys
<1>2. ASSUME NEW refusal \in Refusals, Throttled(r, refusal)
      PROVE  /\ req[r].step = "wait" /\ req'[r] # req[r]
             /\ req[r].cred = c /\ req[r].model = m
  <2>1. req'[r].step # "wait" /\ req[r].step = "wait"
    BY <1>2, ThrottledStep, FinishedFields DEF Inv, Outcomes
  <2>2. \A k \in Keys : k # <<req[r].cred, req[r].model>> => cooling'[k] = cooling[k]
    BY <1>1, <1>2, MarkParks, FallbackAssumption DEF Throttled, Request
  <2> QED
    BY <1>1, <2>1, <2>2
<1>3. ASSUME Forgive(r)
      PROVE  /\ req[r].step = "clear" /\ req'[r] # req[r]
             /\ req[r].cred = c /\ req[r].model = m
  <2>1. req'[r].step = "done" /\ req[r].step = "clear"
    BY <1>1, <1>3, FinishedFields DEF Forgive, Inv, TypeOK, Outcomes
  <2>2. \A k \in Keys : k # <<req[r].cred, req[r].model>> => cooling'[k] = cooling[k]
    BY <1>1, <1>3, ClearFrees DEF Forgive, Request
  <2> QED
    BY <1>1, <2>1, <2>2
<1> QED
  BY <1>2, <1>3
  DEF Work, CheckRequested, Examine, Pick, GiveUp, Send, Answered, Errored

\* Whatever else requests do meanwhile, an entry of the table grows, or is
\* forgiven, only in the step of a request on that credential whose call for
\* that very model was just answered.
THEOREM FollowsUpstream == Spec => BackoffFollowsUpstream
<1> DEFINE Grows(c, m) == \/ cooling'[<<c, m>>].left > cooling[<<c, m>>].left
                          \/ cooling'[<<c, m>>].failures < cooling[<<c, m>>].failures
           Told(c, m) == \E r \in Reqs :
                            /\ req[r].step \in {"wait", "clear"} /\ req'[r] # req[r]
                            /\ req[r].cred = c /\ req[r].asked[Len(req[r].asked)] = m
           Follows == \A c \in Creds, m \in Models : Grows(c, m) => Told(c, m)
<1>1. ASSUME Inv, [Next]_vars, NEW c \in Creds, NEW m \in Models, Grows(c, m)
      PROVE  Told(c, m)
  <2>1. cooling[<<c, m>>] \in CooldownState /\ <<c, m>> \in Keys
    BY <1>1 DEF Inv, TypeOK, CoolingOK, Keys
  <2>2. cooling'[<<c, m>>] # cooling[<<c, m>>]
    BY <1>1, <2>1 DEF CooldownState
  <2>3. ~Tick
    <3>1. Elapse => cooling'[<<c, m>>].failures = cooling[<<c, m>>].failures
      BY <2>1 DEF Elapse, CooldownState
    <3>2. Elapse => cooling'[<<c, m>>].left <= cooling[<<c, m>>].left
      BY <1>1, <2>1, ElapseFrees DEF Inv, TypeOK
    <3>3. Elapse => cooling'[<<c, m>>] \in CooldownState
      BY <1>1, <2>1, ElapseFrees DEF Inv, TypeOK, CoolingOK
    <3> QED
      BY <1>1, <2>1, <3>1, <3>2, <3>3, CooldownAssumption DEF Tick, CooldownState
  <2>4. PICK r \in Reqs : Work(r)
    BY <1>1, <2>2, <2>3 DEF Next, Accept, Discover, Expire, vars
  <2>5. /\ req[r].step \in {"wait", "clear"} /\ req'[r] # req[r]
        /\ req[r].cred = c /\ req[r].model = m
    BY <1>1, <2>2, <2>4, TouchedEntry
  <2>6. req[r].asked[Len(req[r].asked)] = m
    BY <1>1, <2>5 DEF Inv, Settled
  <2> QED
    BY <2>5, <2>6
<1>2. Inv /\ [Next]_vars => [Follows]_vars
  BY <1>1
<1> QED
  BY <1>2, Invariant, PTL DEF Spec, BackoffFollowsUpstream

-----------------------------------------------------------------------------
(***************************************************************************)
(* That every request ends rests on fairness, which is beyond these        *)
(* proofs; that it has only so many steps to go does not.                  *)
(***************************************************************************)
OffersOf(c) == Len(Catalog[c]) + Len(ExtraModels)

\* What one attempt takes: a call, and a search among all that is on offer.
Round(c) == OffersOf(c) + 5

Rounds(q) == (FallbackAttempts - Len(q.asked)) * Round(q.cred)

StepsLeft(q) ==
    CASE q.step = "check" -> Rounds(q) + OffersOf(q.cred) + 4
      [] q.step = "scan"  -> Rounds(q) + Len(q.todo) + 3
      [] q.step = "send"  -> Rounds(q) + 2
      [] q.step = "wait"  -> Rounds(q) + OffersOf(q.cred) + 4
      [] q.step = "clear" -> 1
      [] OTHER            -> 0

Counted(q) == StepsLeft(q) \in Nat /\ (Open(q) <=> StepsLeft(q) > 0)

LEMMA OffersCounted ==
    ASSUME NEW c \in Creds
    PROVE  /\ OffersOf(c) \in Nat
           /\ Len(OnOffer(c)) \in Nat /\ Len(OnOffer(c)) <= OffersOf(c)
<1>1. Catalog[c] \in Seq(Offers) /\ ExtraModels \in Seq(Offers)
  <2>1. /\ Catalog[c] \in Seq([id : Models, kind : Kinds \ {"declared"}])
        /\ ExtraModels \in Seq([id : Models, kind : {"declared"}])
    BY FallbackAssumption
  <2>2. /\ [id : Models, kind : Kinds \ {"declared"}] \subseteq Offers
        /\ [id : Models, kind : {"declared"}] \subseteq Offers
    BY DEF Offers, Kinds
  <2> QED
    BY <2>1, <2>2, SeqMonotonic
<1>2. Len(Catalog[c]) \in Nat /\ Len(ExtraModels) \in Nat
  BY <1>1
<1>3. <<>> \in Seq(Offers) /\ Len(<<>>) = 0
  OBVIOUS
<1>4. CASE c \in warm
  <2>1. Len(OnOffer(c)) = Len(Catalog[c]) + Len(ExtraModels)
    BY <1>1, <1>4, ConcatProperties DEF OnOffer
  <2> QED
    BY <1>2, <2>1 DEF OffersOf
<1>5. CASE c \notin warm
  <2>1. Len(OnOffer(c)) = 0 + Len(ExtraModels)
    BY <1>1, <1>3, <1>5, ConcatProperties DEF OnOffer
  <2> QED
    BY <1>2, <2>1 DEF OffersOf
<1> QED
  BY <1>4, <1>5

\* Multiplication, once.
LEMMA OneRoundLess ==
    ASSUME NEW n \in Nat, NEW w \in Nat
    PROVE  /\ n * w \in Nat
           /\ (n + 1) * w = n * w + w
  OBVIOUS

LEMMA RoundsCounted ==
    ASSUME NEW q \in Request, Len(q.asked) <= FallbackAttempts
    PROVE  /\ Len(q.asked) \in Nat
           /\ OffersOf(q.cred) \in Nat /\ Round(q.cred) \in Nat
           /\ Round(q.cred) = OffersOf(q.cred) + 5
           /\ Rounds(q) \in Nat
           /\ Len(q.todo) \in Nat
<1>1. q.cred \in Creds /\ q.asked \in Seq(Models) /\ q.todo \in Seq(Offers)
  BY DEF Request
<1>2. /\ OffersOf(q.cred) \in Nat /\ Round(q.cred) \in Nat /\ Len(q.asked) \in Nat
      /\ Round(q.cred) = OffersOf(q.cred) + 5 /\ Len(q.todo) \in Nat
  BY <1>1, OffersCounted DEF Round
<1>3. FallbackAttempts - Len(q.asked) \in Nat
  BY <1>2, FallbackAssumption
<1> QED
  BY <1>2, <1>3, OneRoundLess DEF Rounds

LEMMA LocalCounted ==
    ASSUME NEW q \in Request, LocalInv(q)
    PROVE  Counted(q)
<1>1. /\ OffersOf(q.cred) \in Nat /\ Rounds(q) \in Nat /\ Len(q.todo) \in Nat
  BY RoundsCounted DEF LocalInv, FewAndDistinct
<1>2. q.step \in Steps
  BY DEF Request
<1>3. CASE q.step \in {"check", "wait"}
  BY <1>1, <1>3 DEF Counted, StepsLeft, Open
<1>4. CASE q.step = "scan"
  BY <1>1, <1>4 DEF Counted, StepsLeft, Open
<1>5. CASE q.step = "send"
  BY <1>1, <1>5 DEF Counted, StepsLeft, Open
<1>6. CASE q.step \in {"idle", "clear", "done"}
  BY <1>6 DEF Counted, StepsLeft, Open
<1> QED
  BY <1>2, <1>3, <1>4, <1>5, <1>6 DEF Steps

\* The same attempt goes on: its rounds are those of the record before.
LEMMA SameRounds ==
    ASSUME NEW q, NEW p, p.asked = q.asked, p.cred = q.cred
    PROVE  Rounds(p) = Rounds(q)
  BY DEF Rounds

LEMMA ScanningCounted ==
    ASSUME NEW q \in Request, NEW tried, Len(q.asked) <= FallbackAttempts
    PROVE  StepsLeft(Scanning(q, tried)) < Rounds(q) + OffersOf(q.cred) + 4
<1> DEFINE p == Scanning(q, tried)
<1>1. /\ p.step = "scan" /\ p.todo = OnOffer(q.cred)
      /\ p.cred = q.cred /\ p.asked = q.asked
  BY ScanningFields
<1>2. q.cred \in Creds
  BY DEF Request
<1> HIDE DEF p
<1>3. StepsLeft(p) = Rounds(q) + Len(OnOffer(q.cred)) + 3
  BY <1>1, SameRounds DEF StepsLeft
<1>4. /\ Len(OnOffer(q.cred)) \in Nat /\ OffersOf(q.cred) \in Nat
      /\ Len(OnOffer(q.cred)) <= OffersOf(q.cred)
  BY <1>2, OffersCounted
<1>5. Rounds(q) \in Nat
  BY RoundsCounted
<1>6. StepsLeft(p) < Rounds(q) + OffersOf(q.cred) + 4
  BY <1>3, <1>4, <1>5
<1> QED
  BY <1>6 DEF p

\* Each step of its own brings a request closer to its end.
LEMMA WorkCounts ==
    ASSUME TypeOK, NEW r \in Reqs, LocalInv(req[r]), Work(r)
    PROVE  StepsLeft(req'[r]) < StepsLeft(req[r])
<1> DEFINE q == req[r]
           p == req'[r]
<1>1. /\ q \in Request /\ Len(q.asked) <= FallbackAttempts
      /\ Len(q.asked) \in Nat
      /\ OffersOf(q.cred) \in Nat /\ Round(q.cred) = OffersOf(q.cred) + 5
      /\ Rounds(q) \in Nat /\ Len(q.todo) \in Nat
  <2>1. q \in Request /\ Len(q.asked) <= FallbackAttempts
    BY DEF TypeOK, LocalInv, FewAndDistinct
  <2> QED
    BY <2>1, RoundsCounted
<1>2. ASSUME NEW o \in Outcomes, p = Finished(o), Open(q)
      PROVE  StepsLeft(p) < StepsLeft(q)
  <2>1. p.step = "done"
    BY <1>2, FinishedOK
  <2>2. StepsLeft(p) = 0
    BY <2>1 DEF StepsLeft
  <2> QED
    BY <1>1, <1>2, <2>2, LocalCounted DEF Counted
<1>3. CASE CheckRequested(r)
  <2>1. q.step = "check" /\ StepsLeft(q) = Rounds(q) + OffersOf(q.cred) + 4
    BY <1>3 DEF CheckRequested, StepsLeft
  <2>2. CASE Parked(q.cred, q.model)
    <3>1. p = Scanning(q, {q.model})
      BY <1>3, <2>2 DEF CheckRequested, TypeOK
    <3> QED
      BY <1>1, <2>1, <3>1, ScanningCounted
  <2>3. CASE ~Parked(q.cred, q.model)
    <3>1. p = [q EXCEPT !.step = "send"]
      BY <1>3, <2>3 DEF CheckRequested, TypeOK
    <3>2. p.step = "send" /\ p.asked = q.asked /\ p.cred = q.cred
      BY <1>1, <3>1 DEF Request
    <3> HIDE DEF p, q
    <3>3. StepsLeft(p) = Rounds(q) + 2
      BY <3>2, SameRounds DEF StepsLeft
    <3>4. StepsLeft(p) < StepsLeft(q)
      BY <1>1, <2>1, <3>3
    <3> QED
      BY <3>4 DEF p, q
  <2> QED
    BY <2>2, <2>3
<1>4. CASE Examine(r)
  <2>1. q \in Request /\ q.step = "scan" /\ q.todo # <<>> /\ q.todo \in Seq(Offers)
    BY <1>1, <1>4 DEF Examine, Request
  <2> DEFINE o == Head(q.todo)
             pool == IF Usable(q, o) THEN Append(q.pool, o.id) ELSE q.pool
  <2>2. p = [q EXCEPT !.todo = Tail(q.todo), !.pool = pool]
    BY <1>4, <2>1 DEF Examine, TypeOK, Request
  <2> HIDE DEF o, pool
  <2>3. /\ p.step = "scan" /\ p.asked = q.asked /\ p.cred = q.cred
        /\ p.todo = Tail(q.todo)
    BY <1>1, <2>1, <2>2 DEF Request
  <2>4. Len(Tail(q.todo)) = Len(q.todo) - 1
    BY <2>1, HeadTailProperties
  <2> DEFINE n == Len(q.todo)
  <2> HIDE DEF p, q
  <2>5. /\ StepsLeft(q) = Rounds(q) + n + 3
        /\ StepsLeft(p) = Rounds(q) + (n - 1) + 3
        /\ n \in Nat /\ Rounds(q) \in Nat
    BY <1>1, <2>1, <2>3, <2>4, SameRounds DEF StepsLeft
  <2> HIDE DEF n
  <2>6. StepsLeft(p) < StepsLeft(q)
    BY <2>5
  <2> QED
    BY <2>6 DEF p, q
<1>5. CASE Pick(r)
  <2> DEFINE next == Rotated(q.pool)
             tried == q.tried \cup {q.model, next}
  <2>1. q.step = "scan" /\ p = [q EXCEPT !.step = "send", !.pool = <<>>,
                                         !.tried = tried, !.model = next]
    BY <1>1, <1>5 DEF Pick, TypeOK, Request
  <2> HIDE DEF next, tried
  <2>2. p.step = "send" /\ p.asked = q.asked /\ p.cred = q.cred
    BY <1>1, <2>1 DEF Request
  <2> DEFINE n == Len(q.todo)
  <2> HIDE DEF p, q
  <2>3. /\ StepsLeft(q) = Rounds(q) + n + 3 /\ StepsLeft(p) = Rounds(q) + 2
        /\ n \in Nat /\ Rounds(q) \in Nat
    BY <1>1, <2>1, <2>2, SameRounds DEF StepsLeft
  <2> HIDE DEF n
  <2>4. StepsLeft(p) < StepsLeft(q)
    BY <2>3
  <2> QED
    BY <2>4 DEF p, q
<1>6. CASE Send(r)
  <2>1. q.step = "send" /\ Len(q.asked) < FallbackAttempts
    BY <1>6 DEF Send, LocalInv
  <2>2. p = [q EXCEPT !.step = "wait", !.asked = Append(q.asked, q.model)]
    BY <1>1, <1>6 DEF Send, TypeOK, Request
  <2>3. /\ p.step = "wait" /\ p.cred = q.cred
        /\ Len(p.asked) = Len(q.asked) + 1
    <3>1. q.asked \in Seq(Models) /\ q.model \in Models
      BY <1>1 DEF Request
    <3>2. p.step = "wait" /\ p.cred = q.cred /\ p.asked = Append(q.asked, q.model)
      BY <1>1, <2>2 DEF Request
    <3> QED
      BY <3>1, <3>2, AppendProperties
  <2> HIDE DEF p, q
  <2> DEFINE n == FallbackAttempts - (Len(q.asked) + 1)
             w == Round(q.cred)
  <2>4. n \in Nat /\ w \in Nat /\ n + 1 = FallbackAttempts - Len(q.asked)
    BY <1>1, <2>1, FallbackAssumption
  <2>5. Rounds(p) = n * w /\ Rounds(q) = (n + 1) * w
    BY <2>3, <2>4 DEF Rounds
  <2> HIDE DEF n, w
  <2>6. Rounds(q) = Rounds(p) + w /\ Rounds(p) \in Nat
    BY <2>4, <2>5, OneRoundLess
  <2>7. /\ StepsLeft(q) = Rounds(q) + 2
        /\ StepsLeft(p) = Rounds(p) + OffersOf(q.cred) + 4
    BY <2>1, <2>3 DEF StepsLeft
  <2>8. StepsLeft(p) < StepsLeft(q)
    BY <1>1, <2>6, <2>7 DEF w
  <2> QED
    BY <2>8 DEF p, q
<1>7. ASSUME NEW refusal \in Refusals, Throttled(r, refusal)
      PROVE  StepsLeft(p) < StepsLeft(q)
  <2>1. /\ q.step = "wait" /\ Open(q)
        /\ p = Finished("throttled") \/ p = Scanning(q, q.tried)
    BY <1>7 DEF Throttled, TypeOK, Open
  <2>2. StepsLeft(q) = Rounds(q) + OffersOf(q.cred) + 4
    BY <2>1 DEF StepsLeft
  <2>3. "throttled" \in Outcomes
    BY DEF Outcomes
  <2> HIDE DEF p, q
  <2>4. CASE p = Finished("throttled")
    BY <1>2, <2>1, <2>3, <2>4
  <2>5. CASE p = Scanning(q, q.tried)
    BY <1>1, <2>2, <2>5, ScanningCounted
  <2> QED
    BY <2>1, <2>4, <2>5
<1>8. CASE Answered(r)
  <2>1. q.step = "wait" /\ p.step = "clear"
    BY <1>8, AnsweredStep
  <2> HIDE DEF p, q
  <2>2. StepsLeft(q) = Rounds(q) + OffersOf(q.cred) + 4 /\ StepsLeft(p) = 1
    BY <2>1 DEF StepsLeft
  <2>3. StepsLeft(p) < StepsLeft(q)
    BY <1>1, <2>2
  <2> QED
    BY <2>3 DEF p, q
<1>9. CASE GiveUp(r) \/ Forgive(r) \/ Errored(r)
  <2>1. Open(q) /\ \E o \in Outcomes \ {"none"} : p = Finished(o)
    BY <1>9, EndStep
  <2> QED
    BY <1>2, <2>1
<1> QED
  BY <1>3, <1>4, <1>5, <1>6, <1>7, <1>8, <1>9 DEF Work

LEMMA FreshCounted ==
    ASSUME NEW c \in Creds, NEW m \in Models
    PROVE  StepsLeft(Fresh(c, m)) < (FallbackAttempts + 1) * Round(c)
<1> DEFINE q == Fresh(c, m)
           n == FallbackAttempts
           w == Round(c)
<1>1. q.step = "check" /\ q.asked = <<>> /\ q.cred = c /\ Len(<<>>) = 0
  BY DEF Fresh
<1>2. n \in Nat /\ n - 0 = n /\ OffersOf(c) \in Nat /\ w = OffersOf(c) + 5 /\ w \in Nat
  BY OffersCounted, FallbackAssumption DEF Round
<1>3. StepsLeft(q) = n * w + OffersOf(c) + 4
  BY <1>1, <1>2 DEF StepsLeft, Rounds
<1> HIDE DEF q, n, w
<1>4. n * w \in Nat /\ (n + 1) * w = n * w + w
  BY <1>2, OneRoundLess
<1>5. StepsLeft(q) < (n + 1) * w
  BY <1>2, <1>3, <1>4
<1> QED
  BY <1>5 DEF q, n, w

\* A request has a number of steps to go that its own steps lower and nothing
\* else touches: it is over after less than (FallbackAttempts + 1) times what
\* one search of the catalog takes, however often it is refused, however the
\* catalog comes and goes, and whatever the other requests do to the table.
THEOREM StepsAreBounded ==
    Spec => /\ [](\A r \in Reqs : Counted(req[r]))
            /\ [][\A r \in Reqs :
                     /\ Work(r) => StepsLeft(req'[r]) < StepsLeft(req[r])
                     /\ \A c \in Creds, m \in Models :
                           Accept(r, c, m) =>
                              StepsLeft(req'[r]) < (FallbackAttempts + 1) * Round(c)
                     /\ \/ req'[r] = req[r]
                        \/ Work(r)
                        \/ \E c \in Creds, m \in Models : Accept(r, c, m)]_vars
<1> DEFINE Closer == \A r \in Reqs :
               /\ Work(r) => StepsLeft(req'[r]) < StepsLeft(req[r])
               /\ \A c \in Creds, m \in Models :
                     Accept(r, c, m) =>
                        StepsLeft(req'[r]) < (FallbackAttempts + 1) * Round(c)
               /\ \/ req'[r] = req[r]
                  \/ Work(r)
                  \/ \E c \in Creds, m \in Models : Accept(r, c, m)
<1>1. Inv => \A r \in Reqs : Counted(req[r])
  BY LocalCounted DEF Inv, TypeOK
<1>2. ASSUME Inv, [Next]_vars
      PROVE  Closer
  <2> SUFFICES ASSUME NEW r \in Reqs
               PROVE  /\ Work(r) => StepsLeft(req'[r]) < StepsLeft(req[r])
                      /\ \A c \in Creds, m \in Models :
                            Accept(r, c, m) =>
                               StepsLeft(req'[r]) < (FallbackAttempts + 1) * Round(c)
                      /\ \/ req'[r] = req[r]
                         \/ Work(r)
                         \/ \E c \in Creds, m \in Models : Accept(r, c, m)
    OBVIOUS
  <2>1. Work(r) => StepsLeft(req'[r]) < StepsLeft(req[r])
    BY <1>2, WorkCounts DEF Inv
  <2>2. ASSUME NEW c \in Creds, NEW m \in Models, Accept(r, c, m)
        PROVE  StepsLeft(req'[r]) < (FallbackAttempts + 1) * Round(c)
    <3>1. req'[r] = Fresh(c, m)
      BY <1>2, <2>2 DEF Accept, Inv, TypeOK
    <3> QED
      BY <3>1, FreshCounted
  <2> QED
    BY <1>2, <2>1, <2>2, StepOfOne DEF Inv
<1>3. Inv /\ [Next]_vars => [Closer]_vars
  BY <1>2
<1> QED
  BY <1>1, <1>3, Invariant, PTL DEF Spec
=============================================================================
