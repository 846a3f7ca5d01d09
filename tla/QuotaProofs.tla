----------------------------- MODULE QuotaProofs -----------------------------
(***************************************************************************)
(* Proofs about the balances, for any number of credentials and callers,   *)
(* any TTL and timeouts, and any replies of upstream: how old an answer    *)
(* can be; what a lookup makes of a reply, whose sums and sorting are      *)
(* folds over its rows (see FoldProofs); and that the caches and the calls *)
(* hold nothing but that.                                                  *)
(***************************************************************************)
EXTENDS Quota, TLAPS

IsFunction(f) == f = [x \in DOMAIN f |-> f[x]]

\* A balance of known age.
Dated(r) ==
    /\ r = [account |-> r.account, age |-> r.age, read |-> r.read]
    /\ r.age \in Nat
    /\ r.read \in BOOLEAN

AllDated(rs) == IsFunction(rs) /\ \A c \in DOMAIN rs : Dated(rs[c])

AllRead(rs) == \A c \in DOMAIN rs : rs[c].read

(***************************************************************************)
(* The invariant: age and what is left of the TTL add up to no more than   *)
(* the TTL, counted from the begin of a page's snapshot, or from the       *)
(* storing of a label, which is at most one lookup late.                   *)
(***************************************************************************)
EntryOK(entry) ==
    /\ entry = [left |-> entry.left, reading |-> entry.reading]
    /\ entry.left \in 0..QuotaTTL
    /\ entry.left > 0 => /\ Dated(entry.reading)
                         /\ entry.reading.read
                         /\ entry.reading.age + entry.left <= QuotaTTL + FetchMax

PageOK(p) ==
    /\ p = [left |-> p.left, error |-> p.error, readings |-> p.readings]
    /\ p.left \in 0..QuotaTTL /\ p.error \in BOOLEAN
    /\ p.left > 0 => /\ AllDated(p.readings)
                     /\ AllRead(p.readings)
                     /\ \A c \in DOMAIN p.readings : p.readings[c].age + p.left <= QuotaTTL

\* What was read during the call is no older than the call.
Own(k, c) == k.readings[c].age <= k.taken

\* What came out of a cache was young enough then.
Cached(k, c) ==
    IF k.about = "page" THEN ~k.force /\ k.readings[c].age - k.taken < QuotaTTL
    ELSE k.readings[c].age - k.taken < QuotaTTL + FetchMax

CallTyped(k) ==
    /\ k = [step |-> k.step, about |-> k.about, force |-> k.force, taken |-> k.taken,
            left |-> k.left, error |-> k.error, readings |-> k.readings]
    /\ k.taken \in 0..FetchMax
    /\ k.left \in 0..QuotaTTL
    /\ k.force \in BOOLEAN /\ k.error \in BOOLEAN
    /\ AllDated(k.readings)

CallOK(k) ==
    /\ CallTyped(k)
    /\ k.step \in {"list", "collect"} => k.about = "page"
    /\ k.step = "list" => DOMAIN k.readings = {}
    /\ k.step \in {"list", "collect", "store"} =>
          \A c \in DOMAIN k.readings :
             /\ Own(k, c)
             /\ k.left > 0 => k.readings[c].age + k.left <= QuotaTTL
    /\ k.step = "store" => /\ AllRead(k.readings)
                           /\ k.about # "page" => k.about \in DOMAIN k.readings
    /\ k.step = "answer" => /\ AllRead(k.readings)
                            /\ \A c \in DOMAIN k.readings : Own(k, c) \/ Cached(k, c)

IInv ==
    /\ IsFunction(balances) /\ DOMAIN balances = Credentials
    /\ \A c \in Credentials : EntryOK(balances[c])
    /\ PageOK(page)
    /\ IsFunction(call) /\ DOMAIN call = Callers
    /\ \A t \in Callers : CallOK(call[t])

-----------------------------------------------------------------------------
LEMMA IdleOK ==
    /\ CallOK(Idle) /\ CallTyped(Idle)
    /\ Idle.taken = 0 /\ Idle.left = 0 /\ Idle.readings = NoReading
    /\ PageOK(NoPage) /\ EntryOK(NoEntry)
<1>1. DOMAIN NoReading = {} /\ IsFunction(NoReading)
  BY DEF NoReading, IsFunction
<1>2. AllDated(NoReading)
  BY <1>1 DEF AllDated
<1>3. CallTyped(Idle) /\ Idle.step = "idle"
  BY <1>2, QuotaAssumption DEF Idle, CallTyped
<1>4. PageOK(NoPage) /\ EntryOK(NoEntry)
  BY QuotaAssumption DEF PageOK, EntryOK, NoPage, NoEntry
<1>5. Idle.taken = 0 /\ Idle.left = 0 /\ Idle.readings = NoReading
  BY DEF Idle
<1> QED
  BY <1>3, <1>4, <1>5 DEF CallOK

LEMMA ReadNowOK ==
    ASSUME NEW c
    PROVE  Dated(ReadNow(c)) /\ ReadNow(c).age = 0 /\ ReadNow(c).read
  BY DEF ReadNow, Dated

LEMMA OneReading ==
    ASSUME NEW c, NEW r, Dated(r)
    PROVE  AllDated([x \in {c} |-> r])
<1> DEFINE rs == [x \in {c} |-> r]
<1>1. DOMAIN rs = {c} /\ \A x \in {c} : rs[x] = r
  OBVIOUS
<1>2. IsFunction(rs)
  BY DEF IsFunction
<1> HIDE DEF rs
<1>3. AllDated(rs)
  BY <1>1, <1>2 DEF AllDated
<1> QED
  BY <1>3 DEF rs

\* A caller that moves on in order leaves all calls in order.
LEMMA Becoming ==
    ASSUME IInv, NEW t \in Callers, NEW k, CallOK(k), Becomes(t, k)
    PROVE  /\ IsFunction(call') /\ DOMAIN call' = Callers
           /\ \A u \in Callers : CallOK(call'[u])
<1>1. call' = [call EXCEPT ![t] = k] /\ DOMAIN call = Callers
  BY DEF Becomes, IInv
<1>2. IsFunction(call') /\ DOMAIN call' = Callers
  BY <1>1 DEF IsFunction
<1>3. \A u \in Callers : call'[u] = IF u = t THEN k ELSE call[u]
  BY <1>1
<1> QED
  BY <1>2, <1>3 DEF IInv

\* What comes of call k when its step, what it is about, its readings and its
\* flags change.
Changed(k, step, about, rs) ==
    [step : {step}, about : {about}, force : BOOLEAN, taken : {k.taken},
     left : {k.left}, error : BOOLEAN, readings : {rs}]

LEMMA Unchanged ==
    ASSUME NEW k, CallTyped(k)
    PROVE  k \in Changed(k, k.step, k.about, k.readings)
  BY DEF CallTyped, Changed

LEMMA ReadInto ==
    ASSUME NEW k, CallTyped(k), NEW step, NEW rs
    PROVE  [k EXCEPT !.step = step, !.readings = rs] \in Changed(k, step, k.about, rs)
<1> DEFINE m == [k EXCEPT !.step = step]
<1>1. m \in Changed(k, step, k.about, k.readings)
  BY Unchanged DEF Changed
<1> HIDE DEF m
<1>2. [m EXCEPT !.readings = rs] \in Changed(k, step, k.about, rs)
  BY <1>1 DEF Changed
<1> QED
  BY <1>2 DEF m

LEMMA ErrorToo ==
    ASSUME NEW k, CallTyped(k), NEW step, NEW rs, NEW e \in BOOLEAN
    PROVE  [k EXCEPT !.step = step, !.error = e, !.readings = rs]
               \in Changed(k, step, k.about, rs)
<1> DEFINE m == [k EXCEPT !.step = step]
           n == [m EXCEPT !.error = e]
<1>1. m \in Changed(k, step, k.about, k.readings)
  BY Unchanged DEF Changed
<1> HIDE DEF m
<1>2. n \in Changed(k, step, k.about, k.readings)
  BY <1>1 DEF Changed
<1> HIDE DEF n
<1>3. [n EXCEPT !.readings = rs] \in Changed(k, step, k.about, rs)
  BY <1>2 DEF Changed
<1> QED
  BY <1>3 DEF m, n

LEMMA ChangedOK ==
    ASSUME NEW k, CallTyped(k), NEW step, NEW about, NEW rs, AllDated(rs),
           NEW n \in Changed(k, step, about, rs)
    PROVE  /\ n.step = step /\ n.about = about /\ n.taken = k.taken
           /\ n.left = k.left /\ n.readings = rs /\ CallTyped(n)
  BY DEF CallTyped, Changed

\* A step that leaves the caches alone has only its call to answer for.
LEMMA CachesStay ==
    ASSUME IInv, NEW t \in Callers, NEW k, CallOK(k), Becomes(t, k),
           UNCHANGED <<balances, page>>
    PROVE  IInv'
<1>1. /\ IsFunction(call') /\ DOMAIN call' = Callers
      /\ \A u \in Callers : CallOK(call'[u])
  BY Becoming
<1>2. IsFunction(balances') /\ DOMAIN balances' = Credentials
  BY DEF IInv, IsFunction
<1> QED
  BY <1>1, <1>2 DEF IInv, IsFunction

LEMMA LookUpStep ==
    ASSUME IInv, NEW t \in Callers, NEW c \in Credentials, LookUp(t, c)
    PROVE  IInv'
<1>1. CASE balances[c].left > 0
  <2> DEFINE r == balances[c].reading
             rs == [x \in {c} |-> r]
             k == [Idle EXCEPT !.step = "answer", !.about = c, !.readings = rs]
  <2>1. Dated(r) /\ r.read /\ r.age + balances[c].left <= QuotaTTL + FetchMax
    BY <1>1 DEF IInv, EntryOK
  <2>2. AllDated(rs) /\ DOMAIN rs = {c} /\ rs[c] = r
    BY <2>1, OneReading
  <2>3. Becomes(t, k) /\ UNCHANGED <<balances, page>>
    BY <1>1 DEF LookUp
  <2>4. r.age \in Nat /\ balances[c].left \in 1..QuotaTTL
    BY <1>1, <2>1 DEF Dated, IInv, EntryOK
  <2>5. r.age - 0 < QuotaTTL + FetchMax
    BY <2>1, <2>4, QuotaAssumption
  <2> HIDE DEF rs, r
  <2>. k \in Changed(Idle, "answer", c, rs)
    BY IdleOK, Unchanged DEF Changed
  <2>6. /\ k.step = "answer" /\ k.about = c /\ k.taken = 0 /\ k.readings = rs
        /\ CallTyped(k)
    BY <2>2, IdleOK, ChangedOK
  <2> HIDE DEF k
  <2>7. AllRead(k.readings) /\ \A d \in DOMAIN k.readings : Cached(k, d)
    BY <2>1, <2>2, <2>5, <2>6, QuotaAssumption DEF AllRead, Cached
  <2>8. CallOK(k)
    BY <2>6, <2>7 DEF CallOK
  <2> QED
    BY <2>3, <2>8, CachesStay
<1>2. CASE ~(balances[c].left > 0)
  <2> DEFINE k == [Idle EXCEPT !.step = "fetch", !.about = c]
  <2>. k \in Changed(Idle, "fetch", c, Idle.readings)
    BY IdleOK, Unchanged DEF Changed
  <2>0. AllDated(Idle.readings)
    BY IdleOK DEF CallTyped
  <2>2. Becomes(t, k) /\ UNCHANGED <<balances, page>>
    BY <1>2 DEF LookUp
  <2> HIDE DEF k
  <2>1. k.step = "fetch" /\ CallTyped(k)
    BY <2>0, IdleOK, ChangedOK
  <2>3. CallOK(k)
    BY <2>1 DEF CallOK
  <2> QED
    BY <2>2, <2>3, CachesStay
<1> QED
  BY <1>1, <1>2

LEMMA FetchStep ==
    ASSUME IInv, NEW t \in Callers, Fetch(t)
    PROVE  IInv'
<1> DEFINE c == call[t].about
           r == ReadNow(c)
           rs == [x \in {c} |-> r]
           k == [call[t] EXCEPT !.step = "store", !.readings = rs]
<1>1. CallTyped(call[t])
  BY DEF IInv, CallOK
<1>2. Dated(r) /\ r.age = 0 /\ r.read
  BY ReadNowOK
<1>3. AllDated(rs) /\ DOMAIN rs = {c} /\ rs[c] = r
  BY <1>2, OneReading
<1>4. Becomes(t, k) /\ UNCHANGED <<balances, page>>
  BY DEF Fetch
<1> HIDE DEF rs, r
<1>. k \in Changed(call[t], "store", c, rs)
  BY <1>1, ReadInto
<1>5. /\ k.step = "store" /\ k.about = c /\ k.readings = rs /\ CallTyped(k)
  BY <1>1, <1>3, ChangedOK
<1> HIDE DEF k, c
<1>6. /\ AllRead(k.readings) /\ k.about \in DOMAIN k.readings
      /\ \A x \in DOMAIN k.readings :
            Own(k, x) /\ (k.left > 0 => k.readings[x].age + k.left <= QuotaTTL)
  <2>1. k.taken \in 0..FetchMax /\ k.left \in 0..QuotaTTL
    BY <1>5 DEF CallTyped
  <2> QED
    BY <1>2, <1>3, <1>5, <2>1, QuotaAssumption DEF AllRead, Own
<1>7. CallOK(k)
  BY <1>5, <1>6 DEF CallOK
<1> QED
  BY <1>4, <1>7, CachesStay

LEMMA MovingIn ==
    ASSUME NEW k, CallTyped(k), NEW step
    PROVE  [k EXCEPT !.step = step] \in Changed(k, step, k.about, k.readings)
  BY Unchanged DEF Changed

\* A call that only moves on.
LEMMA Moving ==
    ASSUME NEW k, CallTyped(k), NEW step
    PROVE  LET n == [k EXCEPT !.step = step]
           IN  /\ n.step = step /\ n.about = k.about /\ n.taken = k.taken
               /\ n.left = k.left /\ n.readings = k.readings /\ CallTyped(n)
<1> [k EXCEPT !.step = step] \in Changed(k, step, k.about, k.readings)
  BY Unchanged DEF Changed
<1> QED
  BY ChangedOK DEF CallTyped

LEMMA Answering ==
    ASSUME NEW k, CallOK(k), k.step = "store"
    PROVE  CallOK([k EXCEPT !.step = "answer"])
<1> DEFINE n == [k EXCEPT !.step = "answer"]
<1>1. /\ n.step = "answer" /\ n.taken = k.taken /\ n.readings = k.readings
      /\ CallTyped(n)
  BY Moving DEF CallOK
<1>2. AllRead(k.readings) /\ \A c \in DOMAIN k.readings : Own(k, c)
  BY DEF CallOK
<1> HIDE DEF n
<1>3. CallOK(n)
  BY <1>1, <1>2 DEF CallOK, Own
<1> QED
  BY <1>3 DEF n

LEMMA StoreStep ==
    ASSUME IInv, NEW t \in Callers, Store(t)
    PROVE  IInv'
<1> DEFINE c == call[t].about
           k == [call[t] EXCEPT !.step = "answer"]
           entry == [left |-> QuotaTTL, reading |-> call[t].readings[c]]
<1>1. CallOK(call[t]) /\ call[t].step = "store" /\ c # "page"
  BY DEF IInv, Store
<1>2. Dated(entry.reading) /\ entry.reading.read /\ entry.reading.age <= call[t].taken
  BY <1>1 DEF CallOK, CallTyped, AllDated, AllRead, Own
<1>3. EntryOK(entry)
  <2>1. entry.reading.age \in Nat /\ call[t].taken \in 0..FetchMax
    BY <1>1, <1>2 DEF Dated, CallOK, CallTyped
  <2>2. /\ entry.left = QuotaTTL
        /\ entry = [left |-> entry.left, reading |-> entry.reading]
    OBVIOUS
  <2> HIDE DEF entry
  <2>3. entry.reading.age + QuotaTTL <= QuotaTTL + FetchMax
    BY <1>2, <2>1, QuotaAssumption
  <2> QED
    BY <1>2, <2>2, <2>3, QuotaAssumption DEF EntryOK
<1>4. CallOK(k)
  BY <1>1, Answering
<1>5. Becomes(t, k) /\ page' = page /\ balances' = [balances EXCEPT ![c] = entry]
  BY DEF Store
<1> HIDE DEF k, entry, c
<1>6. /\ IsFunction(call') /\ DOMAIN call' = Callers
      /\ \A u \in Callers : CallOK(call'[u])
  BY <1>4, <1>5, Becoming
<1>7. /\ IsFunction(balances') /\ DOMAIN balances' = Credentials
      /\ \A d \in Credentials : balances'[d] = IF d = c THEN entry ELSE balances[d]
  BY <1>5 DEF IInv, IsFunction
<1> QED
  BY <1>3, <1>5, <1>6, <1>7 DEF IInv

LEMMA OpenPageStep ==
    ASSUME IInv, NEW t \in Callers, NEW force \in BOOLEAN, OpenPage(t, force)
    PROVE  IInv'
<1>1. CASE ~force /\ page.left > 0
  <2> DEFINE rs == page.readings
             e == page.error
             k == [Idle EXCEPT !.step = "answer", !.force = force, !.error = e,
                               !.readings = rs]
  <2>1. /\ AllDated(rs) /\ AllRead(rs) /\ e \in BOOLEAN /\ page.left \in 1..QuotaTTL
        /\ \A c \in DOMAIN rs : rs[c].age + page.left <= QuotaTTL
    BY <1>1 DEF IInv, PageOK
  <2>2. Becomes(t, k) /\ UNCHANGED <<balances, page>>
    BY <1>1 DEF OpenPage
  <2> HIDE DEF rs, e
  <2>3. k \in Changed(Idle, "answer", "page", rs) /\ ~k.force
    BY <1>1, <2>1, QuotaAssumption DEF Changed, Idle
  <2> HIDE DEF k
  <2>4. /\ k.step = "answer" /\ k.about = "page" /\ k.taken = 0 /\ k.readings = rs
        /\ CallTyped(k)
    BY <2>1, <2>3, IdleOK, ChangedOK
  <2>5. ASSUME NEW c \in DOMAIN rs
        PROVE  Cached(k, c)
    <3>1. rs[c].age \in Nat
      BY <2>1 DEF AllDated, Dated
    <3>2. rs[c].age - 0 < QuotaTTL
      BY <2>1, <3>1, QuotaAssumption
    <3> QED
      BY <2>3, <2>4, <3>2 DEF Cached
  <2>6. CallOK(k)
    BY <2>1, <2>4, <2>5 DEF CallOK
  <2> QED
    BY <2>2, <2>6, CachesStay
<1>2. CASE ~(~force /\ page.left > 0)
  <2> DEFINE k == [Idle EXCEPT !.step = "list", !.force = force, !.left = QuotaTTL]
  <2>1. Becomes(t, k) /\ UNCHANGED <<balances, page>>
    BY <1>2 DEF OpenPage
  <2>2. k \in [step : {"list"}, about : {"page"}, force : BOOLEAN, taken : {0},
               left : {QuotaTTL}, error : BOOLEAN, readings : {NoReading}]
    BY DEF Idle
  <2> HIDE DEF k
  <2>3. AllDated(NoReading) /\ DOMAIN NoReading = {}
    BY DEF AllDated, IsFunction, NoReading
  <2>4. CallOK(k)
    BY <2>2, <2>3, QuotaAssumption DEF CallTyped, CallOK
  <2> QED
    BY <2>1, <2>4, CachesStay
<1> QED
  BY <1>1, <1>2

LEMMA ListStep ==
    ASSUME IInv, NEW t \in Callers,
           ListFails(t) \/ \E listed \in SUBSET Credentials : List(t, listed)
    PROVE  IInv'
<1>1. CallOK(call[t]) /\ CallTyped(call[t])
  BY DEF IInv, CallOK
<1>2. ASSUME NEW listed \in SUBSET Credentials, List(t, listed)
      PROVE  IInv'
  <2> DEFINE rs == [c \in listed |-> Unread]
             e == (listed = {})
             k == [call[t] EXCEPT !.step = "collect", !.error = e, !.readings = rs]
  <2>1. Dated(Unread) /\ Unread.age = 0
    BY DEF Dated, Unread
  <2>2. DOMAIN rs = listed /\ \A c \in listed : rs[c] = Unread
    OBVIOUS
  <2>3. IsFunction(rs)
    BY DEF IsFunction
  <2>4. Becomes(t, k) /\ UNCHANGED <<balances, page>> /\ e \in BOOLEAN
    BY <1>2 DEF List
  <2> HIDE DEF rs, e
  <2>5. AllDated(rs)
    BY <2>1, <2>2, <2>3 DEF AllDated
  <2>6. k \in Changed(call[t], "collect", call[t].about, rs)
    BY <1>1, <2>4, ErrorToo
  <2> HIDE DEF k
  <2>. call[t].about = "page"
    BY <1>1, <1>2 DEF CallOK, List
  <2>7. k.step = "collect" /\ k.readings = rs /\ CallTyped(k) /\ k.about = "page"
    BY <1>1, <2>5, <2>6, ChangedOK
  <2>8. \A c \in DOMAIN k.readings :
            Own(k, c) /\ (k.left > 0 => k.readings[c].age + k.left <= QuotaTTL)
    <3>1. k.taken \in 0..FetchMax /\ k.left \in 0..QuotaTTL
      BY <2>7 DEF CallTyped
    <3> QED
      BY <2>1, <2>2, <2>7, <3>1, QuotaAssumption DEF Own
  <2>9. CallOK(k)
    BY <2>7, <2>8 DEF CallOK
  <2> QED
    BY <2>4, <2>9, CachesStay
<1>3. ASSUME ListFails(t)
      PROVE  IInv'
  <2> DEFINE rs == call[t].readings
             k == [call[t] EXCEPT !.step = "store", !.error = TRUE]
  <2>1. k \in Changed(call[t], "store", call[t].about, rs)
    <3> DEFINE m == [call[t] EXCEPT !.step = "store"]
    <3>1. m \in Changed(call[t], "store", call[t].about, rs)
      BY <1>1, MovingIn
    <3> HIDE DEF m
    <3>2. [m EXCEPT !.error = TRUE] \in Changed(call[t], "store", call[t].about, rs)
      BY <3>1 DEF Changed
    <3> QED
      BY <3>2 DEF m
  <2>2. Becomes(t, k) /\ UNCHANGED <<balances, page>> /\ call[t].step = "list"
    BY <1>3 DEF ListFails
  <2>3. AllDated(rs) /\ DOMAIN rs = {} /\ call[t].about = "page"
    BY <1>1, <2>2 DEF CallOK, CallTyped
  <2> HIDE DEF k, rs
  <2>4. k.step = "store" /\ k.about = "page" /\ k.readings = rs /\ CallTyped(k)
    BY <1>1, <2>1, <2>3, ChangedOK
  <2>5. CallOK(k)
    BY <2>3, <2>4 DEF CallOK, AllRead
  <2> QED
    BY <2>2, <2>5, CachesStay
<1> QED
  BY <1>2, <1>3

LEMMA CollectStep ==
    ASSUME IInv, NEW t \in Callers,
           Collected(t) \/ \E c \in Credentials : Collect(t, c)
    PROVE  IInv'
<1>1. CallOK(call[t]) /\ CallTyped(call[t])
  BY DEF IInv, CallOK
<1>2. ASSUME NEW c \in Credentials, Collect(t, c)
      PROVE  IInv'
  <2> DEFINE old == call[t].readings
             r == ReadNow(c)
             rs == [old EXCEPT ![c] = r]
             k == [call[t] EXCEPT !.readings[c] = r]
  <2>1. Dated(r) /\ r.age = 0 /\ r.read
    BY ReadNowOK
  <2>2. AllDated(old) /\ call[t].step = "collect" /\ call[t].about = "page"
    BY <1>1, <1>2 DEF CallOK, CallTyped, Collect
  <2>3. Becomes(t, k) /\ UNCHANGED <<balances, page>>
    BY <1>2 DEF Collect
  <2>4. k \in Changed(call[t], "collect", "page", rs)
    <3>1. call[t] \in Changed(call[t], "collect", "page", old)
      BY <1>1, <2>2, Unchanged
    <3> HIDE DEF r
    <3> QED
      BY <3>1 DEF Changed
  <2>5. /\ IsFunction(rs) /\ DOMAIN rs = DOMAIN old
        /\ \A d \in DOMAIN rs : rs[d] = IF d = c THEN r ELSE old[d]
    BY DEF IsFunction
  <2> HIDE DEF k, rs, r
  <2>6. AllDated(rs)
    BY <2>1, <2>2, <2>5 DEF AllDated
  <2>7. /\ k.step = "collect" /\ k.readings = rs /\ CallTyped(k) /\ k.about = "page"
        /\ k.taken = call[t].taken /\ k.left = call[t].left
    BY <1>1, <2>4, <2>6, ChangedOK
  <2>8. \A d \in DOMAIN k.readings :
            Own(k, d) /\ (k.left > 0 => k.readings[d].age + k.left <= QuotaTTL)
    <3>1. k.taken \in 0..FetchMax /\ k.left \in 0..QuotaTTL
      BY <2>7 DEF CallTyped
    <3>2. \A d \in DOMAIN old : /\ old[d].age <= k.taken
                                /\ k.left > 0 => old[d].age + k.left <= QuotaTTL
      BY <1>1, <2>2, <2>7 DEF CallOK, Own
    <3> QED
      BY <2>1, <2>5, <2>7, <3>1, <3>2, QuotaAssumption DEF Own
  <2>9. CallOK(k)
    BY <2>7, <2>8 DEF CallOK
  <2> QED
    BY <2>3, <2>9, CachesStay
<1>3. ASSUME Collected(t)
      PROVE  IInv'
  <2> DEFINE k == [call[t] EXCEPT !.step = "store"]
  <2>1. /\ Becomes(t, k) /\ UNCHANGED <<balances, page>> /\ call[t].step = "collect"
        /\ AllRead(call[t].readings)
    BY <1>3 DEF Collected, AllRead
  <2>2. /\ k.step = "store" /\ k.about = call[t].about /\ k.taken = call[t].taken
        /\ k.left = call[t].left /\ k.readings = call[t].readings /\ CallTyped(k)
    BY <1>1, Moving
  <2> HIDE DEF k
  <2>3. CallOK(k)
    BY <1>1, <2>1, <2>2 DEF CallOK, Own
  <2> QED
    BY <2>1, <2>3, CachesStay
<1> QED
  BY <1>2, <1>3

LEMMA StorePageStep ==
    ASSUME IInv, NEW t \in Callers, StorePage(t)
    PROVE  IInv'
<1> DEFINE k == [call[t] EXCEPT !.step = "answer"]
           p == [left |-> call[t].left, error |-> call[t].error,
                 readings |-> call[t].readings]
<1>1. CallOK(call[t]) /\ CallTyped(call[t]) /\ call[t].step = "store"
  BY DEF IInv, CallOK, StorePage
<1>2. CallOK(k) /\ Becomes(t, k) /\ balances' = balances
  BY <1>1, Answering DEF StorePage
<1>3. PageOK(p)
  <2>1. /\ p.left = call[t].left /\ p.error = call[t].error
        /\ p.readings = call[t].readings
        /\ p = [left |-> p.left, error |-> p.error, readings |-> p.readings]
    OBVIOUS
  <2> HIDE DEF p
  <2> QED
    BY <1>1, <2>1 DEF PageOK, CallOK, CallTyped
<1>4. page' = IF call[t].left = 0 THEN NoPage ELSE p
  BY DEF StorePage
<1> HIDE DEF k, p
<1>5. PageOK(page')
  BY <1>3, <1>4, IdleOK
<1>6. /\ IsFunction(call') /\ DOMAIN call' = Callers
      /\ \A u \in Callers : CallOK(call'[u])
  BY <1>2, Becoming
<1> QED
  BY <1>2, <1>5, <1>6 DEF IInv, IsFunction

LEMMA Elder ==
    ASSUME NEW r, Dated(r)
    PROVE  LET n == [r EXCEPT !.age = @ + 1]
           IN  Dated(n) /\ n.read = r.read /\ n.age = r.age + 1
<1> DEFINE n == [r EXCEPT !.age = @ + 1]
<1>1. n = [account |-> r.account, age |-> r.age + 1, read |-> r.read]
  BY DEF Dated
<1> HIDE DEF n
<1>2. Dated(n) /\ n.read = r.read /\ n.age = r.age + 1
  BY <1>1 DEF Dated
<1> QED
  BY <1>2 DEF n

\* Time makes every balance older by as much as it takes from the TTL.
LEMMA OlderOK ==
    ASSUME NEW rs, AllDated(rs)
    PROVE  /\ AllDated(Older(rs)) /\ DOMAIN Older(rs) = DOMAIN rs
           /\ \A c \in DOMAIN rs :
                 /\ Older(rs)[c].read <=> rs[c].read
                 /\ Older(rs)[c].age =
                       IF rs[c].read THEN rs[c].age + 1 ELSE rs[c].age
<1> DEFINE o(r) == IF r.read THEN [r EXCEPT !.age = @ + 1] ELSE r
<1>1. ASSUME NEW r, Dated(r)
      PROVE  /\ Dated(o(r))
             /\ o(r).read <=> r.read
             /\ o(r).age = IF r.read THEN r.age + 1 ELSE r.age
  <2>1. CASE r.read
    BY <1>1, <2>1, Elder
  <2>2. CASE ~r.read
    BY <1>1, <2>2
  <2> QED
    BY <2>1, <2>2
<1>2. Older(rs) = [c \in DOMAIN rs |-> o(rs[c])]
  BY DEF Older
<1> HIDE DEF o
<1>3. IsFunction(Older(rs)) /\ DOMAIN Older(rs) = DOMAIN rs
  BY <1>2 DEF IsFunction
<1> QED
  BY <1>1, <1>2, <1>3 DEF AllDated

LEMMA AgedOK ==
    ASSUME NEW entry, EntryOK(entry)
    PROVE  EntryOK(Aged(entry))
<1>1. CASE entry.left <= 1
  BY <1>1, IdleOK DEF Aged
<1>2. CASE ~(entry.left <= 1)
  <2> DEFINE r == entry.reading
             old == [r EXCEPT !.age = @ + 1]
             e == [left |-> entry.left - 1, reading |-> old]
  <2>1. /\ entry.left \in 2..QuotaTTL /\ Dated(r) /\ r.read
        /\ r.age + entry.left <= QuotaTTL + FetchMax
    BY <1>2, QuotaAssumption DEF EntryOK
  <2>2. Dated(old) /\ old.read = r.read /\ old.age = r.age + 1
    BY <2>1, Elder
  <2> HIDE DEF old
  <2>3. Dated(old) /\ old.read /\ old.age = r.age + 1 /\ r.age \in Nat
    BY <2>1, <2>2 DEF Dated
  <2>4. e.left = entry.left - 1 /\ e.reading = old
        /\ e = [left |-> e.left, reading |-> e.reading]
    OBVIOUS
  <2>5. Aged(entry) = e
    BY <1>2 DEF Aged, old
  <2> HIDE DEF e, r
  <2> QED
    BY <2>1, <2>3, <2>4, <2>5, QuotaAssumption DEF EntryOK
<1> QED
  BY <1>1, <1>2

LEMMA PageAges ==
    ASSUME PageOK(page), Tick
    PROVE  PageOK(page')
<1>1. CASE page.left <= 1
  BY <1>1, IdleOK DEF Tick
<1>2. CASE ~(page.left <= 1)
  <2> DEFINE rs == page.readings
             p == [page EXCEPT !.left = @ - 1, !.readings = Older(@)]
  <2>1. /\ page.left \in 2..QuotaTTL /\ page.error \in BOOLEAN
        /\ page = [left |-> page.left, error |-> page.error, readings |-> page.readings]
        /\ AllDated(rs) /\ AllRead(rs)
        /\ \A c \in DOMAIN rs : rs[c].age + page.left <= QuotaTTL
    BY <1>2, QuotaAssumption DEF PageOK
  <2>2. page' = p
    BY <1>2 DEF Tick
  <2>3. p \in [left : {page.left - 1}, error : {page.error}, readings : {Older(rs)}]
    <3>1. page \in [left : {page.left}, error : {page.error}, readings : {rs}]
      BY <2>1
    <3> QED
      BY <3>1
  <2>4. /\ AllDated(Older(rs)) /\ DOMAIN Older(rs) = DOMAIN rs
        /\ \A c \in DOMAIN rs : /\ Older(rs)[c].read
                                /\ Older(rs)[c].age = rs[c].age + 1
    BY <2>1, OlderOK DEF AllRead
  <2>5. \A c \in DOMAIN rs : rs[c].age \in Nat
    BY <2>1 DEF AllDated, Dated
  <2> HIDE DEF p, rs
  <2>6. \A c \in DOMAIN p.readings : p.readings[c].age + p.left <= QuotaTTL
    BY <2>1, <2>3, <2>4, <2>5, QuotaAssumption
  <2>7. p.left \in 0..QuotaTTL /\ AllRead(p.readings) /\ AllDated(p.readings)
    BY <2>1, <2>3, <2>4, QuotaAssumption DEF AllRead
  <2>8. PageOK(p)
    BY <2>1, <2>3, <2>6, <2>7 DEF PageOK
  <2> QED
    BY <2>2, <2>8
<1> QED
  BY <1>1, <1>2

\* What holds of a call holds of it a tick later.
LEMMA CallAges ==
    ASSUME NEW k, CallOK(k), k.taken < FetchMax
    PROVE  CallOK([k EXCEPT !.taken = @ + 1, !.left = Down(@), !.readings = Older(@)])
<1> DEFINE rs == k.readings
           n == [k EXCEPT !.taken = @ + 1, !.left = Down(@), !.readings = Older(@)]
<1>1. CallTyped(k)
  BY DEF CallOK
<1>2. n \in [step : {k.step}, about : {k.about}, force : {k.force},
             taken : {k.taken + 1}, left : {Down(k.left)}, error : {k.error},
             readings : {Older(rs)}]
  <2> DEFINE m == [k EXCEPT !.taken = @ + 1]
             l == [m EXCEPT !.left = Down(@)]
             R(taken, left, re) == [step : {k.step}, about : {k.about},
                                    force : {k.force}, taken : {taken}, left : {left},
                                    error : {k.error}, readings : {re}]
  <2>1. k \in R(k.taken, k.left, rs)
    BY <1>1 DEF CallTyped
  <2>2. m \in R(k.taken + 1, k.left, rs)
    BY <2>1
  <2> HIDE DEF m
  <2>3. l \in R(k.taken + 1, Down(k.left), rs)
    BY <2>2
  <2> HIDE DEF l
  <2>4. [l EXCEPT !.readings = Older(@)] \in R(k.taken + 1, Down(k.left), Older(rs))
    BY <2>3
  <2> QED
    BY <2>4 DEF l, m
<1>3. /\ AllDated(Older(rs)) /\ DOMAIN Older(rs) = DOMAIN rs
      /\ \A c \in DOMAIN rs :
            /\ Older(rs)[c].read <=> rs[c].read
            /\ Older(rs)[c].age = IF rs[c].read THEN rs[c].age + 1 ELSE rs[c].age
  BY <1>1, OlderOK DEF CallTyped
<1>4. \A c \in DOMAIN rs : rs[c].age \in Nat
  BY <1>1 DEF CallTyped, AllDated, Dated
<1>5. k.taken \in 0..FetchMax /\ k.left \in 0..QuotaTTL
  BY <1>1 DEF CallTyped
<1>6. /\ n.step = k.step /\ n.about = k.about /\ n.force = k.force
      /\ n.taken = k.taken + 1 /\ n.left = Down(k.left) /\ n.error = k.error
      /\ n.readings = Older(rs)
      /\ n = [step |-> n.step, about |-> n.about, force |-> n.force, taken |-> n.taken,
              left |-> n.left, error |-> n.error, readings |-> n.readings]
  <2> HIDE DEF n
  <2> QED
    BY <1>2
<1> HIDE DEF n
<1>7. CallTyped(n)
  <2>1. n.taken \in 0..FetchMax /\ n.left \in 0..QuotaTTL
    BY <1>5, <1>6, QuotaAssumption DEF Down
  <2> QED
    BY <1>1, <1>3, <1>6, <2>1 DEF CallTyped
<1>8. ASSUME NEW c \in DOMAIN rs, Own(k, c)
      PROVE  Own(n, c)
  BY <1>3, <1>4, <1>5, <1>6, <1>8 DEF Own
<1>9. ASSUME NEW c \in DOMAIN rs, k.left > 0 => rs[c].age + k.left <= QuotaTTL
      PROVE  n.left > 0 => n.readings[c].age + n.left <= QuotaTTL
  BY <1>3, <1>4, <1>5, <1>6, <1>9, QuotaAssumption DEF Down
<1>10. ASSUME NEW c \in DOMAIN rs, rs[c].read, Cached(k, c)
       PROVE  Cached(n, c)
  <2>1. n.readings[c].age - n.taken = rs[c].age - k.taken
    BY <1>3, <1>4, <1>5, <1>6, <1>10
  <2> QED
    BY <1>6, <1>10, <2>1 DEF Cached
<1>11. AllRead(rs) => AllRead(n.readings)
  BY <1>3, <1>6 DEF AllRead
<1>12. DOMAIN n.readings = DOMAIN rs
  BY <1>3, <1>6
<1>13. n.step \in {"list", "collect", "store"} =>
          \A c \in DOMAIN n.readings :
             Own(n, c) /\ (n.left > 0 => n.readings[c].age + n.left <= QuotaTTL)
  BY <1>6, <1>8, <1>9, <1>12 DEF CallOK
<1>14. n.step = "answer" => \A c \in DOMAIN n.readings : Own(n, c) \/ Cached(n, c)
  BY <1>6, <1>8, <1>10, <1>12 DEF CallOK, AllRead
<1>15. CallOK(n)
  BY <1>6, <1>7, <1>11, <1>12, <1>13, <1>14 DEF CallOK
<1> QED
  BY <1>15 DEF n

LEMMA TickStep ==
    ASSUME IInv, Tick
    PROVE  IInv'
<1>1. PageOK(page')
  BY PageAges DEF IInv
<1>2. /\ IsFunction(balances') /\ DOMAIN balances' = Credentials
      /\ \A c \in Credentials : balances'[c] = Aged(balances[c])
  BY DEF Tick, IsFunction
<1>3. /\ IsFunction(call') /\ DOMAIN call' = Callers
      /\ \A t \in Callers :
            call'[t] = IF call[t].step = "idle" THEN Idle
                       ELSE [call[t] EXCEPT !.taken = @ + 1, !.left = Down(@),
                                            !.readings = Older(@)]
  BY DEF Tick, IsFunction
<1>4. ASSUME NEW t \in Callers
      PROVE  CallOK(call'[t])
  <2>1. CASE call[t].step = "idle"
    BY <1>3, <2>1, IdleOK
  <2>2. CASE call[t].step # "idle"
    <3>1. CallOK(call[t]) /\ call[t].taken < FetchMax
      BY <2>2 DEF Tick, IInv
    <3>2. CallOK([call[t] EXCEPT !.taken = @ + 1, !.left = Down(@), !.readings = Older(@)])
      BY <3>1, CallAges
    <3> QED
      BY <1>3, <2>2, <3>2
  <2> QED
    BY <2>1, <2>2
<1>5. \A c \in Credentials : EntryOK(balances'[c])
  BY <1>2, AgedOK DEF IInv
<1> QED
  BY <1>1, <1>2, <1>3, <1>4, <1>5 DEF IInv

-----------------------------------------------------------------------------
LEMMA Initially == Init => IInv
<1> SUFFICES ASSUME Init
             PROVE  IInv
  OBVIOUS
<1>1. /\ IsFunction(balances) /\ DOMAIN balances = Credentials
      /\ \A c \in Credentials : balances[c] = NoEntry
  BY DEF Init, IsFunction
<1>2. /\ IsFunction(call) /\ DOMAIN call = Callers
      /\ \A t \in Callers : call[t] = Idle
  BY DEF Init, IsFunction
<1> QED
  BY <1>1, <1>2, IdleOK DEF Init, IInv

LEMMA Preserved == IInv /\ [Next]_vars => IInv'
<1> SUFFICES ASSUME IInv, [Next]_vars
             PROVE  IInv'
  OBVIOUS
<1>1. ASSUME NEW t \in Callers, Answer(t)
      PROVE  IInv'
  BY <1>1, IdleOK, CachesStay DEF Answer
<1>2. ASSUME UNCHANGED <<balances, page, call>>
      PROVE  IInv'
  BY <1>2 DEF IInv, IsFunction
<1>3. ASSUME NEW c \in Credentials, NEW reply \in Replies, Change(c, reply)
      PROVE  IInv'
  BY <1>2, <1>3 DEF Change
<1>4. CASE UNCHANGED vars
  BY <1>2, <1>4 DEF vars
<1> QED
  BY <1>1, <1>3, <1>4, LookUpStep, FetchStep, StoreStep, OpenPageStep, ListStep,
     CollectStep, StorePageStep, TickStep
     DEF Next, CallStep

LEMMA Invariant == Spec => []IInv
<1> QED
  BY Initially, Preserved, PTL DEF Spec

\* A label shows nothing upstream gave longer ago than the TTL and the timeouts
\* of one lookup, although concurrent lookups overwrite each other in any order.
THEOREM LabelsRecent == Spec => []LabelIsRecent
<1>1. IInv => LabelIsRecent
  BY DEF IInv, CallOK, Own, Cached, LabelIsRecent, Answered
<1> QED
  BY <1>1, Invariant, PTL

\* A page shows nothing older than the TTL or the call, and a forced refresh
\* nothing older than the call, whatever other calls store meanwhile.
THEOREM PagesRecent == Spec => []PageIsRecent
<1>1. IInv => PageIsRecent
  BY DEF IInv, CallOK, Own, Cached, PageIsRecent, Answered
<1> QED
  BY <1>1, Invariant, PTL

\* Nothing is served, from a cache or not, before its lookup is in.
THEOREM AllAnswersRead == Spec => []NothingUnread
<1>1. IInv => NothingUnread
  BY DEF IInv, CallOK, AllRead, NothingUnread, Answered
<1> QED
  BY <1>1, Invariant, PTL

-----------------------------------------------------------------------------
(***************************************************************************)
(* What a lookup makes of upstream's reply: three folds.                   *)
(***************************************************************************)
SumStep(c, sum, p) == AddLeft(sum, p)
OrderStep(c, list, p) == PutInOrder(list, p)
FactStep(c, facts, row) == AddFacts(facts, row)

FS == INSTANCE FoldProofs WITH Op <- SumStep
FO == INSTANCE FoldProofs WITH Op <- OrderStep
FF == INSTANCE FoldProofs WITH Op <- FactStep

LEMMA TotalIsFold == ASSUME NEW s PROVE Total(s) = FS!Fold(0, 0, s)
  BY DEF Total, AddLeft, SumStep, FS!Fold, FoldLeft, MapThenFoldSet, Max,
         FS!FoldLeft, FS!MapThenFoldSet, FS!Max

LEMMA InOrderIsFold == ASSUME NEW s PROVE InOrder(s) = FO!Fold(0, <<>>, s)
  BY DEF InOrder, PutInOrder, OrderStep, FO!Fold, FoldLeft, MapThenFoldSet, Max,
         FO!FoldLeft, FO!MapThenFoldSet, FO!Max

NoneKnown == [c \in Codes \cup {NoCode} |-> NoFacts]

LEMMA FactsAreFold == ASSUME NEW s PROVE freePackageFacts(s) = FF!Fold(0, NoneKnown, s)
  BY DEF freePackageFacts, NoneKnown, AddFacts, FactStep, FF!Fold, FoldLeft,
         MapThenFoldSet, Max, FF!FoldLeft, FF!MapThenFoldSet, FF!Max

\* Anything that has something left.
HasLeft(S) == \A p \in S : p.left \in Nat

LEMMA TotalFrom ==
    ASSUME NEW S, HasLeft(S), NEW s \in Seq(S), NEW b \in Nat
    PROVE  Total(s) \in Nat /\ FS!Fold(0, b, s) = b + Total(s)
<1>0. Len(s) \in Nat /\ \A k \in 1..Len(s) : s[k].left \in Nat
  BY DEF HasLeft
<1>1. PICK A : FS!Trace(A, 0, 0, s) /\ FS!Fold(0, 0, s) = A[Len(s)]
  BY FS!FoldHasTrace
<1>2. A[0] = 0 /\ \A k \in 1..Len(s) : A[k] = A[k - 1] + s[k].left
  BY <1>1 DEF FS!Trace, SumStep, AddLeft
<1> DEFINE P == {k \in Nat : k \in 0..Len(s) => A[k] \in Nat}
<1>3. 0 \in P
  BY <1>2
<1>4. ASSUME NEW n \in Nat, n \in P PROVE n + 1 \in P
  <2> SUFFICES ASSUME n + 1 \in 0..Len(s) PROVE A[n + 1] \in Nat
    OBVIOUS
  <2>1. n + 1 \in 1..Len(s) /\ n \in 0..Len(s) /\ (n + 1) - 1 = n
    BY <1>0, <1>4
  <2> QED
    BY <1>0, <1>2, <1>4, <2>1
<1> HIDE DEF P
<1>5. Nat \subseteq P
  BY <1>3, <1>4, FS!Induction
<1>6. \A k \in 0..Len(s) : A[k] \in Nat
  BY <1>0, <1>5 DEF P
<1> DEFINE B == [k \in 0..Len(s) |-> b + A[k]]
<1>7. FS!Trace(B, 0, b, s)
  <2>1. B[0] = b
    BY <1>0, <1>2
  <2>2. ASSUME NEW k \in 1..Len(s)
        PROVE  B[k] = B[k - 1] + s[k].left
    <3>1. k \in 0..Len(s) /\ k - 1 \in 0..Len(s)
      BY <1>0
    <3>2. A[k - 1] \in Nat /\ A[k] = A[k - 1] + s[k].left /\ s[k].left \in Nat
      BY <1>0, <1>2, <1>6, <3>1
    <3> QED
      BY <3>1, <3>2
  <2> HIDE DEF B
  <2> QED
    BY <2>1, <2>2 DEF FS!Trace, SumStep, AddLeft
<1>8. B[Len(s)] = b + A[Len(s)] /\ A[Len(s)] \in Nat
  BY <1>0, <1>6
<1> HIDE DEF B
<1>9. FS!Fold(0, b, s) = B[Len(s)]
  BY <1>7, FS!FoldOfTrace
<1> QED
  BY <1>1, <1>8, <1>9, TotalIsFold

LEMMA TotalOfBoth ==
    ASSUME NEW S, HasLeft(S), NEW s \in Seq(S), NEW t \in Seq(S)
    PROVE  Total(s \o t) = Total(s) + Total(t)
<1>1. FS!Fold(0, 0, s \o t) = FS!Fold(0, FS!Fold(0, 0, s), t)
  BY FS!FoldConcat
<1>2. Total(s) \in Nat
  BY TotalFrom
<1> QED
  BY <1>1, <1>2, TotalIsFold, TotalFrom

LEMMA TotalOfOne ==
    ASSUME NEW S, HasLeft(S), NEW p \in S
    PROVE  Total(<<p>>) = p.left
<1>1. <<>> \in Seq(S) /\ Append(<<>>, p) = <<p>>
  OBVIOUS
<1>2. \A s \in Seq(S) : FS!Fold(0, 0, Append(s, p)) = SumStep(0, FS!Fold(0, 0, s), p)
  BY FS!FoldAppend
<1>3. FS!Fold(0, 0, <<p>>) = SumStep(0, FS!Fold(0, 0, <<>>), p)
  BY <1>1, <1>2
<1>4. FS!Fold(0, 0, <<>>) = 0
  BY FS!FoldEmpty
<1> QED
  BY <1>3, <1>4, TotalIsFold DEF SumStep, AddLeft, HasLeft

\* Rows of the same figures have the same total.
LEMMA TotalOfSame ==
    ASSUME NEW S, NEW T, NEW s \in Seq(S), NEW t \in Seq(T), Len(t) = Len(s),
           \A k \in 1..Len(s) : t[k].left = s[k].left
    PROVE  Total(t) = Total(s)
<1>1. PICK A : FS!Trace(A, 0, 0, s) /\ FS!Fold(0, 0, s) = A[Len(s)]
  BY FS!FoldHasTrace
<1>2. FS!Trace(A, 0, 0, t)
  BY <1>1 DEF FS!Trace, SumStep, AddLeft
<1>3. FS!Fold(0, 0, t) = A[Len(t)]
  BY <1>2, FS!FoldOfTrace
<1> QED
  BY <1>1, <1>3, TotalIsFold

LEMMA SplitSeq ==
    ASSUME NEW S, NEW list \in Seq(S), NEW at \in 0..Len(list)
    PROVE  LET s == SubSeq(list, 1, at)
               t == SubSeq(list, at + 1, Len(list))
           IN  /\ s \in Seq(S) /\ Len(s) = at /\ t \in Seq(S) /\ Len(t) = Len(list) - at
               /\ \A i \in 1..at : s[i] = list[i]
               /\ list = s \o t
<1> DEFINE s == SubSeq(list, 1, at)
           t == SubSeq(list, at + 1, Len(list))
<1>1. Len(list) \in Nat /\ at \in Nat /\ at <= Len(list)
  OBVIOUS
<1>2. s \in Seq(S) /\ Len(s) = at /\ \A i \in 1..at : s[i] = list[i]
  <2>1. \A i \in 1..at : list[i] \in S
    BY <1>1
  <2> QED
    BY <1>1, <2>1
<1>3. t \in Seq(S) /\ Len(t) = Len(list) - at
      /\ \A i \in 1..(Len(list) - at) : t[i] = list[at + i]
  <2>1. \A i \in (at + 1)..Len(list) : list[i] \in S
    BY <1>1
  <2> QED
    BY <1>1, <2>1
<1> HIDE DEF s, t
<1> DEFINE u == s \o t
<1>4. /\ u \in Seq(S) /\ Len(u) = Len(list)
      /\ \A i \in 1..at : u[i] = s[i]
      /\ \A i \in (at + 1)..Len(list) : u[i] = t[i - at]
  BY <1>1, <1>2, <1>3
<1> HIDE DEF u
<1>5. \A i \in (at + 1)..Len(list) : i - at \in 1..(Len(list) - at) /\ at + (i - at) = i
  BY <1>1
<1>6. \A i \in 1..Len(list) : i \in 1..at \/ i \in (at + 1)..Len(list)
  BY <1>1
<1>7. \A i \in 1..Len(list) : u[i] = list[i]
  BY <1>2, <1>3, <1>4, <1>5, <1>6
<1>8. u = list
  BY <1>4, <1>7
<1> QED
  BY <1>2, <1>3, <1>8 DEF s, t, u

\* A package with a slice is put behind such packages only, any other one
\* behind all of them.
LEMMA PlaceInOrder ==
    ASSUME NEW list \in Seq(Package), NEW p
    PROVE  LET at == LastAhead(list, p)
           IN  /\ at \in 0..Len(list)
               /\ at > 0 => ~Leads(p, list[at])
               /\ \A i \in 1..Len(list) : ~Leads(p, list[i]) => i <= at
<1> DEFINE I == {i \in 1..Len(list) : ~Leads(p, list[i])}
           at == IF I # {} THEN Max(I) ELSE 0
<1>1. LastAhead(list, p) = at
  BY DEF LastAhead, SelectLastInSeq
<1>2. Len(list) \in Nat
  OBVIOUS
<1>3. I # {} => Max(I) \in I /\ \A i \in I : i <= Max(I)
  <2>1. I \in SUBSET (1..Len(list))
    OBVIOUS
  <2> HIDE DEF I
  <2>2. I # {} => FS!Max(I) \in I /\ \A i \in I : i <= FS!Max(I)
    BY <1>2, <2>1, FS!LastPlace
  <2> QED
    BY <2>2 DEF Max, FS!Max
<1>4. at \in 0..Len(list) /\ (at > 0 => ~Leads(p, list[at]))
  BY <1>2, <1>3
<1>5. \A i \in 1..Len(list) : ~Leads(p, list[i]) => i <= at
  BY <1>3
<1> HIDE DEF at
<1> QED
  BY <1>1, <1>4, <1>5

\* If there is a package with a slice, the first one has a slice.
SliceFirst(list) == (\E i \in 1..Len(list) : list[i].slice # {}) => list[1].slice # {}

LEMMA PutOK ==
    ASSUME NEW list \in Seq(Package), NEW p \in Package, SliceFirst(list)
    PROVE  LET new == PutInOrder(list, p)
           IN  /\ new \in Seq(Package) /\ Len(new) = Len(list) + 1
               /\ Total(new) = Total(list) + p.left
               /\ SliceFirst(new)
<1> DEFINE at == LastAhead(list, p)
           s == SubSeq(list, 1, at)
           t == SubSeq(list, at + 1, Len(list))
           new == s \o <<p>> \o t
<1>1. /\ at \in 0..Len(list)
      /\ at > 0 => ~Leads(p, list[at])
      /\ \A i \in 1..Len(list) : ~Leads(p, list[i]) => i <= at
  BY PlaceInOrder
<1>2. PutInOrder(list, p) = new
  BY DEF PutInOrder
<1> HIDE DEF at
<1>3. Len(list) \in Nat /\ HasLeft(Package) /\ p.left \in Nat
  BY DEF HasLeft, Package
<1>4. /\ s \in Seq(Package) /\ Len(s) = at /\ t \in Seq(Package) /\ Len(t) = Len(list) - at
      /\ \A i \in 1..at : s[i] = list[i]
      /\ list = s \o t
  BY <1>1, SplitSeq
<1> HIDE DEF s, t
<1>5. <<p>> \in Seq(Package) /\ s \o <<p>> \in Seq(Package)
  BY <1>4
<1>6. Total(new) = Total(list) + p.left
  <2>1. /\ Total(list) = Total(s) + Total(t)
        /\ Total(s \o <<p>>) = Total(s) + p.left
        /\ Total(new) = Total(s \o <<p>>) + Total(t)
    BY <1>3, <1>4, <1>5, TotalOfBoth, TotalOfOne
  <2>2. Total(s) \in Nat /\ Total(t) \in Nat
    BY <1>3, <1>4, TotalFrom
  <2> HIDE DEF new
  <2> QED
    BY <1>3, <2>1, <2>2
<1>7. /\ new \in Seq(Package) /\ Len(new) = Len(list) + 1
      /\ new[at + 1] = p
      /\ \A i \in 1..at : new[i] = s[i]
      /\ \A i \in 1..Len(new) : i = at + 1 \/ \E j \in 1..Len(list) : new[i] = list[j]
  <2>1. /\ new \in Seq(Package) /\ Len(new) = Len(list) + 1
        /\ new[at + 1] = p /\ \A i \in 1..at : new[i] = s[i]
    BY <1>1, <1>3, <1>4, <1>5
  <2>2. ASSUME NEW i \in 1..Len(new), i # at + 1
        PROVE  \E j \in 1..Len(list) : new[i] = list[j]
    <3>1. CASE i <= at
      BY <1>1, <1>3, <1>4, <2>1, <3>1
    <3>2. CASE i > at + 1
      <4>1. new[i] = t[i - (at + 1)] /\ list[i - 1] = t[(i - 1) - at]
        BY <1>1, <1>3, <1>4, <1>5, <2>1, <3>2
      <4>2. (i - 1) - at = i - (at + 1) /\ i - 1 \in 1..Len(list)
        BY <1>1, <1>3, <2>1, <3>2
      <4> QED
        BY <4>1, <4>2
    <3> QED
      BY <1>1, <2>1, <2>2, <3>1, <3>2
  <2> QED
    BY <2>1, <2>2
<1> HIDE DEF new
<1>8. SliceFirst(new)
  <2>1. CASE p.slice # {}
    <3>1. CASE at = 0
      BY <1>7, <2>1, <3>1 DEF SliceFirst
    <3>2. CASE at > 0
      <4>1. list[at].slice # {}
        BY <1>1, <2>1, <3>2 DEF Leads
      <4>2. list[1].slice # {} /\ new[1] = list[1]
        BY <1>1, <1>3, <1>4, <1>7, <3>2, <4>1 DEF SliceFirst
      <4> QED
        BY <4>2 DEF SliceFirst
    <3> QED
      BY <1>1, <3>1, <3>2
  <2>2. CASE p.slice = {} /\ list # <<>> /\ list[1].slice # {}
    <3>1. 1 \in 1..Len(list) /\ ~Leads(p, list[1])
      BY <1>3, <2>2 DEF Leads
    <3>2. at >= 1
      BY <1>1, <3>1
    <3> QED
      BY <1>1, <1>3, <1>4, <1>7, <2>2, <3>2 DEF SliceFirst
  <2>3. CASE p.slice = {} /\ (list = <<>> \/ list[1].slice = {})
    <3>1. \A j \in 1..Len(list) : list[j].slice = {}
      BY <2>3 DEF SliceFirst
    <3>2. \A i \in 1..Len(new) : new[i].slice = {}
      BY <1>7, <2>3, <3>1
    <3> QED
      BY <3>2 DEF SliceFirst
  <2> QED
    BY <2>1, <2>2, <2>3
<1> QED
  BY <1>2, <1>6, <1>7, <1>8

LEMMA InOrderOK ==
    ASSUME NEW list \in Seq(Package)
    PROVE  LET new == InOrder(list)
           IN  /\ new \in Seq(Package) /\ Len(new) = Len(list)
               /\ Total(new) = Total(list)
               /\ SliceFirst(new)
<1>0. Len(list) \in Nat /\ \A k \in 1..Len(list) : list[k] \in Package
  OBVIOUS
<1>1. PICK A : FS!Trace(A, 0, 0, list) /\ FS!Fold(0, 0, list) = A[Len(list)]
  BY FS!FoldHasTrace
<1> DEFINE Good(n, a) == Len(a) = n /\ Total(a) = A[n] /\ SliceFirst(a)
           R == {x \in Nat \X Seq(Package) : Good(x[1], x[2])}
<1>2. \A n \in Nat, a \in Seq(Package) : <<n, a>> \in R <=> Good(n, a)
  <2> HIDE DEF Good
  <2> QED
    OBVIOUS
<1>3. \A n, a : <<n, a>> \in R => n \in Nat /\ a \in Seq(Package)
  <2> HIDE DEF Good
  <2> QED
    OBVIOUS
<1>4. <<0, <<>>>> \in R
  <2>1. <<>> \in Seq(Package) /\ Len(<<>>) = 0 /\ A[0] = 0
    BY <1>1 DEF FS!Trace
  <2>2. Total(<<>>) = 0
    BY TotalIsFold, FS!FoldEmpty
  <2>3. SliceFirst(<<>>)
    BY <2>1 DEF SliceFirst
  <2>4. Good(0, <<>>)
    BY <2>1, <2>2, <2>3
  <2> HIDE DEF Good, R
  <2> QED
    BY <1>2, <2>1, <2>4
<1>5. ASSUME NEW k \in 1..Len(list), NEW a, <<k - 1, a>> \in R
      PROVE  <<k, OrderStep(0, a, list[k])>> \in R
  <2> DEFINE new == PutInOrder(a, list[k])
  <2>1. a \in Seq(Package) /\ Good(k - 1, a) /\ list[k] \in Package
        /\ k \in Nat /\ k - 1 \in Nat
    <3> HIDE DEF Good, R
    <3> QED
      BY <1>0, <1>2, <1>3, <1>5
  <2>2. A[k] = A[k - 1] + list[k].left
    BY <1>1 DEF FS!Trace, SumStep, AddLeft
  <2>3. /\ new \in Seq(Package) /\ Len(new) = Len(a) + 1
        /\ Total(new) = Total(a) + list[k].left /\ SliceFirst(new)
    BY <2>1, PutOK
  <2> HIDE DEF new
  <2>4. Good(k, new)
    BY <2>1, <2>2, <2>3
  <2> HIDE DEF Good, R
  <2>5. <<k, new>> \in R
    BY <1>2, <2>1, <2>3, <2>4
  <2> QED
    BY <2>5 DEF OrderStep, new
<1> HIDE DEF R
<1>6. <<Len(list), FO!Fold(0, <<>>, list)>> \in R
  BY <1>4, <1>5, FO!FoldInvariant
<1>7. <<Len(list), InOrder(list)>> \in R
  BY <1>6, InOrderIsFold
<1>8. InOrder(list) \in Seq(Package) /\ Good(Len(list), InOrder(list))
  <2> HIDE DEF Good
  <2> QED
    BY <1>2, <1>3, <1>7
<1> QED
  BY <1>1, <1>8, TotalIsFold

Facts == [ends : BOOLEAN, refills : BOOLEAN, slice : SUBSET Nat]

LEMMA FactsOK ==
    ASSUME NEW rows \in Seq(FreeRow)
    PROVE  freePackageFacts(rows) \in [Codes \cup {NoCode} -> Facts]
<1> DEFINE T == [Codes \cup {NoCode} -> Facts]
           R == Nat \X T
<1>1. <<0, NoneKnown>> \in R
  BY DEF NoneKnown, NoFacts, Facts
<1>2. ASSUME NEW facts \in T, NEW row \in FreeRow
      PROVE  AddFacts(facts, row) \in T
  <2> DEFINE old == facts[row.code]
             new == [ends    |-> old.ends \/ row.ends,
                     refills |-> old.refills \/ row.refills,
                     slice   |-> IF row.slice # {} THEN row.slice ELSE old.slice]
  <2>1. row.code \in Codes \cup {NoCode} /\ row.slice \in SUBSET Nat
    BY DEF FreeRow
  <2>2. old \in Facts
    BY <2>1
  <2>3. new \in Facts
    BY <2>1, <2>2 DEF Facts
  <2>4. AddFacts(facts, row) = IF row.code = NoCode THEN facts
                               ELSE [facts EXCEPT ![row.code] = new]
    BY DEF AddFacts
  <2> HIDE DEF new
  <2> QED
    BY <2>1, <2>3, <2>4
<1> HIDE DEF T
<1>3. ASSUME NEW k \in 1..Len(rows), NEW a, <<k - 1, a>> \in R
      PROVE  <<k, FactStep(0, a, rows[k])>> \in R
  <2>1. a \in T /\ rows[k] \in FreeRow /\ k \in Nat
    BY <1>3
  <2> QED
    BY <1>2, <2>1 DEF FactStep
<1> HIDE DEF R
<1>4. <<Len(rows), FF!Fold(0, NoneKnown, rows)>> \in R
  BY <1>1, <1>3, FF!FoldInvariant
<1> QED
  BY <1>4, FactsAreFold DEF R, T

LEMMA PackageOK ==
    ASSUME NEW row \in SummaryRow, NEW facts \in [Codes \cup {NoCode} -> Facts]
    PROVE  PackageOf(row, facts) \in Package /\ PackageOf(row, facts).left = row.left
<1> DEFINE known == facts[row.code]
<1>1. row.code \in Codes \cup {NoCode} /\ row.left \in Nat /\ row.total \in Nat
  BY DEF SummaryRow
<1>2. known \in Facts
  BY <1>1
<1>3. PackageOf(row, facts) =
          [code |-> row.code, left |-> row.left, total |-> row.total,
           free |-> row.code \in FreeCodes,
           ends |-> known.ends, refills |-> known.refills, slice |-> known.slice]
  BY DEF PackageOf
<1>4. known.ends \in BOOLEAN /\ known.refills \in BOOLEAN /\ known.slice \in SUBSET Nat
  BY <1>2 DEF Facts
<1> HIDE DEF known
<1> QED
  BY <1>1, <1>3, <1>4 DEF Package

LEMMA EmptySequence ==
    ASSUME NEW S
    PROVE  <<>> \in Seq(S) /\ Len(<<>>) = 0
  OBVIOUS

LEMMA FailedOK ==
    ASSUME NEW error \in {"", "expired", "fails"}
    PROVE  Failed(error) \in Account /\ Failed(error).error = error
                                     /\ Failed(error).packages = <<>>
<1>1. <<>> \in Seq(Package)
  BY EmptySequence
<1> QED
  BY <1>1 DEF Failed, Account

\* A balance agrees with the reply it was made of.
Agrees(account, reply) ==
    /\ IF account.error # "" THEN reply.summary = account.error
       ELSE /\ reply.summary = "ok"
            /\ Len(reply.rows) = Len(account.packages)
            /\ account.left = Total(reply.rows)
            /\ account.left = Total(account.packages)
    /\ SliceFirst(account.packages)

LEMMA SequenceOf ==
    ASSUME NEW S, NEW s \in Seq(S)
    PROVE  /\ Len(s) \in Nat /\ DOMAIN s = 1..Len(s)
           /\ \A i \in 1..Len(s) : s[i] \in S
  OBVIOUS

LEMMA IsSequence ==
    ASSUME NEW n \in Nat, NEW S, NEW g, g = [i \in 1..n |-> g[i]],
           \A i \in 1..n : g[i] \in S
    PROVE  g \in Seq(S) /\ Len(g) = n
<1>1. [i \in 1..n |-> g[i]] \in Seq(S) /\ Len([i \in 1..n |-> g[i]]) = n
  OBVIOUS
<1> QED
  BY <1>1

LEMMA FetchedOK ==
    ASSUME NEW reply \in Reply
    PROVE  /\ fetchQuotaFrom(reply) \in Account
           /\ Agrees(fetchQuotaFrom(reply), reply)
<1> DEFINE rows == reply.rows
           facts == freePackageFacts(reply.free)
           list == [i \in DOMAIN rows |-> PackageOf(rows[i], facts)]
           plan == IF reply.plan # "" THEN reply.plan ELSE IF reply.paid THEN "paid" ELSE "free"
           account == [error |-> "", plan |-> plan, left |-> Total(rows),
                       packages |-> InOrder(list)]
<1>1. /\ rows \in Seq(SummaryRow) /\ reply.free \in Seq(FreeRow)
      /\ reply.summary \in {"ok", "expired", "fails"}
      /\ reply.plan \in {"", "free", "paid"} /\ reply.paid \in BOOLEAN
  BY DEF Reply
<1>2. CASE reply.summary # "ok"
  <2>1. fetchQuotaFrom(reply) = Failed(reply.summary)
    BY <1>2 DEF fetchQuotaFrom
  <2>2. reply.summary \in {"expired", "fails"} /\ reply.summary # ""
    BY <1>1, <1>2
  <2>3. SliceFirst(<<>>)
    BY DEF SliceFirst
  <2> QED
    BY <2>1, <2>2, <2>3, FailedOK DEF Agrees
<1>3. CASE reply.summary = "ok"
  <2>1. facts \in [Codes \cup {NoCode} -> Facts]
    BY <1>1, FactsOK
  <2>a. rows \in Seq(SummaryRow)
    BY <1>1
  <2>b. HasLeft(SummaryRow) /\ HasLeft(Package)
    BY DEF HasLeft, SummaryRow, Package
  <2> HIDE DEF facts, rows
  <2>2. /\ Len(rows) \in Nat /\ DOMAIN rows = 1..Len(rows)
        /\ \A i \in 1..Len(rows) : rows[i] \in SummaryRow
    BY <2>a, SequenceOf
  <2>3. /\ list \in Seq(Package) /\ Len(list) = Len(rows)
        /\ \A i \in 1..Len(rows) : list[i].left = rows[i].left
    <3>1. \A i \in 1..Len(rows) : list[i] = PackageOf(rows[i], facts)
      BY <2>2
    <3>2. list = [i \in 1..Len(rows) |-> list[i]]
      BY <2>2
    <3> HIDE DEF list
    <3>3. \A i \in 1..Len(rows) : list[i] \in Package /\ list[i].left = rows[i].left
      BY <2>1, <2>2, <3>1, PackageOK
    <3> QED
      BY <2>2, <3>2, <3>3, IsSequence
  <2> HIDE DEF list
  <2>4. Total(list) = Total(rows)
    BY <2>a, <2>b, <2>3, TotalOfSame
  <2>5. /\ InOrder(list) \in Seq(Package) /\ Len(InOrder(list)) = Len(rows)
        /\ Total(InOrder(list)) = Total(rows) /\ SliceFirst(InOrder(list))
    BY <2>3, <2>4, InOrderOK
  <2>6. Total(rows) \in Nat
    <3>1. HasLeft(SummaryRow)
      BY DEF HasLeft, SummaryRow
    <3> QED
      BY <1>1, <3>1, TotalFrom
  <2>7. fetchQuotaFrom(reply) = account
    BY <1>3 DEF fetchQuotaFrom, list, facts, rows
  <2>8. plan \in {"", "free", "paid"}
    BY <1>1
  <2> HIDE DEF plan
  <2>9. /\ account \in Account /\ account.error = "" /\ account.left = Total(rows)
        /\ account.packages = InOrder(list)
    BY <2>5, <2>6, <2>8 DEF Account
  <2> HIDE DEF account
  <2> QED
    BY <1>3, <2>5, <2>7, <2>9 DEF Agrees, rows
<1> QED
  BY <1>2, <1>3

\* The first package with a slice is the first package.
LEMMA SliceLeads ==
    ASSUME NEW account, account.packages \in Seq(Package), SliceFirst(account.packages),
           NEW i \in DOMAIN account.packages, account.packages[i].slice # {}
    PROVE  refillingPackage(account) = 1
<1> DEFINE list == account.packages
           I == {k \in 1..Len(list) : list[k].slice # {}}
<1>1. 1 \in I /\ \A k \in I : 1 <= k
  BY DEF SliceFirst
<1>2. Min(I) = 1
  <2>1. \A m \in I : (\A k \in I : m <= k) => m = 1
    BY <1>1
  <2> HIDE DEF I
  <2> QED
    BY <1>1, <2>1 DEF Min
<1>3. SelectInSeq(list, LAMBDA p : p.slice # {}) = IF I # {} THEN Min(I) ELSE 0
  BY DEF SelectInSeq
<1> QED
  BY <1>1, <1>2, <1>3 DEF refillingPackage

-----------------------------------------------------------------------------
(***************************************************************************)
(* Where a balance comes from: all that the caches and the calls hold was  *)
(* made of a reply of upstream.  With it go the shapes that the ages above *)
(* did not need.                                                           *)
(***************************************************************************)
Genuine(r) ==
    IF r.read THEN \E reply \in Replies : r.account = fetchQuotaFrom(reply)
    ELSE r = Unread

AllGenuine(rs) ==
    /\ DOMAIN rs \subseteq Credentials
    /\ \A c \in DOMAIN rs : Genuine(rs[c])

CallMade(k) ==
    /\ k.step \in Steps /\ k.about \in Credentials \cup {"page"}
    /\ k.step = "fetch" => k.about \in Credentials
    /\ k.step \in {"idle", "fetch"} => DOMAIN k.readings = {}
    /\ AllGenuine(k.readings)

EntryMade(entry) ==
    /\ Genuine(entry.reading)
    /\ entry.left = 0 => entry.reading = Unread

PageMade(p) ==
    /\ AllGenuine(p.readings)
    /\ p.left = 0 => DOMAIN p.readings = {}

KInv ==
    /\ truth \in [Credentials -> Replies]
    /\ \A c \in Credentials : EntryMade(balances[c])
    /\ PageMade(page)
    /\ \A t \in Callers : CallMade(call[t])

LEMMA NoneMade ==
    /\ AllGenuine(NoReading) /\ Genuine(Unread) /\ CallMade(Idle)
    /\ EntryMade(NoEntry) /\ PageMade(NoPage)
<1>1. Genuine(Unread)
  BY DEF Genuine, Unread
<1>2. DOMAIN NoReading = {}
  BY DEF NoReading
<1>3. AllGenuine(NoReading)
  BY <1>2 DEF AllGenuine
<1>4. CallMade(Idle)
  BY <1>2, <1>3 DEF CallMade, Idle, Steps
<1>5. EntryMade(NoEntry)
  BY <1>1 DEF EntryMade, NoEntry
<1>6. PageMade(NoPage)
  BY <1>2, <1>3 DEF PageMade, NoPage
<1> QED
  BY <1>1, <1>3, <1>4, <1>5, <1>6

LEMMA OneMade ==
    ASSUME NEW c \in Credentials, NEW r, Genuine(r)
    PROVE  AllGenuine([x \in {c} |-> r])
<1> DEFINE rs == [x \in {c} |-> r]
<1>1. DOMAIN rs = {c} /\ \A x \in {c} : rs[x] = r
  OBVIOUS
<1> HIDE DEF rs
<1>2. AllGenuine(rs)
  BY <1>1 DEF AllGenuine
<1> QED
  BY <1>2 DEF rs

LEMMA ReadNowMade ==
    ASSUME KInv, NEW c \in Credentials
    PROVE  Genuine(ReadNow(c))
<1>1. truth[c] \in Replies
  BY DEF KInv
<1>2. fetchQuota[truth[c]] = fetchQuotaFrom(truth[c])
  BY <1>1 DEF fetchQuota
<1>3. ReadNow(c).read /\ ReadNow(c).account = fetchQuotaFrom(truth[c])
  BY <1>2 DEF ReadNow
<1> QED
  BY <1>1, <1>3 DEF Genuine

LEMMA BecomingMade ==
    ASSUME IInv, KInv, NEW t \in Callers, NEW k, CallMade(k), Becomes(t, k)
    PROVE  \A u \in Callers : CallMade(call'[u])
<1>1. call' = [call EXCEPT ![t] = k] /\ DOMAIN call = Callers
  BY DEF Becomes, IInv
<1>2. \A u \in Callers : call'[u] = IF u = t THEN k ELSE call[u]
  BY <1>1
<1> QED
  BY <1>2 DEF KInv

LEMMA CachesStayMade ==
    ASSUME IInv, KInv, NEW t \in Callers, NEW k, CallMade(k), Becomes(t, k),
           UNCHANGED <<truth, balances, page>>
    PROVE  KInv'
<1>1. \A u \in Callers : CallMade(call'[u])
  BY BecomingMade
<1> QED
  BY <1>1 DEF KInv

LEMMA LookUpMade ==
    ASSUME IInv, KInv, NEW t \in Callers, NEW c \in Credentials, LookUp(t, c)
    PROVE  KInv'
<1>1. CASE balances[c].left > 0
  <2> DEFINE r == balances[c].reading
             rs == [x \in {c} |-> r]
             k == [Idle EXCEPT !.step = "answer", !.about = c, !.readings = rs]
  <2>1. Genuine(r) /\ Dated(r)
    BY <1>1 DEF KInv, EntryMade, IInv, EntryOK
  <2>2. AllGenuine(rs) /\ AllDated(rs)
    BY <2>1, OneMade, OneReading
  <2>3. Becomes(t, k) /\ UNCHANGED <<truth, balances, page>>
    BY <1>1 DEF LookUp
  <2> HIDE DEF rs, r
  <2>4. k \in Changed(Idle, "answer", c, rs)
    BY IdleOK, Unchanged DEF Changed
  <2>5. k.step = "answer" /\ k.about = c /\ k.readings = rs
    BY <2>2, <2>4, IdleOK, ChangedOK
  <2> HIDE DEF k
  <2>6. CallMade(k)
    BY <2>2, <2>5 DEF CallMade, Steps
  <2> QED
    BY <2>3, <2>6, CachesStayMade
<1>2. CASE ~(balances[c].left > 0)
  <2> DEFINE k == [Idle EXCEPT !.step = "fetch", !.about = c]
  <2>1. k \in Changed(Idle, "fetch", c, NoReading)
    BY IdleOK, Unchanged DEF Changed
  <2>2. AllDated(NoReading) /\ DOMAIN NoReading = {}
    BY IdleOK DEF CallTyped, NoReading
  <2>3. Becomes(t, k) /\ UNCHANGED <<truth, balances, page>>
    BY <1>2 DEF LookUp
  <2> HIDE DEF k
  <2>4. k.step = "fetch" /\ k.about = c /\ k.readings = NoReading
    BY <2>1, <2>2, IdleOK, ChangedOK
  <2>5. CallMade(k)
    BY <2>2, <2>4, NoneMade DEF CallMade, Steps
  <2> QED
    BY <2>3, <2>5, CachesStayMade
<1> QED
  BY <1>1, <1>2

LEMMA FetchMade ==
    ASSUME IInv, KInv, NEW t \in Callers, Fetch(t)
    PROVE  KInv'
<1> DEFINE c == call[t].about
           r == ReadNow(c)
           rs == [x \in {c} |-> r]
           k == [call[t] EXCEPT !.step = "store", !.readings = rs]
<1>1. CallTyped(call[t]) /\ c \in Credentials
  BY DEF IInv, CallOK, KInv, CallMade, Fetch
<1>2. Genuine(r) /\ Dated(r)
  BY <1>1, ReadNowMade, ReadNowOK
<1>3. AllGenuine(rs) /\ AllDated(rs)
  BY <1>1, <1>2, OneMade, OneReading
<1>4. Becomes(t, k) /\ UNCHANGED <<truth, balances, page>>
  BY DEF Fetch
<1> HIDE DEF rs, r
<1>5. k \in Changed(call[t], "store", c, rs)
  BY <1>1, ReadInto
<1>6. k.step = "store" /\ k.about = c /\ k.readings = rs
  BY <1>1, <1>3, <1>5, ChangedOK
<1> HIDE DEF k, c
<1>7. CallMade(k)
  BY <1>1, <1>3, <1>6 DEF CallMade, Steps
<1> QED
  BY <1>4, <1>7, CachesStayMade

\* A call that has read goes on with what it read.
LEMMA MovingMade ==
    ASSUME NEW k, CallTyped(k), CallMade(k), NEW step \in Steps \ {"idle", "fetch"}
    PROVE  CallMade([k EXCEPT !.step = step])
<1> DEFINE n == [k EXCEPT !.step = step]
<1>1. n.step = step /\ n.about = k.about /\ n.readings = k.readings
  BY Moving
<1> HIDE DEF n
<1>2. CallMade(n)
  BY <1>1 DEF CallMade
<1> QED
  BY <1>2 DEF n

LEMMA StoreMade ==
    ASSUME IInv, KInv, NEW t \in Callers, Store(t)
    PROVE  KInv'
<1> DEFINE c == call[t].about
           r == call[t].readings[c]
           entry == [left |-> QuotaTTL, reading |-> r]
           k == [call[t] EXCEPT !.step = "answer"]
<1>1. /\ CallOK(call[t]) /\ CallTyped(call[t]) /\ CallMade(call[t])
      /\ call[t].step = "store" /\ c # "page"
  BY DEF IInv, KInv, CallOK, Store
<1>2. Genuine(r)
  BY <1>1 DEF CallOK, CallMade, AllGenuine
<1>3. /\ Becomes(t, k) /\ UNCHANGED <<truth, page>>
      /\ balances' = [balances EXCEPT ![c] = entry]
  BY DEF Store
<1>4. CallMade(k)
  BY <1>1, MovingMade DEF Steps
<1> HIDE DEF k, r
<1>5. entry.left # 0 /\ entry.reading = r
  BY QuotaAssumption
<1> HIDE DEF entry, c
<1>6. EntryMade(entry)
  BY <1>2, <1>5 DEF EntryMade
<1>7. \A d \in Credentials : balances'[d] = IF d = c THEN entry ELSE balances[d]
  BY <1>3 DEF IInv
<1>8. \A u \in Callers : CallMade(call'[u])
  BY <1>3, <1>4, BecomingMade
<1> QED
  BY <1>3, <1>6, <1>7, <1>8 DEF KInv

LEMMA OpenPageMade ==
    ASSUME IInv, KInv, NEW t \in Callers, NEW force \in BOOLEAN, OpenPage(t, force)
    PROVE  KInv'
<1>1. CASE ~force /\ page.left > 0
  <2> DEFINE rs == page.readings
             e == page.error
             k == [Idle EXCEPT !.step = "answer", !.force = force, !.error = e,
                               !.readings = rs]
  <2>1. AllGenuine(rs) /\ AllDated(rs) /\ e \in BOOLEAN
    BY <1>1 DEF KInv, PageMade, IInv, PageOK
  <2>2. Becomes(t, k) /\ UNCHANGED <<truth, balances, page>>
    BY <1>1 DEF OpenPage
  <2> HIDE DEF rs, e
  <2>3. k \in Changed(Idle, "answer", "page", rs)
    BY <2>1 DEF Changed, Idle
  <2> HIDE DEF k
  <2>4. k.step = "answer" /\ k.about = "page" /\ k.readings = rs
    BY <2>1, <2>3, IdleOK, ChangedOK
  <2>5. CallMade(k)
    BY <2>1, <2>4 DEF CallMade, Steps
  <2> QED
    BY <2>2, <2>5, CachesStayMade
<1>2. CASE ~(~force /\ page.left > 0)
  <2> DEFINE k == [Idle EXCEPT !.step = "list", !.force = force, !.left = QuotaTTL]
  <2>1. Becomes(t, k) /\ UNCHANGED <<truth, balances, page>>
    BY <1>2 DEF OpenPage
  <2>2. k.step = "list" /\ k.about = "page" /\ k.readings = NoReading
    BY DEF Idle
  <2> HIDE DEF k
  <2>3. CallMade(k)
    BY <2>2, NoneMade DEF CallMade, Steps
  <2> QED
    BY <2>1, <2>3, CachesStayMade
<1> QED
  BY <1>1, <1>2

LEMMA ListMade ==
    ASSUME IInv, KInv, NEW t \in Callers,
           ListFails(t) \/ \E listed \in SUBSET Credentials : List(t, listed)
    PROVE  KInv'
<1>1. CallTyped(call[t]) /\ CallMade(call[t])
  BY DEF IInv, CallOK, KInv
<1>2. ASSUME NEW listed \in SUBSET Credentials, List(t, listed)
      PROVE  KInv'
  <2> DEFINE rs == [c \in listed |-> Unread]
             e == (listed = {})
             k == [call[t] EXCEPT !.step = "collect", !.error = e, !.readings = rs]
  <2>1. Dated(Unread)
    BY DEF Dated, Unread
  <2>2. DOMAIN rs = listed /\ IsFunction(rs) /\ \A c \in listed : rs[c] = Unread
    BY DEF IsFunction
  <2>3. Becomes(t, k) /\ UNCHANGED <<truth, balances, page>> /\ e \in BOOLEAN
    BY <1>2 DEF List
  <2> HIDE DEF rs, e
  <2>4. AllDated(rs) /\ AllGenuine(rs)
    BY <2>1, <2>2, NoneMade DEF AllDated, AllGenuine
  <2>5. k \in Changed(call[t], "collect", call[t].about, rs)
    BY <1>1, <2>3, ErrorToo
  <2> HIDE DEF k
  <2>6. k.step = "collect" /\ k.about = call[t].about /\ k.readings = rs
    BY <1>1, <2>4, <2>5, ChangedOK
  <2>7. CallMade(k)
    BY <1>1, <2>4, <2>6 DEF CallMade, Steps
  <2> QED
    BY <2>3, <2>7, CachesStayMade
<1>3. ASSUME ListFails(t)
      PROVE  KInv'
  <2> DEFINE rs == call[t].readings
             m == [call[t] EXCEPT !.step = "store"]
             k == [call[t] EXCEPT !.step = "store", !.error = TRUE]
  <2>1. m \in Changed(call[t], "store", call[t].about, rs)
    BY <1>1, MovingIn
  <2> HIDE DEF m
  <2>2. [m EXCEPT !.error = TRUE] \in Changed(call[t], "store", call[t].about, rs)
    BY <2>1 DEF Changed
  <2>3. k \in Changed(call[t], "store", call[t].about, rs)
    BY <2>2 DEF m
  <2>4. Becomes(t, k) /\ UNCHANGED <<truth, balances, page>>
    BY <1>3 DEF ListFails
  <2>5. AllDated(rs) /\ AllGenuine(rs)
    BY <1>1 DEF CallTyped, CallMade
  <2> HIDE DEF k, rs
  <2>6. k.step = "store" /\ k.about = call[t].about /\ k.readings = rs
    BY <1>1, <2>3, <2>5, ChangedOK
  <2>7. CallMade(k)
    BY <1>1, <2>5, <2>6 DEF CallMade, Steps
  <2> QED
    BY <2>4, <2>7, CachesStayMade
<1> QED
  BY <1>2, <1>3

LEMMA CollectMade ==
    ASSUME IInv, KInv, NEW t \in Callers,
           Collected(t) \/ \E c \in Credentials : Collect(t, c)
    PROVE  KInv'
<1>1. CallTyped(call[t]) /\ CallMade(call[t]) /\ CallOK(call[t])
  BY DEF IInv, CallOK, KInv
<1>2. ASSUME NEW c \in Credentials, Collect(t, c)
      PROVE  KInv'
  <2> DEFINE old == call[t].readings
             r == ReadNow(c)
             rs == [old EXCEPT ![c] = r]
             k == [call[t] EXCEPT !.readings[c] = r]
  <2>1. Genuine(r) /\ Dated(r)
    BY ReadNowMade, ReadNowOK
  <2>2. /\ AllDated(old) /\ AllGenuine(old) /\ call[t].step = "collect"
        /\ call[t].about = "page"
    BY <1>1, <1>2 DEF CallOK, CallTyped, CallMade, Collect
  <2>3. Becomes(t, k) /\ UNCHANGED <<truth, balances, page>>
    BY <1>2 DEF Collect
  <2>4. k \in Changed(call[t], "collect", "page", rs)
    <3>1. call[t] \in Changed(call[t], "collect", "page", old)
      BY <1>1, <2>2, Unchanged
    <3> HIDE DEF r
    <3> QED
      BY <3>1 DEF Changed
  <2>5. /\ IsFunction(rs) /\ DOMAIN rs = DOMAIN old
        /\ \A d \in DOMAIN rs : rs[d] = IF d = c THEN r ELSE old[d]
    BY DEF IsFunction
  <2> HIDE DEF k, rs, r
  <2>6. AllDated(rs) /\ AllGenuine(rs)
    BY <2>1, <2>2, <2>5 DEF AllDated, AllGenuine
  <2>7. k.step = "collect" /\ k.about = "page" /\ k.readings = rs
    BY <1>1, <2>4, <2>6, ChangedOK
  <2>8. CallMade(k)
    BY <2>6, <2>7 DEF CallMade, Steps
  <2> QED
    BY <2>3, <2>8, CachesStayMade
<1>3. ASSUME Collected(t)
      PROVE  KInv'
  <2>1. /\ Becomes(t, [call[t] EXCEPT !.step = "store"])
        /\ UNCHANGED <<truth, balances, page>>
    BY <1>3 DEF Collected
  <2>2. CallMade([call[t] EXCEPT !.step = "store"])
    BY <1>1, MovingMade DEF Steps
  <2> QED
    BY <2>1, <2>2, CachesStayMade
<1> QED
  BY <1>2, <1>3

LEMMA StorePageMade ==
    ASSUME IInv, KInv, NEW t \in Callers, StorePage(t)
    PROVE  KInv'
<1> DEFINE k == [call[t] EXCEPT !.step = "answer"]
           p == [left |-> call[t].left, error |-> call[t].error,
                 readings |-> call[t].readings]
<1>1. CallTyped(call[t]) /\ CallMade(call[t])
  BY DEF IInv, CallOK, KInv
<1>2. CallMade(k) /\ Becomes(t, k) /\ UNCHANGED <<truth, balances>>
  BY <1>1, MovingMade DEF StorePage, Steps
<1>3. page' = IF call[t].left = 0 THEN NoPage ELSE p
  BY DEF StorePage
<1>4. p.left = call[t].left /\ p.readings = call[t].readings
  OBVIOUS
<1> HIDE DEF k, p
<1>5. PageMade(page')
  BY <1>1, <1>3, <1>4, NoneMade DEF PageMade, CallMade
<1>6. \A u \in Callers : CallMade(call'[u])
  BY <1>2, BecomingMade
<1> QED
  BY <1>2, <1>5, <1>6 DEF KInv

LEMMA ElderKeeps ==
    ASSUME NEW r, Dated(r)
    PROVE  LET n == [r EXCEPT !.age = @ + 1]
           IN  n.account = r.account /\ n.read = r.read
<1> DEFINE n == [r EXCEPT !.age = @ + 1]
<1>1. n = [account |-> r.account, age |-> r.age + 1, read |-> r.read]
  BY DEF Dated
<1> HIDE DEF n
<1>2. n.account = r.account /\ n.read = r.read
  BY <1>1
<1> QED
  BY <1>2 DEF n

\* Growing older changes nothing about where a balance comes from.
LEMMA ElderMade ==
    ASSUME NEW r, Dated(r), Genuine(r), r.read
    PROVE  Genuine([r EXCEPT !.age = @ + 1])
<1> DEFINE n == [r EXCEPT !.age = @ + 1]
<1>1. n.account = r.account /\ n.read = r.read
  BY ElderKeeps
<1> HIDE DEF n
<1>3. Genuine(n)
  BY <1>1 DEF Genuine
<1> QED
  BY <1>3 DEF n

LEMMA OlderMade ==
    ASSUME NEW rs, AllDated(rs), AllGenuine(rs)
    PROVE  AllGenuine(Older(rs)) /\ DOMAIN Older(rs) = DOMAIN rs
<1> DEFINE o(r) == IF r.read THEN [r EXCEPT !.age = @ + 1] ELSE r
<1>1. ASSUME NEW r, Dated(r), Genuine(r)
      PROVE  Genuine(o(r))
  BY <1>1, ElderMade
<1>2. Older(rs) = [c \in DOMAIN rs |-> o(rs[c])]
  BY DEF Older
<1> HIDE DEF o
<1>3. DOMAIN Older(rs) = DOMAIN rs /\ \A c \in DOMAIN rs : Older(rs)[c] = o(rs[c])
  BY <1>2
<1> QED
  BY <1>1, <1>3 DEF AllGenuine, AllDated

LEMMA AgedMade ==
    ASSUME NEW entry, EntryOK(entry), EntryMade(entry)
    PROVE  EntryMade(Aged(entry))
<1>1. CASE entry.left <= 1
  BY <1>1, NoneMade DEF Aged
<1>2. CASE ~(entry.left <= 1)
  <2> DEFINE old == [entry.reading EXCEPT !.age = @ + 1]
             e == [left |-> entry.left - 1, reading |-> old]
  <2>1. entry.left \in 2..QuotaTTL /\ Dated(entry.reading) /\ entry.reading.read
    BY <1>2, QuotaAssumption DEF EntryOK
  <2>2. Genuine(old)
    BY <2>1, ElderMade DEF EntryMade
  <2>3. Aged(entry) = e
    BY <1>2 DEF Aged
  <2> HIDE DEF old
  <2>4. e.left # 0 /\ e.reading = old
    BY <2>1, QuotaAssumption
  <2> HIDE DEF e
  <2> QED
    BY <2>2, <2>3, <2>4 DEF EntryMade
<1> QED
  BY <1>1, <1>2

LEMMA CallAgesMade ==
    ASSUME NEW k, CallTyped(k), CallMade(k)
    PROVE  CallMade([k EXCEPT !.taken = @ + 1, !.left = Down(@), !.readings = Older(@)])
<1> DEFINE n == [k EXCEPT !.taken = @ + 1, !.left = Down(@), !.readings = Older(@)]
<1>1. n.step = k.step /\ n.about = k.about /\ n.readings = Older(k.readings)
  BY DEF CallTyped
<1>2. AllGenuine(Older(k.readings)) /\ DOMAIN Older(k.readings) = DOMAIN k.readings
  BY OlderMade DEF CallTyped, CallMade
<1> HIDE DEF n
<1>3. CallMade(n)
  BY <1>1, <1>2 DEF CallMade
<1> QED
  BY <1>3 DEF n

LEMMA TickMade ==
    ASSUME IInv, KInv, Tick
    PROVE  KInv'
<1>1. ASSUME NEW c \in Credentials
      PROVE  EntryMade(balances'[c])
  <2>1. balances'[c] = Aged(balances[c])
    BY DEF Tick
  <2> QED
    BY <2>1, AgedMade DEF IInv, KInv
<1>2. ASSUME NEW t \in Callers
      PROVE  CallMade(call'[t])
  <2>1. call'[t] = IF call[t].step = "idle" THEN Idle
                   ELSE [call[t] EXCEPT !.taken = @ + 1, !.left = Down(@),
                                        !.readings = Older(@)]
    BY DEF Tick
  <2>2. CallTyped(call[t]) /\ CallMade(call[t])
    BY DEF IInv, CallOK, KInv
  <2>3. CallMade([call[t] EXCEPT !.taken = @ + 1, !.left = Down(@), !.readings = Older(@)])
    BY <2>2, CallAgesMade
  <2> QED
    BY <2>1, <2>3, NoneMade
<1>3. PageMade(page')
  <2>1. CASE page.left <= 1
    BY <2>1, NoneMade DEF Tick
  <2>2. CASE ~(page.left <= 1)
    <3> DEFINE p == [page EXCEPT !.left = @ - 1, !.readings = Older(@)]
    <3>1. /\ page.left \in 2..QuotaTTL /\ AllDated(page.readings)
          /\ page = [left |-> page.left, error |-> page.error, readings |-> page.readings]
      BY <2>2, QuotaAssumption DEF IInv, PageOK
    <3>2. page' = p
      BY <2>2 DEF Tick
    <3>3. p.left = page.left - 1 /\ p.readings = Older(page.readings)
      BY <3>1
    <3> HIDE DEF p
    <3>4. AllGenuine(p.readings) /\ p.left # 0
      BY <3>1, <3>3, OlderMade, QuotaAssumption DEF KInv, PageMade
    <3> QED
      BY <3>2, <3>4 DEF PageMade
  <2> QED
    BY <2>1, <2>2
<1> QED
  BY <1>1, <1>2, <1>3 DEF Tick, KInv

LEMMA InitiallyMade == Init => KInv
<1> SUFFICES ASSUME Init
             PROVE  KInv
  OBVIOUS
<1>1. \A c \in Credentials : balances[c] = NoEntry
  BY DEF Init
<1>2. \A t \in Callers : call[t] = Idle
  BY DEF Init
<1> QED
  BY <1>1, <1>2, NoneMade DEF Init, KInv

LEMMA PreservedMade == IInv /\ KInv /\ [Next]_vars => KInv'
<1> SUFFICES ASSUME IInv, KInv, [Next]_vars
             PROVE  KInv'
  OBVIOUS
<1>1. ASSUME NEW t \in Callers, Answer(t)
      PROVE  KInv'
  BY <1>1, NoneMade, CachesStayMade DEF Answer
<1>2. ASSUME NEW c \in Credentials, NEW reply \in Replies, Change(c, reply)
      PROVE  KInv'
  <2>1. truth' \in [Credentials -> Replies]
    BY <1>2 DEF Change, KInv
  <2> QED
    BY <1>2, <2>1 DEF Change, KInv
<1>3. CASE UNCHANGED vars
  BY <1>3 DEF vars, KInv
<1> QED
  BY <1>1, <1>2, <1>3, LookUpMade, FetchMade, StoreMade, OpenPageMade, ListMade,
     CollectMade, StorePageMade, TickMade
     DEF Next, CallStep

LEMMA Provenance == Spec => [](IInv /\ KInv)
<1> QED
  BY Initially, InitiallyMade, Preserved, PreservedMade, PTL DEF Spec

LEMMA GenuineReading ==
    ASSUME NEW r, Genuine(r), Dated(r), r.age \in Ages
    PROVE  r \in Reading
<1>1. r.account \in Account
  <2>1. ASSUME NEW reply \in Replies
        PROVE  fetchQuotaFrom(reply) \in Account
    BY FetchedOK, QuotaAssumption
  <2>2. Failed("") \in Account
    BY FailedOK
  <2>3. Unread.account = Failed("")
    BY DEF Unread
  <2> QED
    BY <2>1, <2>2, <2>3 DEF Genuine
<1> QED
  BY <1>1 DEF Dated, Reading

LEMMA TypeImplied == IInv /\ KInv => TypeOK
<1> SUFFICES ASSUME IInv, KInv
             PROVE  TypeOK
  OBVIOUS
<1>0. /\ QuotaTTL \in Nat \ {0} /\ FetchMax \in Nat
      /\ Ages = 0..(QuotaTTL + 2 * FetchMax)
  BY QuotaAssumption DEF Ages
<1>1. Unread \in Reading
  <2>1. Dated(Unread) /\ Unread.age = 0
    BY DEF Dated, Unread
  <2>2. 0 \in Ages
    BY <1>0
  <2> QED
    BY <2>1, <2>2, NoneMade, GenuineReading
<1>2. ASSUME NEW c \in Credentials
      PROVE  balances[c].left \in 0..QuotaTTL /\ balances[c].reading \in Reading
  <2>1. EntryOK(balances[c]) /\ EntryMade(balances[c])
    BY DEF IInv, KInv
  <2>2. CASE balances[c].left = 0
    BY <1>1, <2>1, <2>2 DEF EntryOK, EntryMade
  <2>3. CASE balances[c].left > 0
    <3> DEFINE r == balances[c].reading
    <3>1. Dated(r) /\ Genuine(r) /\ r.age + balances[c].left <= QuotaTTL + FetchMax
      BY <2>1, <2>3 DEF EntryOK, EntryMade
    <3>2. r.age \in Nat /\ balances[c].left \in 1..QuotaTTL
      BY <2>1, <2>3, <3>1 DEF Dated, EntryOK
    <3> HIDE DEF r
    <3>3. r.age \in Ages
      BY <1>0, <3>1, <3>2
    <3>4. r \in Reading
      BY <3>1, <3>3, GenuineReading
    <3> QED
      BY <3>2, <3>4 DEF r
  <2> QED
    BY <1>0, <2>1, <2>2, <2>3 DEF EntryOK
<1>3. /\ page.left \in 0..QuotaTTL /\ page.error \in BOOLEAN /\ IsReadings(page.readings)
  <2>1. PageOK(page) /\ PageMade(page)
    BY DEF IInv, KInv
  <2>2. page.left \in 0..QuotaTTL /\ page.error \in BOOLEAN
    BY <2>1 DEF PageOK
  <2>3. ASSUME NEW c \in DOMAIN page.readings
        PROVE  page.readings[c] \in Reading
    <3> DEFINE r == page.readings[c]
    <3>1. page.left > 0
      BY <1>0, <2>1, <2>2 DEF PageMade
    <3>2. Dated(r) /\ Genuine(r) /\ r.age + page.left <= QuotaTTL
      BY <2>1, <3>1 DEF PageOK, AllDated, PageMade, AllGenuine
    <3>3. r.age \in Nat
      BY <3>2 DEF Dated
    <3> HIDE DEF r
    <3>4. r.age \in Ages
      BY <1>0, <2>2, <3>2, <3>3
    <3>5. r \in Reading
      BY <3>2, <3>4, GenuineReading
    <3> QED
      BY <3>5 DEF r
  <2> QED
    BY <2>1, <2>2, <2>3 DEF IsReadings, PageMade, AllGenuine
<1>4. ASSUME NEW t \in Callers
      PROVE  /\ call[t].step \in Steps /\ call[t].about \in Credentials \cup {"page"}
             /\ call[t].taken \in 0..FetchMax /\ call[t].left \in 0..QuotaTTL
             /\ call[t].force \in BOOLEAN /\ call[t].error \in BOOLEAN
             /\ IsReadings(call[t].readings)
  <2> DEFINE k == call[t]
  <2>1. CallOK(k) /\ CallTyped(k) /\ CallMade(k)
    BY DEF IInv, KInv, CallOK
  <2> HIDE DEF k
  <2>2. k.taken \in 0..FetchMax /\ k.left \in 0..QuotaTTL
    BY <2>1 DEF CallTyped
  <2>3. ASSUME NEW c \in DOMAIN k.readings
        PROVE  k.readings[c] \in Reading
    <3> DEFINE r == k.readings[c]
    <3>1. Dated(r) /\ Genuine(r)
      BY <2>1 DEF CallTyped, AllDated, CallMade, AllGenuine
    <3>2. Own(k, c) \/ Cached(k, c)
      BY <2>1 DEF CallOK, CallMade, Steps
    <3>3. r.age <= k.taken \/ r.age - k.taken < QuotaTTL + FetchMax
      <4>1. Cached(k, c) => \/ r.age - k.taken < QuotaTTL
                            \/ r.age - k.taken < QuotaTTL + FetchMax
        BY DEF Cached
      <4>2. r.age \in Nat
        BY <3>1 DEF Dated
      <4>3. Own(k, c) => r.age <= k.taken
        BY DEF Own
      <4> HIDE DEF r
      <4> QED
        BY <1>0, <2>2, <3>2, <4>1, <4>2, <4>3
    <3>4. r.age \in Nat
      BY <3>1 DEF Dated
    <3> HIDE DEF r
    <3>5. r.age \in Ages
      BY <1>0, <2>2, <3>3, <3>4
    <3>6. r \in Reading
      BY <3>1, <3>5, GenuineReading
    <3> QED
      BY <3>6 DEF r
  <2>4. IsReadings(k.readings)
    BY <2>1, <2>3 DEF IsReadings, CallMade, AllGenuine
  <2>5. /\ k.step \in Steps /\ k.about \in Credentials \cup {"page"}
        /\ k.force \in BOOLEAN /\ k.error \in BOOLEAN
    BY <2>1 DEF CallTyped, CallMade
  <2> QED
    BY <2>2, <2>4, <2>5 DEF k
<1> QED
  BY <1>2, <1>3, <1>4 DEF TypeOK, IInv, KInv

\* Every state is well-typed: no balance gets older than the caches and the
\* timeouts allow, and each is of the shape the page shows.
THEOREM TypeCorrect == Spec => []TypeOK
<1> QED
  BY Provenance, TypeImplied, PTL

\* Whatever upstream answers, in whatever order the calls interleave: what is
\* shown as left is the sum of what it listed and of the packages shown, none
\* of them dropped, and a package with a slice leads the page.
THEOREM FiguresRight == Spec => []FiguresAgree
<1>1. ASSUME IInv, KInv
      PROVE  FiguresAgree
  <2> SUFFICES ASSUME NEW t \in Callers, Answered(t), NEW c \in DOMAIN call[t].readings
               PROVE  LET account == call[t].readings[c].account
                          packages == account.packages
                          sliced == {i \in DOMAIN packages : packages[i].slice # {}}
                      IN  /\ \E reply \in Replies :
                                IF account.error # "" THEN reply.summary = account.error
                                ELSE /\ reply.summary = "ok"
                                     /\ Len(reply.rows) = Len(packages)
                                     /\ account.left = Total(reply.rows)
                                     /\ account.left = Total(packages)
                          /\ sliced # {} => refillingPackage(account) = 1
    BY DEF FiguresAgree
  <2> DEFINE account == call[t].readings[c].account
  <2>1. CallOK(call[t]) /\ CallMade(call[t]) /\ call[t].step = "answer"
    BY <1>1 DEF IInv, KInv, Answered
  <2>2. Genuine(call[t].readings[c]) /\ call[t].readings[c].read
    BY <2>1 DEF CallOK, AllRead, CallMade, AllGenuine
  <2>3. PICK reply \in Replies : account = fetchQuotaFrom(reply)
    BY <2>2 DEF Genuine
  <2> HIDE DEF account
  <2>4. account \in Account /\ Agrees(account, reply)
    BY <2>3, FetchedOK, QuotaAssumption
  <2>5. account.packages \in Seq(Package) /\ SliceFirst(account.packages)
    BY <2>4 DEF Account, Agrees
  <2>6. \A i \in DOMAIN account.packages :
            account.packages[i].slice # {} => refillingPackage(account) = 1
    BY <2>5, SliceLeads
  <2> QED
    BY <2>4, <2>6 DEF Agrees, account
<1> QED
  BY <1>1, Provenance, PTL
=============================================================================
