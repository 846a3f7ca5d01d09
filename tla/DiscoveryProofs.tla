--------------------------- MODULE DiscoveryProofs ---------------------------
(***************************************************************************)
(* Proofs about the model cache, for any pollers, keys, configurations and *)
(* answers of upstream: first, that a cached list has its catalog, for     *)
(* which what a list is made of does not matter; then what the algorithms  *)
(* of Catalog make of any payloads, most of which are folds over a list    *)
(* (see FoldProofs); and last, that polls and cache hold nothing else.     *)
(***************************************************************************)
EXTENDS Discovery, FiniteSetTheorems, WellFoundedInduction, TLAPS

Shaped ==
    /\ DOMAIN cache = Keys
    /\ \A k \in Keys : {"left", "listed", "known", "remote"} \subseteq DOMAIN cache[k]
    /\ DOMAIN poll = Pollers
    /\ \A p \in Pollers : /\ {"step", "key"} \subseteq DOMAIN poll[p]
                          /\ poll[p].key \in Keys

IInv == Shaped /\ ListHasCatalog

-----------------------------------------------------------------------------
LEMMA OffOK ==
    /\ {"step", "key"} \subseteq DOMAIN Off
    /\ Keys # {} => Off.key \in Keys
    /\ Off.step = "off"
<1>1. (CHOOSE k \in Keys : TRUE) = Off.key /\ Off.step = "off"
  BY DEF Off
<1>2. DOMAIN Off = {"step", "key", "forces", "primary", "supplements", "mode",
                    "allow", "published", "models"}
  BY DEF Off
<1> QED
  BY <1>1, <1>2

LEMMA NoEntryOK ==
    /\ {"left", "listed", "known", "remote"} \subseteq DOMAIN NoEntry
    /\ NoEntry.listed = FALSE
<1>1. DOMAIN NoEntry = {"left", "listed", "models", "forces", "known", "remote"}
  BY DEF NoEntry
<1> QED
  BY <1>1 DEF NoEntry

\* A poll that is about to remember its catalog goes on being so, and the cache
\* is left alone: nothing is lost.
LEMMA Waiting ==
    ASSUME ListHasCatalog, UNCHANGED cache,
           \A p \in Pollers : poll[p].step = "remember" => poll'[p] = poll[p]
    PROVE  ListHasCatalog'
<1> SUFFICES ASSUME NEW k \in Keys, cache[k].listed, ~cache[k].known
             PROVE  \E p \in Pollers : poll'[p].step = "remember" /\ poll'[p].key = k
  BY DEF ListHasCatalog
<1>1. PICK p \in Pollers : poll[p].step = "remember" /\ poll[p].key = k
  BY DEF ListHasCatalog
<1> QED
  BY <1>1

\* A poll that changes its step, and fields other than its key.
LEMMA GoingOn ==
    ASSUME Shaped, NEW p \in Pollers, UNCHANGED cache,
           DOMAIN poll' = DOMAIN poll,
           \A o \in Pollers \ {p} : poll'[o] = poll[o],
           DOMAIN poll'[p] = DOMAIN poll[p], poll'[p].key = poll[p].key
    PROVE  Shaped'
  BY DEF Shaped

LEMMA StartPollStep ==
    ASSUME IInv, NEW p \in Pollers, NEW k \in Keys, NEW forces, StartPoll(p, k, forces)
    PROVE  IInv'
<1> DEFINE q == [Off EXCEPT !.step = "lookup", !.key = k, !.forces = forces]
<1>1. poll' = [poll EXCEPT ![p] = q] /\ UNCHANGED cache /\ poll[p].step = "off"
  BY DEF StartPoll
<1>2. DOMAIN q = DOMAIN Off /\ q.key = k
  BY OffOK
<1> HIDE DEF q
<1>3. Shaped'
  BY <1>1, <1>2, OffOK DEF IInv, Shaped
<1>4. ListHasCatalog'
  BY <1>1, Waiting DEF IInv, Shaped
<1> QED
  BY <1>3, <1>4 DEF IInv

\* The steps from the lookup to the declared models.
LEMMA AssemblyStep ==
    ASSUME IInv, NEW p \in Pollers,
           \/ Lookup(p)
           \/ \E answer \in Answers[p] : Fetch(p, answer)
           \/ ReadMode(p) \/ ReadPolicy(p) \/ KeepAllowed(p)
           \/ ReadPrefix(p) \/ AppendDeclared(p)
    PROVE  IInv'
<1> DEFINE q == poll[p]
<1>1. {"step", "key"} \subseteq DOMAIN q /\ q.key \in Keys /\ p \in DOMAIN poll
  BY DEF IInv, Shaped
<1>2. q.step # "remember" /\ cache' = cache
  BY DEF Lookup, Fetch, ReadMode, ReadPolicy, KeepAllowed, ReadPrefix, AppendDeclared,
         Assemble
<1>3. /\ DOMAIN poll' = DOMAIN poll
      /\ \A o \in Pollers \ {p} : poll'[o] = poll[o]
      /\ DOMAIN poll'[p] = DOMAIN q /\ poll'[p].key = q.key
  <2>1. CASE Lookup(p)
    <3>1. CASE Hit(cache[q.key], q.forces)
      <4>1. PICK list : poll' = [poll EXCEPT ![p].step = "answer", ![p].models = list]
        BY <2>1, <3>1 DEF Lookup
      <4>2. poll' = [poll EXCEPT ![p] = [[q EXCEPT !.step = "answer"] EXCEPT !.models = list]]
        BY <1>1, <4>1
      <4> QED
        BY <1>1, <4>2 DEF IInv, Shaped
    <3>2. CASE ~Hit(cache[q.key], q.forces)
      <4>1. poll' = [poll EXCEPT ![p].step = "fetch"]
        BY <2>1, <3>2 DEF Lookup
      <4> QED
        BY <1>1, <4>1 DEF IInv, Shaped
    <3> QED
      BY <3>1, <3>2
  <2>2. CASE \E answer \in Answers[p] : Fetch(p, answer)
    <3>1. PICK first, second :
             poll' = [poll EXCEPT ![p].step = "mode", ![p].primary = first,
                                  ![p].supplements = second]
      BY <2>2 DEF Fetch
    <3>2. poll' = [poll EXCEPT ![p] = [[[q EXCEPT !.step = "mode"]
                                          EXCEPT !.primary = first]
                                          EXCEPT !.supplements = second]]
      BY <1>1, <3>1
    <3> QED
      BY <1>1, <3>2 DEF IInv, Shaped
  <2>3. CASE ReadMode(p)
    BY <1>1, <2>3 DEF ReadMode, Assemble, IInv, Shaped
  <2>4. CASE ReadPolicy(p)
    BY <1>1, <2>4 DEF ReadPolicy, Assemble, IInv, Shaped
  <2>5. CASE KeepAllowed(p)
    BY <1>1, <2>5 DEF KeepAllowed, Assemble, IInv, Shaped
  <2>6. CASE ReadPrefix(p)
    BY <1>1, <2>6 DEF ReadPrefix, Assemble, IInv, Shaped
  <2>7. CASE AppendDeclared(p)
    BY <1>1, <2>7 DEF AppendDeclared, Assemble, IInv, Shaped
  <2> QED
    BY <2>1, <2>2, <2>3, <2>4, <2>5, <2>6, <2>7
<1> QED
  BY <1>1, <1>2, <1>3, GoingOn, Waiting DEF IInv

LEMMA EndStep ==
    ASSUME IInv, NEW p \in Pollers,
           Answer(p) \/ \E answer \in Answers[p] : FetchFails(p, answer)
    PROVE  IInv'
<1>1. poll[p].step # "remember" /\ cache' = cache /\ poll' = [poll EXCEPT ![p] = Off]
  BY DEF Answer, FetchFails
<1>2. Shaped'
  BY <1>1, OffOK DEF IInv, Shaped
<1>3. ListHasCatalog'
  BY <1>1, Waiting DEF IInv, Shaped
<1> QED
  BY <1>2, <1>3 DEF IInv

\* Storing a list is what the catalog is remembered after.
LEMMA StoreStep ==
    ASSUME IInv, NEW p \in Pollers, Store(p)
    PROVE  IInv'
<1> DEFINE q == poll[p]
           entry == [NoEntry EXCEPT !.left = CacheTTL, !.listed = TRUE,
                                    !.models = q.models, !.forces = q.forces]
<1>1. /\ cache' = [cache EXCEPT ![q.key] = entry] /\ q.step = "store"
      /\ poll' = [poll EXCEPT ![p].step = "remember"]
  BY DEF Store
<1>2. {"step", "key"} \subseteq DOMAIN q /\ q.key \in Keys /\ p \in DOMAIN poll
  BY DEF IInv, Shaped
<1>3. /\ poll'[p].step = "remember" /\ poll'[p].key = q.key
      /\ DOMAIN poll'[p] = DOMAIN q /\ DOMAIN poll' = DOMAIN poll
      /\ \A o \in Pollers \ {p} : poll'[o] = poll[o]
  BY <1>1, <1>2 DEF IInv, Shaped
<1>4. DOMAIN entry = DOMAIN NoEntry
  OBVIOUS
<1> HIDE DEF entry
<1>5. Shaped'
  BY <1>1, <1>2, <1>3, <1>4, NoEntryOK DEF IInv, Shaped
<1>6. ASSUME NEW k \in Keys, cache'[k].listed, ~cache'[k].known
      PROVE  \E o \in Pollers : poll'[o].step = "remember" /\ poll'[o].key = k
  <2>1. CASE k = q.key
    BY <1>3, <2>1
  <2>2. CASE k # q.key
    <3>1. cache'[k] = cache[k]
      BY <1>1, <2>2 DEF IInv, Shaped
    <3>2. PICK o \in Pollers : poll[o].step = "remember" /\ poll[o].key = k
      BY <1>6, <3>1 DEF IInv, ListHasCatalog
    <3>3. o # p
      BY <1>1, <3>2
    <3> QED
      BY <1>3, <3>2, <3>3
  <2> QED
    BY <2>1, <2>2
<1> QED
  BY <1>5, <1>6 DEF IInv, ListHasCatalog

\* Whatever entry is there by then, it has a catalog now.
LEMMA RememberStep ==
    ASSUME IInv, NEW p \in Pollers, RememberRemote(p)
    PROVE  IInv'
<1> DEFINE q == poll[p]
           old == cache[q.key]
           entry == Remembering(old, Full(q))
           now == [Off EXCEPT !.step = "answer", !.key = q.key, !.forces = q.forces,
                              !.models = q.models]
<1>1. /\ cache' = [cache EXCEPT ![q.key] = entry] /\ q.step = "remember"
      /\ poll' = [poll EXCEPT ![p] = now]
  BY DEF RememberRemote
<1>2. q.key \in Keys
  BY DEF IInv, Shaped
<1>3. {"left", "listed", "known", "remote"} \subseteq DOMAIN old
  BY <1>2 DEF IInv, Shaped
<1>4. DOMAIN now = DOMAIN Off /\ now.key = q.key
  BY OffOK
<1>5. {"left", "listed", "known", "remote"} \subseteq DOMAIN entry /\ entry.known = TRUE
  <2> DEFINE base == IF old.left > 0 THEN old ELSE [NoEntry EXCEPT !.left = CacheTTL]
  <2>1. {"left", "listed", "known", "remote"} \subseteq DOMAIN base
    BY <1>3, NoEntryOK
  <2>2. entry = [base EXCEPT !.known = TRUE, !.remote = Full(q)]
    BY DEF Remembering
  <2> HIDE DEF base, entry
  <2> QED
    BY <2>1, <2>2
<1> HIDE DEF entry, now
<1>6. Shaped'
  BY <1>1, <1>2, <1>4, <1>5, OffOK DEF IInv, Shaped
<1>7. ASSUME NEW k \in Keys, cache'[k].listed, ~cache'[k].known
      PROVE  \E o \in Pollers : poll'[o].step = "remember" /\ poll'[o].key = k
  <2>1. k # q.key /\ cache'[k] = cache[k]
    BY <1>1, <1>2, <1>5, <1>7 DEF IInv, Shaped
  <2>2. PICK o \in Pollers : poll[o].step = "remember" /\ poll[o].key = k
    BY <1>7, <2>1 DEF IInv, ListHasCatalog
  <2>3. o # p /\ poll'[o] = poll[o]
    BY <1>1, <2>1, <2>2 DEF IInv, Shaped
  <2> QED
    BY <2>2, <2>3
<1> QED
  BY <1>6, <1>7 DEF IInv, ListHasCatalog

\* An entry that expires takes its list with it.
LEMMA TickStep ==
    ASSUME IInv, Tick
    PROVE  IInv'
<1>1. /\ poll' = poll /\ DOMAIN cache' = Keys
      /\ \A k \in Keys : cache'[k] = IF cache[k].left > 1
                                     THEN [cache[k] EXCEPT !.left = @ - 1] ELSE NoEntry
  BY DEF Tick
<1>2. ASSUME NEW k \in Keys
      PROVE  /\ {"left", "listed", "known", "remote"} \subseteq DOMAIN cache'[k]
             /\ \/ cache'[k].listed = FALSE
                \/ cache'[k].listed = cache[k].listed /\ cache'[k].known = cache[k].known
  <2>1. {"left", "listed", "known", "remote"} \subseteq DOMAIN cache[k]
    BY DEF IInv, Shaped
  <2> QED
    BY <1>1, <2>1, NoEntryOK
<1>3. ListHasCatalog'
  BY <1>1, <1>2 DEF IInv, ListHasCatalog
<1> QED
  BY <1>1, <1>2, <1>3 DEF IInv, Shaped

-----------------------------------------------------------------------------
LEMMA Initially == Init => IInv
<1> SUFFICES ASSUME Init
             PROVE  IInv
  OBVIOUS
<1>1. /\ DOMAIN cache = Keys /\ \A k \in Keys : cache[k] = NoEntry
      /\ DOMAIN poll = Pollers /\ \A p \in Pollers : poll[p] = Off
  BY DEF Init
<1> QED
  BY <1>1, OffOK, NoEntryOK, DiscoveryAssumption DEF IInv, Shaped, ListHasCatalog

LEMMA Invariant == Spec => []IInv
<1>1. ASSUME IInv, UNCHANGED <<cache, poll>>
      PROVE  IInv'
  BY <1>1 DEF IInv, Shaped, ListHasCatalog
<1>2. ASSUME IInv, [Next]_vars
      PROVE  IInv'
  <2>1. ASSUME NEW n \in DOMAIN Configs, Reconfigure(n)
        PROVE  IInv'
    BY <1>1, <1>2, <2>1 DEF Reconfigure
  <2>2. CASE UNCHANGED vars
    BY <1>1, <1>2, <2>2 DEF vars
  <2> QED
    BY <1>2, <2>1, <2>2, StartPollStep, AssemblyStep, EndStep, StoreStep, RememberStep,
       TickStep DEF Next, PollStep
<1>3. IInv /\ [Next]_vars => IInv'
  BY <1>2
<1> QED
  BY <1>3, Initially, PTL DEF Spec

\* Concurrent discoveries of a credential store lists and remember catalogs in
\* any order while entries expire: still, a cached list has its catalog, unless
\* a discovery is about to remember it.
THEOREM ListsHaveCatalogs == Spec => []ListHasCatalog
<1>1. IInv => ListHasCatalog
  BY DEF IInv
<1> QED
  BY <1>1, Invariant, PTL

-----------------------------------------------------------------------------
(***************************************************************************)
(* Lists of entries, by their ids.                                         *)
(***************************************************************************)
\* No entry of a list is decoded without an id.
Entries == {m \in Model : m.id \in Ids}

Distinct(list) == \A i, j \in 1..Len(list) : list[i].id = list[j].id => i = j

LEMMA SequenceOf ==
    ASSUME NEW S, NEW s \in Seq(S)
    PROVE  /\ Len(s) \in Nat /\ DOMAIN s = 1..Len(s)
           /\ \A i \in 1..Len(s) : s[i] \in S
  OBVIOUS

LEMMA EmptySequence ==
    ASSUME NEW S
    PROVE  <<>> \in Seq(S) /\ Len(<<>>) = 0
  OBVIOUS

LEMMA IsSequence ==
    ASSUME NEW n \in Nat, NEW S, NEW g, g = [i \in 1..n |-> g[i]],
           \A i \in 1..n : g[i] \in S
    PROVE  g \in Seq(S) /\ Len(g) = n
<1>1. [i \in 1..n |-> g[i]] \in Seq(S) /\ Len([i \in 1..n |-> g[i]]) = n
  OBVIOUS
<1> QED
  BY <1>1

LEMMA Appended ==
    ASSUME NEW S, NEW s \in Seq(S), NEW x \in S
    PROVE  /\ Append(s, x) \in Seq(S) /\ Len(Append(s, x)) = Len(s) + 1
           /\ Append(s, x)[Len(s) + 1] = x
           /\ \A i \in 1..Len(s) : Append(s, x)[i] = s[i]
  OBVIOUS

LEMMA Concatenated ==
    ASSUME NEW S, NEW s \in Seq(S), NEW t \in Seq(S)
    PROVE  /\ s \o t \in Seq(S) /\ Len(s \o t) = Len(s) + Len(t)
           /\ \A i \in 1..Len(s) : (s \o t)[i] = s[i]
           /\ \A i \in 1..Len(t) : (s \o t)[Len(s) + i] = t[i]
  OBVIOUS

LEMMA ElementsOf ==
    ASSUME NEW S, NEW s \in Seq(S), NEW x
    PROVE  x \in Range(s) <=> \E i \in 1..Len(s) : s[i] = x
  BY SequenceOf DEF Range

LEMMA HasId ==
    ASSUME NEW S, NEW s \in Seq(S), NEW id
    PROVE  id \in IdsOf(s) <=> \E i \in 1..Len(s) : s[i].id = id
  BY SequenceOf DEF IdsOf, Range

\* The elements of a concatenation.
LEMMA ElementsOfBoth ==
    ASSUME NEW S, NEW s \in Seq(S), NEW t \in Seq(S)
    PROVE  /\ Range(s \o t) = Range(s) \cup Range(t)
           /\ IdsOf(s \o t) = IdsOf(s) \cup IdsOf(t)
<1>0. Len(s) \in Nat /\ Len(t) \in Nat
  BY SequenceOf
<1>1. ASSUME NEW x
      PROVE  x \in Range(s \o t) <=> x \in Range(s) \/ x \in Range(t)
  <2>1. ASSUME x \in Range(s \o t)
        PROVE  x \in Range(s) \/ x \in Range(t)
    <3>0. s \o t \in Seq(S) /\ Len(s \o t) = Len(s) + Len(t)
      BY Concatenated
    <3>1. PICK i \in 1..(Len(s) + Len(t)) : (s \o t)[i] = x
      <4>1. \E i \in 1..Len(s \o t) : (s \o t)[i] = x
        BY <2>1, <3>0, ElementsOf
      <4> QED
        BY <3>0, <4>1
    <3>2. CASE i <= Len(s)
      <4>1. i \in 1..Len(s)
        BY <1>0, <3>1, <3>2
      <4> QED
        BY <3>1, <4>1, Concatenated, ElementsOf
    <3>3. CASE ~(i <= Len(s))
      <4>1. i - Len(s) \in 1..Len(t) /\ Len(s) + (i - Len(s)) = i
        BY <1>0, <3>1, <3>3
      <4>2. t[i - Len(s)] = x
        BY <3>1, <4>1, Concatenated
      <4> QED
        BY <4>1, <4>2, ElementsOf
    <3> QED
      BY <3>2, <3>3
  <2>2. ASSUME x \in Range(s)
        PROVE  x \in Range(s \o t)
    <3>1. PICK i \in 1..Len(s) : s[i] = x
      BY <2>2, ElementsOf
    <3>2. i \in 1..Len(s \o t) /\ (s \o t)[i] = x
      BY <1>0, <3>1, Concatenated
    <3> QED
      BY <3>2, Concatenated, ElementsOf
  <2>3. ASSUME x \in Range(t)
        PROVE  x \in Range(s \o t)
    <3>1. PICK i \in 1..Len(t) : t[i] = x
      BY <2>3, ElementsOf
    <3>2. Len(s) + i \in 1..Len(s \o t) /\ (s \o t)[Len(s) + i] = x
      BY <1>0, <3>1, Concatenated
    <3> QED
      BY <3>2, Concatenated, ElementsOf
  <2> QED
    BY <2>1, <2>2, <2>3
<1>2. Range(s \o t) = Range(s) \cup Range(t)
  BY <1>1
<1> QED
  BY <1>2 DEF IdsOf

LEMMA NoElements == Range(<<>>) = {} /\ IdsOf(<<>>) = {}
<1>0. <<>> \in Seq({}) /\ 1..Len(<<>>) = {}
  BY EmptySequence
<1>1. \A x : x \notin Range(<<>>)
  BY <1>0, ElementsOf
<1> QED
  BY <1>1 DEF IdsOf

\* Two lists that have no id in common.
LEMMA DistinctBoth ==
    ASSUME NEW S, NEW s \in Seq(S), NEW t \in Seq(S), Distinct(s), Distinct(t),
           \A id \in IdsOf(t) : id \notin IdsOf(s)
    PROVE  Distinct(s \o t)
<1> DEFINE u == s \o t
<1>0. Len(s) \in Nat /\ Len(t) \in Nat
  BY SequenceOf
<1>1. /\ Len(u) = Len(s) + Len(t)
      /\ \A i \in 1..Len(s) : u[i] = s[i]
      /\ \A i \in 1..Len(t) : u[Len(s) + i] = t[i]
  BY Concatenated
<1>2. /\ \A i \in 1..Len(s) : s[i].id \in IdsOf(s)
      /\ \A i \in 1..Len(t) : t[i].id \in IdsOf(t)
  BY HasId
<1> HIDE DEF u
<1>3. \A i \in 1..Len(u) : \/ i \in 1..Len(s) /\ u[i] = s[i]
                           \/ /\ i - Len(s) \in 1..Len(t)
                              /\ u[i] = t[i - Len(s)]
  <2> TAKE i \in 1..Len(u)
  <2>1. CASE i <= Len(s)
    <3>1. i \in 1..Len(s)
      BY <1>0, <1>1, <2>1
    <3> QED
      BY <1>1, <3>1
  <2>2. CASE ~(i <= Len(s))
    <3>1. i - Len(s) \in 1..Len(t) /\ Len(s) + (i - Len(s)) = i
      BY <1>0, <1>1, <2>2
    <3> QED
      BY <1>1, <3>1
  <2> QED
    BY <2>1, <2>2
<1>4. ASSUME NEW i \in 1..Len(u), NEW j \in 1..Len(u), u[i].id = u[j].id
      PROVE  i = j
  <2>1. CASE i \in 1..Len(s) /\ j \in 1..Len(s) /\ u[i] = s[i] /\ u[j] = s[j]
    BY <1>4, <2>1 DEF Distinct
  <2>2. CASE /\ i - Len(s) \in 1..Len(t) /\ u[i] = t[i - Len(s)]
             /\ j - Len(s) \in 1..Len(t) /\ u[j] = t[j - Len(s)]
    <3>1. i - Len(s) = j - Len(s)
      BY <1>4, <2>2 DEF Distinct
    <3> QED
      BY <1>0, <3>1
  <2>3. CASE /\ i \in 1..Len(s) /\ u[i] = s[i]
             /\ j - Len(s) \in 1..Len(t) /\ u[j] = t[j - Len(s)]
    BY <1>2, <1>4, <2>3
  <2>4. CASE /\ j \in 1..Len(s) /\ u[j] = s[j]
             /\ i - Len(s) \in 1..Len(t) /\ u[i] = t[i - Len(s)]
    BY <1>2, <1>4, <2>4
  <2> QED
    BY <1>3, <2>1, <2>2, <2>3, <2>4
<1> QED
  BY <1>4 DEF Distinct, u

-----------------------------------------------------------------------------
(***************************************************************************)
(* The four folds of the catalog: filters, merging, mentions, and what is  *)
(* not listed yet.                                                         *)
(***************************************************************************)
MergeStep(c, list, m) == Merge(list, m)
MentionStep(c, ids, x) == AddMention(ids, x)

FK == INSTANCE FoldProofs WITH Op <- Kept
FM == INSTANCE FoldProofs WITH Op <- MergeStep
FI == INSTANCE FoldProofs WITH Op <- MentionStep
FU == INSTANCE FoldProofs WITH Op <- AddUnlisted

LEMMA SiftIsFold ==
    ASSUME NEW s, NEW K
    PROVE  Sift(s, K) = FK!Fold(K, <<>>, s)
  BY DEF Sift, Kept, FK!Fold, FoldLeft, MapThenFoldSet, Max,
         FK!FoldLeft, FK!MapThenFoldSet, FK!Max

LEMMA MergingIsFold ==
    ASSUME NEW s, NEW t
    PROVE  mergeCatalogs(s, t) = FM!Fold(0, <<>>, s \o t)
  BY DEF mergeCatalogs, Merge, MergeStep, FM!Fold, FoldLeft, MapThenFoldSet, Max,
         FM!FoldLeft, FM!MapThenFoldSet, FM!Max

LEMMA MentionsAreFold ==
    ASSUME NEW s
    PROVE  extractSupplementIDs(s) = FI!Fold(0, <<>>, s)
  BY DEF extractSupplementIDs, AddMention, MentionStep, FI!Fold, FoldLeft, MapThenFoldSet,
         Max, FI!FoldLeft, FI!MapThenFoldSet, FI!Max

LEMMA UnlistedIsFold ==
    ASSUME NEW s, NEW infos
    PROVE  Unlisted(s, infos) = FU!Fold(IdsOf(infos), <<>>, s)
  BY DEF Unlisted, FU!Fold, FoldLeft, MapThenFoldSet, Max,
         FU!FoldLeft, FU!MapThenFoldSet, FU!Max

\* What is filtered out of a list is in the list, once for each time it is there.
LEMMA SiftOK ==
    ASSUME NEW S, NEW s \in Seq(S), NEW K
    PROVE  /\ Sift(s, K) \in Seq(S)
           /\ \A x : x \in Range(Sift(s, K)) <=> x \in K /\ x \in Range(s)
           /\ \E at \in [1..Len(Sift(s, K)) -> 1..Len(s)] :
                 /\ \A i \in 1..Len(Sift(s, K)) : Sift(s, K)[i] = s[at[i]]
                 /\ \A i, j \in 1..Len(Sift(s, K)) : i < j => at[i] < at[j]
<1>1. FK!Sieves(K, S, K)
  BY DEF FK!Sieves, Kept
<1> DEFINE r == FK!Fold(K, <<>>, s)
<1>2. /\ r \in Seq(S)
      /\ \A x : (\E i \in 1..Len(r) : r[i] = x)
                  <=> x \in K /\ \E i \in 1..Len(s) : s[i] = x
      /\ \E at \in [1..Len(r) -> 1..Len(s)] :
            /\ \A i \in 1..Len(r) : r[i] = s[at[i]]
            /\ \A i, j \in 1..Len(r) : i < j => at[i] < at[j]
  BY <1>1, FK!FoldSieves
<1>3. Sift(s, K) = r
  BY SiftIsFold
<1> HIDE DEF r
<1>4. \A x : x \in Range(r) <=> x \in K /\ x \in Range(s)
  BY <1>2, ElementsOf
<1> QED
  BY <1>2, <1>3, <1>4

\* A filtered list names each id once, if the list does.
LEMMA SiftDistinct ==
    ASSUME NEW S, NEW s \in Seq(S), NEW K, Distinct(s)
    PROVE  Distinct(Sift(s, K))
<1> DEFINE r == Sift(s, K)
<1>0. Len(s) \in Nat /\ Len(r) \in Nat
  BY SiftOK, SequenceOf
<1>1. PICK at \in [1..Len(r) -> 1..Len(s)] :
         /\ \A i \in 1..Len(r) : r[i] = s[at[i]]
         /\ \A i, j \in 1..Len(r) : i < j => at[i] < at[j]
  BY SiftOK
<1> HIDE DEF r
<1>2. ASSUME NEW i \in 1..Len(r), NEW j \in 1..Len(r), r[i].id = r[j].id
      PROVE  i = j
  <2>1. at[i] \in 1..Len(s) /\ at[j] \in 1..Len(s)
    OBVIOUS
  <2>2. at[i] = at[j]
    BY <1>1, <1>2, <2>1 DEF Distinct
  <2> QED
    BY <1>0, <1>1, <2>1, <2>2
<1> QED
  BY <1>2 DEF Distinct, r

\* Every set of numbers that is not empty has a least one.
LEMMA LeastNumber ==
    ASSUME NEW S \in SUBSET Nat, S # {}
    PROVE  Min(S) \in S /\ \A x \in S : Min(S) <= x
<1>1. PICK x \in S : \A y \in S : ~ (<<y, x>> \in OpToRel(<, Nat))
  BY WFMin, NatLessThanWellFounded
<1>2. ASSUME NEW y \in S
      PROVE  x <= y
  <2>1. x \in Nat /\ y \in Nat
    OBVIOUS
  <2>2. ASSUME y < x
        PROVE  FALSE
    <3>1. <<y, x>> \in OpToRel(<, Nat)
      BY <2>1, <2>2 DEF OpToRel
    <3> QED
      BY <1>1, <3>1
  <2> QED
    BY <2>1, <2>2
<1>3. \E z \in S : \A y \in S : z <= y
  BY <1>2
<1> QED
  BY <1>3 DEF Min

LEMMA FirstPlace ==
    ASSUME NEW S, NEW s \in Seq(S), NEW id
    PROVE  /\ FirstOf(s, id) \in 0..Len(s)
           /\ FirstOf(s, id) = 0 <=> id \notin IdsOf(s)
           /\ FirstOf(s, id) # 0 => s[FirstOf(s, id)].id = id
<1> DEFINE I == {i \in 1..Len(s) : s[i].id = id}
<1>0. Len(s) \in Nat
  BY SequenceOf
<1>1. FirstOf(s, id) = IF I # {} THEN Min(I) ELSE 0
  BY DEF FirstOf, SelectInSeq
<1>2. I # {} <=> id \in IdsOf(s)
  BY HasId
<1>3. I \in SUBSET Nat
  BY <1>0
<1>4. \A i \in I : i \in 1..Len(s) /\ s[i].id = id
  OBVIOUS
<1> HIDE DEF I
<1>5. I # {} => Min(I) \in I
  BY <1>3, LeastNumber
<1> QED
  BY <1>0, <1>1, <1>2, <1>4, <1>5

LEMMA EntryPlace ==
    ASSUME NEW S, NEW s \in Seq(S), NEW id \in IdsOf(s)
    PROVE  Entry(s, id) \in 1..Len(s) /\ s[Entry(s, id)].id = id
<1> DEFINE I == {i \in 1..Len(s) : s[i].id = id}
<1>0. Len(s) \in Nat
  BY SequenceOf
<1>1. Entry(s, id) = IF I # {} THEN Max(I) ELSE 0
  BY DEF Entry, SelectLastInSeq
<1>2. I # {}
  BY HasId
<1>3. I \in SUBSET (1..Len(s))
  OBVIOUS
<1>4. \A i \in I : i \in 1..Len(s) /\ s[i].id = id
  OBVIOUS
<1> HIDE DEF I
<1>5. FK!Max(I) \in I /\ \A x \in I : x <= FK!Max(I)
  BY <1>0, <1>2, <1>3, FK!LastPlace
<1>6. FK!Max(I) = Max(I)
  BY DEF FK!Max, Max
<1> QED
  BY <1>1, <1>2, <1>4, <1>5, <1>6
-----------------------------------------------------------------------------
(***************************************************************************)
(* Merging, mentions, and what is not listed yet.                          *)
(***************************************************************************)
LEMMA ModelFields ==
    ASSUME NEW m \in Model
    PROVE  /\ m.id \in Ids \cup {NoId} /\ m.input \in Nat /\ m.output \in Nat
           /\ m.price \in {"free", "billed", "none"}
           /\ m.window \in SUBSET Window
  BY DEF Model

LEMMA EntryFields ==
    ASSUME NEW m \in Entries
    PROVE  m \in Model /\ m.id \in Ids /\ m.id # NoId
  BY CatalogAssumption DEF Entries

LEMMA MergeStepOK ==
    ASSUME NEW a \in Seq(Entries), Distinct(a), NEW m \in Entries
    PROVE  /\ Merge(a, m) \in Seq(Entries)
           /\ Distinct(Merge(a, m))
           /\ IdsOf(Merge(a, m)) = IdsOf(a) \cup {m.id}
           /\ Range(Merge(a, m)) \subseteq Range(a) \cup {m}
<1> DEFINE at == FirstOf(a, m.id)
           b == Merge(a, m)
<1>0. Len(a) \in Nat /\ \A i \in 1..Len(a) : a[i] \in Entries
  BY SequenceOf
<1>1. /\ at \in 0..Len(a) /\ (at = 0 <=> m.id \notin IdsOf(a))
      /\ (at # 0 => a[at].id = m.id)
  BY FirstPlace
<1>2. b = IF at = 0 THEN Append(a, m)
          ELSE IF richerModel(m, a[at]) THEN [a EXCEPT ![at] = m] ELSE a
  BY EntryFields DEF Merge
<1> HIDE DEF at, b
<1>3. CASE at = 0
  <2>1. /\ b \in Seq(Entries) /\ Len(b) = Len(a) + 1 /\ b[Len(b)] = m
        /\ \A i \in 1..Len(a) : b[i] = a[i]
    BY <1>2, <1>3, Appended
  <2>2. \A i \in 1..Len(a) : a[i].id # m.id
    BY <1>1, <1>3, HasId
  <2>3. Distinct(b)
    <3> SUFFICES ASSUME NEW i \in 1..Len(b), NEW j \in 1..Len(b), b[i].id = b[j].id
                 PROVE  i = j
      BY DEF Distinct
    <3>1. CASE i \in 1..Len(a) /\ j \in 1..Len(a)
      BY <2>1, <3>1 DEF Distinct
    <3>2. CASE i \in 1..Len(a) /\ j = Len(b)
      BY <2>1, <2>2, <3>2
    <3>3. CASE i = Len(b) /\ j \in 1..Len(a)
      BY <2>1, <2>2, <3>3
    <3>4. i \in 1..Len(a) \/ i = Len(b)
      BY <1>0, <2>1
    <3>5. j \in 1..Len(a) \/ j = Len(b)
      BY <1>0, <2>1
    <3> QED
      BY <3>1, <3>2, <3>3, <3>4, <3>5
  <2>4. \A x : x \in Range(b) <=> x \in Range(a) \/ x = m
    <3> TAKE x
    <3>1. x \in Range(b) <=> \E i \in 1..Len(b) : b[i] = x
      BY <2>1, ElementsOf
    <3>2. x \in Range(a) <=> \E i \in 1..Len(a) : a[i] = x
      BY ElementsOf
    <3>3. \A i \in 1..Len(b) : i \in 1..Len(a) \/ i = Len(b)
      BY <1>0, <2>1
    <3>4. Len(b) \in 1..Len(b) /\ \A i \in 1..Len(a) : i \in 1..Len(b)
      BY <1>0, <2>1
    <3> QED
      BY <2>1, <3>1, <3>2, <3>3, <3>4
  <2>5. Range(b) = Range(a) \cup {m}
    BY <2>4
  <2>6. IdsOf(b) = IdsOf(a) \cup {m.id}
    BY <2>5 DEF IdsOf
  <2> QED
    BY <2>1, <2>3, <2>5, <2>6 DEF b
<1>4. CASE at # 0 /\ b = [a EXCEPT ![at] = m]
  <2>1. at \in 1..Len(a) /\ DOMAIN a = 1..Len(a)
    BY <1>0, <1>1, <1>4, SequenceOf
  <2>2. /\ b = [i \in 1..Len(a) |-> b[i]]
        /\ b[at] = m /\ \A i \in 1..Len(a) : i # at => b[i] = a[i]
    BY <1>4, <2>1
  <2>3. b \in Seq(Entries) /\ Len(b) = Len(a)
    <3>1. \A i \in 1..Len(a) : b[i] \in Entries
      BY <1>0, <2>2
    <3> QED
      BY <1>0, <2>2, <3>1, IsSequence
  <2>4. \A i \in 1..Len(a) : b[i].id = a[i].id
    BY <1>1, <1>4, <2>2
  <2>5. Distinct(b)
    BY <2>3, <2>4 DEF Distinct
  <2>6. \A id : id \in IdsOf(b) <=> id \in IdsOf(a)
    BY <2>3, <2>4, HasId
  <2>7. IdsOf(b) = IdsOf(a) \cup {m.id}
    BY <1>1, <1>4, <2>6
  <2>8. ASSUME NEW x \in Range(b)
        PROVE  x \in Range(a) \cup {m}
    <3>1. PICK i \in 1..Len(a) : b[i] = x
      BY <2>3, ElementsOf
    <3> QED
      BY <2>2, <3>1, ElementsOf
  <2> QED
    BY <2>3, <2>5, <2>7, <2>8 DEF b
<1>5. CASE at # 0 /\ b = a
  <2>1. IdsOf(a) = IdsOf(a) \cup {m.id}
    BY <1>1, <1>5
  <2> QED
    BY <1>5, <2>1 DEF b
<1> QED
  BY <1>2, <1>3, <1>4, <1>5

\* A merged catalog lists every id of either, once.
LEMMA MergeOK ==
    ASSUME NEW s \in Seq(Entries), NEW t \in Seq(Entries)
    PROVE  /\ mergeCatalogs(s, t) \in Seq(Entries)
           /\ Distinct(mergeCatalogs(s, t))
           /\ IdsOf(mergeCatalogs(s, t)) = IdsOf(s) \cup IdsOf(t)
           /\ Range(mergeCatalogs(s, t)) \subseteq Range(s) \cup Range(t)
<1> DEFINE u == s \o t
           Good(n, a) ==
              /\ a \in Seq(Entries) /\ Distinct(a)
              /\ \A id : id \in IdsOf(a) <=> \E i \in 1..n : u[i].id = id
              /\ \A x : x \in Range(a) => \E i \in 1..n : u[i] = x
           R == {x \in Nat \X Seq(Entries) : Good(x[1], x[2])}
<1>0. u \in Seq(Entries) /\ Len(u) \in Nat
  BY Concatenated, SequenceOf
<1> HIDE DEF u
<1>1. <<0, <<>>>> \in R
  <2>1. 1..0 = {} /\ <<>> \in Seq(Entries) /\ 1..Len(<<>>) = {}
    BY EmptySequence
  <2>2. Good(0, <<>>)
    BY <2>1, NoElements DEF Distinct
  <2> HIDE DEF Good
  <2> QED
    BY <2>1, <2>2
<1>2. ASSUME NEW k \in 1..Len(u), NEW a, <<k - 1, a>> \in R
      PROVE  <<k, MergeStep(0, a, u[k])>> \in R
  <2>1. Good(k - 1, a) /\ k \in Nat /\ k - 1 \in Nat /\ u[k] \in Entries
    <3>1. <<k - 1, a>> \in Nat \X Seq(Entries) /\ Good(<<k - 1, a>>[1], <<k - 1, a>>[2])
      BY <1>2
    <3> HIDE DEF Good
    <3> QED
      BY <1>0, <3>1, SequenceOf
  <2> DEFINE b == Merge(a, u[k])
  <2>2. /\ b \in Seq(Entries) /\ Distinct(b) /\ IdsOf(b) = IdsOf(a) \cup {u[k].id}
        /\ Range(b) \subseteq Range(a) \cup {u[k]}
    BY <2>1, MergeStepOK
  <2> HIDE DEF b
  <2>3. /\ \A i \in 1..k : i \in 1..(k - 1) \/ i = k
        /\ k \in 1..k /\ \A i \in 1..(k - 1) : i \in 1..k
    BY <2>1
  <2>4. \A id : id \in IdsOf(b) <=> \E i \in 1..k : u[i].id = id
    BY <2>1, <2>2, <2>3
  <2>5. \A x : x \in Range(b) => \E i \in 1..k : u[i] = x
    BY <2>1, <2>2, <2>3
  <2>6. Good(k, b)
    BY <2>2, <2>4, <2>5
  <2>7. MergeStep(0, a, u[k]) = b
    BY DEF b, MergeStep
  <2> HIDE DEF Good
  <2> QED
    BY <2>1, <2>2, <2>6, <2>7
<1> DEFINE r == FM!Fold(0, <<>>, u)
<1>3. <<Len(u), r>> \in R
  <2> HIDE DEF R
  <2> QED
    BY <1>0, <1>1, <1>2, FM!FoldInvariant
<1>4. r = mergeCatalogs(s, t)
  BY MergingIsFold DEF u
<1> HIDE DEF r
<1>5. Good(Len(u), r)
  <2> HIDE DEF Good
  <2> QED
    BY <1>3
<1>6. /\ \A id : id \in IdsOf(r) <=> id \in IdsOf(u)
      /\ \A x : x \in Range(r) => x \in Range(u)
  BY <1>0, <1>5, HasId, ElementsOf
<1>7. Range(u) = Range(s) \cup Range(t) /\ IdsOf(u) = IdsOf(s) \cup IdsOf(t)
  BY ElementsOfBoth DEF u
<1> QED
  BY <1>4, <1>5, <1>6, <1>7

\* The ids that are mentioned, all of them, each once.
LEMMA MentionsOK ==
    ASSUME NEW s \in Seq(Mention)
    PROVE  LET r == extractSupplementIDs(s)
           IN  /\ r \in Seq(Ids)
               /\ \A i, j \in 1..Len(r) : r[i] = r[j] => i = j
               /\ \A i \in 1..Len(r) : \E x \in Range(s) : x.id = r[i]
               /\ \A x \in Range(s) : x.id # NoId => x.id \in Range(r)
<1> DEFINE Good(n, a) ==
              /\ a \in Seq(Ids)
              /\ \A i, j \in 1..Len(a) : a[i] = a[j] => i = j
              /\ \A i \in 1..Len(a) : \E x \in Range(s) : x.id = a[i]
              /\ \A i \in 1..n : s[i].id # NoId => s[i].id \in Range(a)
           R == {x \in Nat \X Seq(Ids) : Good(x[1], x[2])}
<1>0. Len(s) \in Nat
  BY SequenceOf
<1>1. <<0, <<>>>> \in R
  <2>1. <<>> \in Seq(Ids) /\ 1..Len(<<>>) = {}
    BY EmptySequence
  <2>2. Good(0, <<>>)
    BY <2>1, NoElements
  <2> HIDE DEF Good
  <2> QED
    BY <2>1, <2>2
<1>2. ASSUME NEW k \in 1..Len(s), NEW a, <<k - 1, a>> \in R
      PROVE  <<k, MentionStep(0, a, s[k])>> \in R
  <2>0. k \in Nat /\ \A i \in 1..k : i \in 1..(k - 1) \/ i = k
    BY <1>0
  <2>1. Good(k - 1, a) /\ k \in Nat /\ s[k] \in Mention /\ s[k] \in Range(s)
    <3>1. <<k - 1, a>> \in Nat \X Seq(Ids) /\ Good(<<k - 1, a>>[1], <<k - 1, a>>[2])
      BY <1>2
    <3> HIDE DEF Good
    <3> QED
      BY <1>0, <3>1, SequenceOf, ElementsOf
  <2>2. CASE s[k].id = NoId \/ s[k].id \in Range(a)
    <3>1. MentionStep(0, a, s[k]) = a
      BY <2>2 DEF MentionStep, AddMention
    <3>2. \A i \in 1..k : s[i].id # NoId => s[i].id \in Range(a)
      BY <2>0, <2>1, <2>2
    <3>3. Good(k, a)
      BY <2>1, <3>2
    <3> HIDE DEF Good
    <3> QED
      BY <1>2, <2>1, <3>1, <3>3
  <2>3. CASE s[k].id # NoId /\ s[k].id \notin Range(a)
    <3> DEFINE b == Append(a, s[k].id)
    <3>1. MentionStep(0, a, s[k]) = b /\ s[k].id \in Ids
      BY <2>1, <2>3 DEF MentionStep, AddMention, Mention
    <3>2. /\ b \in Seq(Ids) /\ Len(b) = Len(a) + 1 /\ b[Len(b)] = s[k].id
          /\ \A i \in 1..Len(a) : b[i] = a[i]
      BY <2>1, <3>1, Appended
    <3>3. Len(a) \in Nat /\ \A i \in 1..Len(a) : a[i] # s[k].id
      BY <2>1, <2>3, SequenceOf, ElementsOf
    <3> HIDE DEF b
    <3>4. \A i \in 1..Len(b) : i \in 1..Len(a) \/ i = Len(b)
      BY <3>2, <3>3
    <3>5. \A i, j \in 1..Len(b) : b[i] = b[j] => i = j
      BY <2>1, <3>2, <3>3, <3>4
    <3>6. \A i \in 1..Len(b) : \E x \in Range(s) : x.id = b[i]
      BY <2>1, <3>2, <3>4
    <3>7. Range(a) \subseteq Range(b) /\ s[k].id \in Range(b)
      <4>1. \A x \in Range(a) : \E i \in 1..Len(a) : a[i] = x
        BY <2>1, ElementsOf
      <4>2. \A i \in 1..Len(b) : b[i] \in Range(b)
        BY <3>2, ElementsOf
      <4>3. Len(b) \in 1..Len(b) /\ \A i \in 1..Len(a) : i \in 1..Len(b)
        BY <3>2, <3>3
      <4> QED
        BY <3>2, <4>1, <4>2, <4>3
    <3>8. \A i \in 1..k : s[i].id # NoId => s[i].id \in Range(b)
      BY <2>0, <2>1, <3>7
    <3>9. Good(k, b)
      BY <3>2, <3>5, <3>6, <3>8
    <3> HIDE DEF Good
    <3> QED
      BY <2>1, <3>1, <3>2, <3>9
  <2> QED
    BY <2>2, <2>3
<1> DEFINE r == FI!Fold(0, <<>>, s)
<1>3. <<Len(s), r>> \in R
  <2> HIDE DEF R
  <2> QED
    BY <1>0, <1>1, <1>2, FI!FoldInvariant
<1>4. r = extractSupplementIDs(s)
  BY MentionsAreFold
<1>5. /\ r \in Seq(Ids) /\ \A i, j \in 1..Len(r) : r[i] = r[j] => i = j
      /\ \A i \in 1..Len(r) : \E x \in Range(s) : x.id = r[i]
      /\ \A i \in 1..Len(s) : s[i].id # NoId => s[i].id \in Range(r)
  <2> HIDE DEF r
  <2> QED
    BY <1>3
<1> HIDE DEF r
<1>6. \A x \in Range(s) : x.id # NoId => x.id \in Range(r)
  BY <1>5, ElementsOf
<1> QED
  BY <1>4, <1>5, <1>6

\* What a list lacks of another, each id once.
LEMMA UnlistedOK ==
    ASSUME NEW s \in Seq(Model), NEW infos
    PROVE  LET r == Unlisted(s, infos)
           IN  /\ r \in Seq(Entries) /\ Distinct(r)
               /\ \A x \in Range(r) : x \in Range(s) /\ Servable(x)
               /\ \A id : id \in IdsOf(r) <=>
                     id \notin IdsOf(infos) /\ \E x \in Range(s) : Servable(x) /\ x.id = id
<1> DEFINE L == IdsOf(infos)
           Good(n, a) ==
              /\ a \in Seq(Entries) /\ Distinct(a)
              /\ \A x \in Range(a) : x \in Range(s) /\ Servable(x)
              /\ \A id : id \in IdsOf(a) <=>
                    id \notin L /\ \E i \in 1..n : Servable(s[i]) /\ s[i].id = id
           R == {x \in Nat \X Seq(Entries) : Good(x[1], x[2])}
<1>0. Len(s) \in Nat /\ \A i \in 1..Len(s) : s[i] \in Range(s) /\ s[i] \in Model
  BY SequenceOf, ElementsOf
<1> HIDE DEF L
<1>1. <<0, <<>>>> \in R
  <2>1. <<>> \in Seq(Entries) /\ 1..Len(<<>>) = {} /\ 1..0 = {}
    BY EmptySequence
  <2>2. Good(0, <<>>)
    BY <2>1, NoElements DEF Distinct
  <2> HIDE DEF Good
  <2> QED
    BY <2>1, <2>2
<1>2. ASSUME NEW k \in 1..Len(s), NEW a, <<k - 1, a>> \in R
      PROVE  <<k, AddUnlisted(L, a, s[k])>> \in R
  <2>1. Good(k - 1, a) /\ k \in Nat /\ k - 1 \in Nat
    <3>1. <<k - 1, a>> \in Nat \X Seq(Entries) /\ Good(<<k - 1, a>>[1], <<k - 1, a>>[2])
      BY <1>2
    <3> HIDE DEF Good
    <3> QED
      BY <1>0, <3>1
  <2>2. /\ \A i \in 1..k : i \in 1..(k - 1) \/ i = k
        /\ k \in 1..k /\ \A i \in 1..(k - 1) : i \in 1..k
    BY <2>1
  <2>3. CASE s[k].id \in L \cup IdsOf(a) \/ ~Servable(s[k])
    <3>1. AddUnlisted(L, a, s[k]) = a
      BY <2>3 DEF AddUnlisted
    <3>2. \A id : id \in IdsOf(a) <=>
             id \notin L /\ \E i \in 1..k : Servable(s[i]) /\ s[i].id = id
      BY <2>1, <2>2, <2>3
    <3>3. Good(k, a)
      BY <2>1, <3>2
    <3> HIDE DEF Good
    <3> QED
      BY <1>2, <2>1, <3>1, <3>3
  <2>4. CASE s[k].id \notin L \cup IdsOf(a) /\ Servable(s[k])
    <3> DEFINE b == Append(a, s[k])
    <3>1. AddUnlisted(L, a, s[k]) = b
      BY <2>4 DEF AddUnlisted
    <3>2. s[k] \in Entries
      BY <1>0, <2>4, ModelFields DEF Entries, Servable
    <3>3. /\ b \in Seq(Entries) /\ Len(b) = Len(a) + 1 /\ b[Len(b)] = s[k]
          /\ \A i \in 1..Len(a) : b[i] = a[i]
      BY <2>1, <3>2, Appended
    <3>4. Len(a) \in Nat /\ \A i \in 1..Len(a) : a[i].id # s[k].id
      BY <2>1, <2>4, SequenceOf, HasId
    <3> HIDE DEF b
    <3>5. /\ \A i \in 1..Len(b) : i \in 1..Len(a) \/ i = Len(b)
          /\ Len(b) \in 1..Len(b) /\ \A i \in 1..Len(a) : i \in 1..Len(b)
      BY <3>3, <3>4
    <3>6. Distinct(b)
      BY <2>1, <3>3, <3>4, <3>5 DEF Distinct
    <3>7. \A x : x \in Range(b) <=> x \in Range(a) \/ x = s[k]
      <4> TAKE x
      <4>1. x \in Range(b) <=> \E i \in 1..Len(b) : b[i] = x
        BY <3>3, ElementsOf
      <4>2. x \in Range(a) <=> \E i \in 1..Len(a) : a[i] = x
        BY <2>1, ElementsOf
      <4> QED
        BY <3>3, <3>5, <4>1, <4>2
    <3>8. Range(b) = Range(a) \cup {s[k]}
      BY <3>7
    <3>9. IdsOf(b) = IdsOf(a) \cup {s[k].id}
      BY <3>8 DEF IdsOf
    <3>10. \A id : id \in IdsOf(b) <=>
             id \notin L /\ \E i \in 1..k : Servable(s[i]) /\ s[i].id = id
      BY <2>1, <2>2, <2>4, <3>9
    <3>11. \A x \in Range(b) : x \in Range(s) /\ Servable(x)
      BY <1>0, <2>1, <2>4, <3>7
    <3>12. Good(k, b)
      BY <3>3, <3>6, <3>10, <3>11
    <3> HIDE DEF Good
    <3> QED
      BY <2>1, <3>1, <3>3, <3>12
  <2> QED
    BY <2>3, <2>4
<1> DEFINE r == FU!Fold(L, <<>>, s)
<1>3. <<Len(s), r>> \in R
  <2> HIDE DEF R
  <2> QED
    BY <1>0, <1>1, <1>2, FU!FoldInvariant
<1>4. r = Unlisted(s, infos)
  BY UnlistedIsFold DEF L
<1> HIDE DEF r
<1>5. Good(Len(s), r)
  <2> HIDE DEF Good
  <2> QED
    BY <1>3
<1>6. \A id : (\E i \in 1..Len(s) : Servable(s[i]) /\ s[i].id = id)
                <=> \E x \in Range(s) : Servable(x) /\ x.id = id
  BY <1>0, ElementsOf
<1> QED
  BY <1>4, <1>5, <1>6 DEF L
-----------------------------------------------------------------------------
(***************************************************************************)
(* Decoding and supplements.                                               *)
(***************************************************************************)
LEMMA BareOK ==
    ASSUME NEW id \in Ids
    PROVE  Bare(id) \in Entries /\ Bare(id).id = id /\ Bare(id).price = "none"
<1>1. {} \in {w \in SUBSET Window : Cardinality(w) <= 1}
  BY FS_EmptySet
<1> QED
  BY <1>1 DEF Bare, Entries, Model

\* An entry under another id.
LEMMA Renamed ==
    ASSUME NEW m \in Model, NEW id \in Ids
    PROVE  [m EXCEPT !.id = id] \in Entries /\ [m EXCEPT !.id = id].id = id
<1> DEFINE W == {w \in SUBSET Window : Cardinality(w) <= 1}
<1> HIDE DEF W
<1>1. Model = [id : Ids \cup {NoId}, named : BOOLEAN, input : Nat, output : Nat,
               window : W, price : {"free", "billed", "none"}, isDefault : BOOLEAN]
  BY DEF W, Model
<1>2. [m EXCEPT !.id = id] \in Model /\ [m EXCEPT !.id = id].id = id
  BY <1>1
<1> QED
  BY <1>2 DEF Entries

LEMMA Unpriced ==
    ASSUME NEW m \in Model, NEW id \in Ids
    PROVE  FromTarget(m, id) \in Entries /\ FromTarget(m, id).id = id
           /\ FromTarget(m, id).price = "none"
<1> DEFINE W == {w \in SUBSET Window : Cardinality(w) <= 1}
<1> HIDE DEF W
<1>1. Model = [id : Ids \cup {NoId}, named : BOOLEAN, input : Nat, output : Nat,
               window : W, price : {"free", "billed", "none"}, isDefault : BOOLEAN]
  BY DEF W, Model
<1> DEFINE n == [[m EXCEPT !.id = id] EXCEPT !.price = "none"]
<1>2. n \in Model /\ n.id = id /\ n.price = "none"
  BY <1>1
<1>3. FromTarget(m, id) = n
  BY <1>1 DEF FromTarget
<1> HIDE DEF n
<1> QED
  BY <1>2, <1>3 DEF Entries

\* Specs have ids, be it their own or their keys.
IdAt(specs, k) == IF specs[k].model.id = NoId THEN k ELSE specs[k].model.id

LEMMA SpecListOK ==
    ASSUME NEW specs, IsFiniteSet(DOMAIN specs), DOMAIN specs \subseteq Ids,
           \A k \in DOMAIN specs : specs[k].model \in Model
    PROVE  /\ SpecList(specs) \in Seq(Entries)
           /\ \A id \in IdsOf(SpecList(specs)) :
                 \E k \in DOMAIN specs : specs[k].fields # {} /\ id = IdAt(specs, k)
<1> DEFINE K == {k \in DOMAIN specs : looksLikeModelSpec(specs[k])}
           keys == SetToSeq(K)
           n == Cardinality(K)
           Named(k) == IF specs[k].model.id = NoId
                       THEN [specs[k].model EXCEPT !.id = k] ELSE specs[k].model
           r == [i \in DOMAIN keys |-> Named(keys[i])]
<1>1. K \subseteq DOMAIN specs /\ \A k \in K : specs[k].fields # {}
  BY DEF looksLikeModelSpec
<1>2. IsFiniteSet(K)
  BY <1>1, FS_Subset
<1>0. SpecList(specs) = r
  BY DEF SpecList
<1> HIDE DEF K
<1>3. n \in Nat /\ \E f \in [1..n -> K] : IsInjective(f)
  BY <1>2, FS_CardinalityType DEF ExistsBijection, Bijection, Injection
<1>4. keys \in [1..n -> K]
  BY <1>3 DEF SetToSeq
<1> HIDE DEF keys, n
<1>5. ASSUME NEW k \in K
      PROVE  Named(k) \in Entries /\ Named(k).id = IdAt(specs, k)
  <2>1. k \in Ids /\ specs[k].model \in Model
    BY <1>1
  <2>2. CASE specs[k].model.id = NoId
    BY <2>1, <2>2, Renamed DEF IdAt
  <2>3. CASE specs[k].model.id # NoId
    BY <2>1, <2>3, ModelFields DEF Entries, IdAt
  <2> QED
    BY <2>2, <2>3
<1> HIDE DEF Named
<1>6. /\ r = [i \in 1..n |-> r[i]]
      /\ \A i \in 1..n : r[i] \in Entries /\ r[i].id = IdAt(specs, keys[i])
  BY <1>4, <1>5
<1> HIDE DEF r
<1>7. r \in Seq(Entries) /\ Len(r) = n
  BY <1>3, <1>6, IsSequence
<1>8. \A id \in IdsOf(r) : \E k \in K : id = IdAt(specs, k)
  <2> TAKE id \in IdsOf(r)
  <2>1. PICK i \in 1..n : r[i].id = id
    BY <1>7, HasId
  <2>2. keys[i] \in K
    BY <1>4
  <2> QED
    BY <1>6, <2>1, <2>2
<1> QED
  BY <1>0, <1>1, <1>7, <1>8

\* An array is an array of entries, less those without an id.
LEMMA ArrayOK ==
    ASSUME NEW items \in Seq(Model)
    PROVE  LET r == Sift(items, {m \in Range(items) : m.id # NoId})
           IN  r \in Seq(Entries) /\ \A x \in Range(r) : x \in Range(items)
<1> DEFINE r == Sift(items, {m \in Range(items) : m.id # NoId})
<1>1. r \in Seq(Model) /\ \A x : x \in Range(r) => x.id # NoId /\ x \in Range(items)
  BY SiftOK
<1> HIDE DEF r
<1>2. Len(r) \in Nat /\ r = [i \in 1..Len(r) |-> r[i]]
  BY <1>1
<1>3. \A i \in 1..Len(r) : r[i] \in Entries
  <2> TAKE i \in 1..Len(r)
  <2>1. r[i] \in Range(r) /\ r[i] \in Model
    BY <1>1, SequenceOf, ElementsOf
  <2> QED
    BY <1>1, <2>1, ModelFields DEF Entries
<1>4. r \in Seq(Entries)
  BY <1>2, <1>3, IsSequence
<1> QED
  BY <1>1, <1>4 DEF r

LEMMA WrapperPlace ==
    ASSUME NEW I \in SUBSET (1..Len(WrapperKeys)), NEW at,
           at = IF I # {} THEN Min(I) ELSE 0, at # 0
    PROVE  at \in I
<1>1. I \in SUBSET Nat /\ I # {}
  OBVIOUS
<1> QED
  BY <1>1, LeastNumber

\* What is read off a node itself, without opening what is in it.
ReadOff(node, r) ==
    \/ /\ node.kind = "array"
       /\ r = Sift(node.items, {m \in Range(node.items) : m.id # NoId})
    \/ node.kind = "object" /\ r = SpecList(node.specs)
    \/ r = <<>>

SpelledIn(nodes) == UNION {Spelled(node) : node \in nodes}

LEMMA ReadOffOK ==
    ASSUME NEW nodes, nodes \subseteq Nodes, NEW node \in nodes, NEW r, ReadOff(node, r)
    PROVE  r \in Seq(Entries) /\ IdsOf(r) \subseteq SpelledIn(nodes)
<1>1. IsNode(node)
  BY NodesAssumption
<1>2. \A id \in Spelled(node) : id \in SpelledIn(nodes)
  BY DEF SpelledIn
<1>3. CASE node.kind = "array" /\ r = Sift(node.items, {m \in Range(node.items) : m.id # NoId})
  <2>1. r \in Seq(Entries) /\ \A x \in Range(r) : x \in Range(node.items)
    BY <1>1, <1>3, ArrayOK DEF IsNode
  <2>2. \A x \in Range(r) : x.id \in Ids
    BY <2>1, ElementsOf, SequenceOf, EntryFields
  <2>3. \A x \in Range(r) : x.id \in Spelled(node)
    BY <1>3, <2>1, <2>2 DEF Spelled
  <2> QED
    BY <1>2, <2>1, <2>3 DEF IdsOf
<1>4. CASE node.kind = "object" /\ r = SpecList(node.specs)
  <2>1. /\ r \in Seq(Entries)
        /\ \A id \in IdsOf(r) : \E k \in DOMAIN node.specs :
              node.specs[k].fields # {} /\ id = IdAt(node.specs, k)
    BY <1>1, <1>4, SpecListOK DEF IsNode
  <2>2. \A id \in IdsOf(r) : id \in Ids
    <3> TAKE id \in IdsOf(r)
    <3>1. PICK i \in 1..Len(r) : r[i].id = id
      BY <2>1, HasId
    <3>2. r[i] \in Entries
      BY <2>1, SequenceOf
    <3> QED
      BY <3>1, <3>2, EntryFields
  <2>3. \A id \in IdsOf(r) : id \in Spelled(node)
    BY <1>4, <2>1, <2>2 DEF Spelled, IdAt
  <2> QED
    BY <1>2, <2>1, <2>3
<1>5. CASE r = <<>>
  <2>1. <<>> \in Seq(Entries)
    BY EmptySequence
  <2> QED
    BY <1>5, <2>1, NoElements
<1> QED
  BY <1>3, <1>4, <1>5 DEF ReadOff

\* What is in a node is a node, one wrapper further in.
LEMMA InsideOK ==
    ASSUME NEW nodes, nodes \subseteq Nodes
    PROVE  /\ nodes \subseteq Inside(nodes) /\ Inside(nodes) \subseteq Nodes
           /\ \A node \in nodes : node.kind = "object" =>
                 \A k \in DOMAIN node.wraps : node.wraps[k] \in Inside(nodes)
<1>1. \A node \in nodes : node.kind = "object" =>
         \A k \in DOMAIN node.wraps : node.wraps[k] \in Nodes
  BY NodesAssumption DEF IsNode
<1>2. \A x : x \in Inside(nodes) <=>
         \/ x \in nodes
         \/ \E node \in nodes : node.kind = "object" /\ x \in Range(node.wraps)
  BY DEF Inside
<1>3. \A f, x : x \in Range(f) <=> \E k \in DOMAIN f : f[k] = x
  BY DEF Range
<1> QED
  BY <1>1, <1>2, <1>3

LEMMA Reached ==
    ASSUME NEW nodes, nodes \subseteq Nodes
    PROVE  /\ SpelledIn(nodes) \subseteq SpelledIn(Inside(nodes))
           /\ SpelledIn(nodes) \subseteq SpelledIn(Inside(Inside(nodes)))
           /\ SpelledIn(nodes) \subseteq SpelledIn(Inside(Inside(Inside(nodes))))
<1>1. /\ Inside(nodes) \subseteq Nodes /\ Inside(Inside(nodes)) \subseteq Nodes
      /\ nodes \subseteq Inside(nodes) /\ Inside(nodes) \subseteq Inside(Inside(nodes))
      /\ Inside(Inside(nodes)) \subseteq Inside(Inside(Inside(nodes)))
  BY InsideOK
<1>2. \A a, b : a \subseteq b => SpelledIn(a) \subseteq SpelledIn(b)
  BY DEF SpelledIn
<1> QED
  BY <1>1, <1>2

\* What a node is decoded into is read off it, or off what is in it.
LEMMA Depth3Is ==
    \A node \in Nodes :
        \/ ReadOff(node, Depth3(node))
<1> TAKE node \in Nodes
<1> DEFINE I == {i \in 1..Len(WrapperKeys) :
                    WrapperKeys[i] \in DOMAIN node.wraps
                      /\ TooDeep(node.wraps[WrapperKeys[i]]) # <<>>}
           at == IF I # {} THEN Min(I) ELSE 0
<1>1. Depth3(node) =
         CASE node.kind = "array" ->
                Sift(node.items, {m \in Range(node.items) : m.id # NoId})
           [] node.kind = "object" /\ at # 0 -> TooDeep(node.wraps[WrapperKeys[at]])
           [] node.kind = "object" /\ DOMAIN node.wraps = {} -> SpecList(node.specs)
           [] OTHER -> <<>>
  BY DEF Depth3, DecodeNode, SelectInSeq
<1>2. at = 0
  <2>1. I = {}
    BY DEF TooDeep
  <2> HIDE DEF I
  <2> QED
    BY <2>1
<1> HIDE DEF at
<1> QED
  BY <1>1, <1>2 DEF ReadOff

LEMMA Depth2Is ==
    \A node \in Nodes :
        \/ ReadOff(node, Depth2(node))
        \/ /\ node.kind = "object"
           /\ \E k \in DOMAIN node.wraps : Depth2(node) = Depth3(node.wraps[k])
<1> TAKE node \in Nodes
<1> DEFINE I == {i \in 1..Len(WrapperKeys) :
                    WrapperKeys[i] \in DOMAIN node.wraps
                      /\ Depth3(node.wraps[WrapperKeys[i]]) # <<>>}
           at == IF I # {} THEN Min(I) ELSE 0
<1>1. Depth2(node) =
         CASE node.kind = "array" ->
                Sift(node.items, {m \in Range(node.items) : m.id # NoId})
           [] node.kind = "object" /\ at # 0 -> Depth3(node.wraps[WrapperKeys[at]])
           [] node.kind = "object" /\ DOMAIN node.wraps = {} -> SpecList(node.specs)
           [] OTHER -> <<>>
  BY DEF Depth2, DecodeNode, SelectInSeq
<1>2. at # 0 => WrapperKeys[at] \in DOMAIN node.wraps
  <2>1. /\ I \in SUBSET (1..Len(WrapperKeys))
        /\ \A i \in I : WrapperKeys[i] \in DOMAIN node.wraps
    OBVIOUS
  <2> HIDE DEF I
  <2> QED
    BY <2>1, WrapperPlace
<1> HIDE DEF at
<1> QED
  BY <1>1, <1>2 DEF ReadOff

LEMMA Depth1Is ==
    \A node \in Nodes :
        \/ ReadOff(node, Depth1(node))
        \/ /\ node.kind = "object"
           /\ \E k \in DOMAIN node.wraps : Depth1(node) = Depth2(node.wraps[k])
<1> TAKE node \in Nodes
<1> DEFINE I == {i \in 1..Len(WrapperKeys) :
                    WrapperKeys[i] \in DOMAIN node.wraps
                      /\ Depth2(node.wraps[WrapperKeys[i]]) # <<>>}
           at == IF I # {} THEN Min(I) ELSE 0
<1>1. Depth1(node) =
         CASE node.kind = "array" ->
                Sift(node.items, {m \in Range(node.items) : m.id # NoId})
           [] node.kind = "object" /\ at # 0 -> Depth2(node.wraps[WrapperKeys[at]])
           [] node.kind = "object" /\ DOMAIN node.wraps = {} -> SpecList(node.specs)
           [] OTHER -> <<>>
  BY DEF Depth1, DecodeNode, SelectInSeq
<1>2. at # 0 => WrapperKeys[at] \in DOMAIN node.wraps
  <2>1. /\ I \in SUBSET (1..Len(WrapperKeys))
        /\ \A i \in I : WrapperKeys[i] \in DOMAIN node.wraps
    OBVIOUS
  <2> HIDE DEF I
  <2> QED
    BY <2>1, WrapperPlace
<1> HIDE DEF at
<1> QED
  BY <1>1, <1>2 DEF ReadOff

LEMMA DecodedIs ==
    \A node \in Nodes :
        \/ ReadOff(node, decodeModelList(node))
        \/ /\ node.kind = "object"
           /\ \E k \in DOMAIN node.wraps : decodeModelList(node) = Depth1(node.wraps[k])
<1> TAKE node \in Nodes
<1> DEFINE I == {i \in 1..Len(WrapperKeys) :
                    WrapperKeys[i] \in DOMAIN node.wraps
                      /\ Depth1(node.wraps[WrapperKeys[i]]) # <<>>}
           at == IF I # {} THEN Min(I) ELSE 0
<1>1. decodeModelList(node) =
         CASE node.kind = "array" ->
                Sift(node.items, {m \in Range(node.items) : m.id # NoId})
           [] node.kind = "object" /\ at # 0 -> Depth1(node.wraps[WrapperKeys[at]])
           [] node.kind = "object" /\ DOMAIN node.wraps = {} -> SpecList(node.specs)
           [] OTHER -> <<>>
  BY DEF decodeModelList, DecodeNode, SelectInSeq
<1>2. at # 0 => WrapperKeys[at] \in DOMAIN node.wraps
  <2>1. /\ I \in SUBSET (1..Len(WrapperKeys))
        /\ \A i \in I : WrapperKeys[i] \in DOMAIN node.wraps
    OBVIOUS
  <2> HIDE DEF I
  <2> QED
    BY <2>1, WrapperPlace
<1> HIDE DEF at
<1> QED
  BY <1>1, <1>2 DEF ReadOff

\* It is a list of entries, whose ids the nodes it was reached through spell
\* out.
LEMMA Depth3OK ==
    ASSUME NEW nodes, nodes \subseteq Nodes, NEW node \in nodes
    PROVE  Depth3(node) \in Seq(Entries) /\ IdsOf(Depth3(node)) \subseteq SpelledIn(nodes)
  BY Depth3Is, ReadOffOK

LEMMA Depth2OK ==
    ASSUME NEW nodes, nodes \subseteq Nodes, NEW node \in nodes
    PROVE  Depth2(node) \in Seq(Entries) /\ IdsOf(Depth2(node)) \subseteq SpelledIn(Inside(nodes))
<1>1. /\ nodes \subseteq Inside(nodes) /\ Inside(nodes) \subseteq Nodes
      /\ node.kind = "object" => \A k \in DOMAIN node.wraps : node.wraps[k] \in Inside(nodes)
  BY InsideOK
<1>2. CASE ReadOff(node, Depth2(node))
  <2>1. Depth2(node) \in Seq(Entries) /\ IdsOf(Depth2(node)) \subseteq SpelledIn(nodes)
    BY <1>2, ReadOffOK
  <2> QED
    BY <2>1, Reached
<1>3. CASE /\ node.kind = "object"
           /\ \E k \in DOMAIN node.wraps : Depth2(node) = Depth3(node.wraps[k])
  BY <1>1, <1>3, Depth3OK
<1> QED
  BY <1>2, <1>3, Depth2Is

LEMMA Depth1OK ==
    ASSUME NEW nodes, nodes \subseteq Nodes, NEW node \in nodes
    PROVE  Depth1(node) \in Seq(Entries) /\ IdsOf(Depth1(node)) \subseteq SpelledIn(Inside(Inside(nodes)))
<1>1. /\ nodes \subseteq Inside(nodes) /\ Inside(nodes) \subseteq Nodes
      /\ node.kind = "object" => \A k \in DOMAIN node.wraps : node.wraps[k] \in Inside(nodes)
  BY InsideOK
<1>2. CASE ReadOff(node, Depth1(node))
  <2>1. Depth1(node) \in Seq(Entries) /\ IdsOf(Depth1(node)) \subseteq SpelledIn(nodes)
    BY <1>2, ReadOffOK
  <2> QED
    BY <2>1, Reached
<1>3. CASE /\ node.kind = "object"
           /\ \E k \in DOMAIN node.wraps : Depth1(node) = Depth2(node.wraps[k])
  BY <1>1, <1>3, Depth2OK
<1> QED
  BY <1>2, <1>3, Depth1Is

LEMMA DecodedOK ==
    ASSUME NEW nodes, nodes \subseteq Nodes, NEW node \in nodes
    PROVE  decodeModelList(node) \in Seq(Entries) /\ IdsOf(decodeModelList(node)) \subseteq SpelledIn(Inside(Inside(Inside(nodes))))
<1>1. /\ nodes \subseteq Inside(nodes) /\ Inside(nodes) \subseteq Nodes
      /\ node.kind = "object" => \A k \in DOMAIN node.wraps : node.wraps[k] \in Inside(nodes)
  BY InsideOK
<1>2. CASE ReadOff(node, decodeModelList(node))
  <2>1. decodeModelList(node) \in Seq(Entries) /\ IdsOf(decodeModelList(node)) \subseteq SpelledIn(nodes)
    BY <1>2, ReadOffOK
  <2> QED
    BY <2>1, Reached
<1>3. CASE /\ node.kind = "object"
           /\ \E k \in DOMAIN node.wraps : decodeModelList(node) = Depth1(node.wraps[k])
  BY <1>1, <1>3, Depth1OK
<1> QED
  BY <1>2, <1>3, DecodedIs

\* Whatever upstream serves, a catalog is a list of entries with ids, which the
\* payload spells out.
LEMMA ExtractSpelled ==
    ASSUME NEW nodes, nodes \subseteq Nodes, NEW node \in nodes
    PROVE  /\ extractModels(node) \in Seq(Entries)
           /\ IdsOf(extractModels(node))
                 \subseteq SpelledIn(Inside(Inside(Inside(Inside(nodes)))))
<1> DEFINE four == Inside(Inside(Inside(Inside(nodes))))
<1>1. /\ Inside(nodes) \subseteq Nodes
      /\ node.kind = "object" => \A k \in DOMAIN node.wraps : node.wraps[k] \in Inside(nodes)
      /\ nodes \subseteq Inside(nodes)
  BY InsideOK
<1>2. node.kind = "object" /\ "models" \in DOMAIN node.wraps =>
         /\ decodeModelList(node.wraps["models"]) \in Seq(Entries)
         /\ IdsOf(decodeModelList(node.wraps["models"])) \subseteq SpelledIn(four)
  BY <1>1, DecodedOK
<1>3. /\ decodeModelList(node) \in Seq(Entries)
      /\ IdsOf(decodeModelList(node)) \subseteq SpelledIn(four)
  BY <1>1, DecodedOK
<1> HIDE DEF four
<1> QED
  BY <1>2, <1>3 DEF extractModels, four

LEMMA ExtractOK ==
    ASSUME NEW node \in Nodes
    PROVE  extractModels(node) \in Seq(Entries)
  BY ExtractSpelled

\* A description is of the very id, and free only if the other realm or a
\* measurement has it so.
LEMMA DescribeOK ==
    ASSUME NEW primary \in Seq(Entries), NEW cross \in Seq(Entries), NEW id \in Ids,
           NEW target
    PROVE  LET d == Describe(id, target, primary, cross)
           IN  /\ d \in Entries /\ d.id = id
               /\ d.price = "free" =>
                     \/ id \in DOMAIN Measured /\ Measured[id].price = "free"
                     \/ \E x \in Range(cross) : x.id = id /\ x.price = "free"
<1>1. CASE id \in IdsOf(cross)
  <2>1. Entry(cross, id) \in 1..Len(cross) /\ cross[Entry(cross, id)].id = id
    BY <1>1, EntryPlace
  <2>2. cross[Entry(cross, id)] \in Entries /\ cross[Entry(cross, id)] \in Range(cross)
    BY <2>1, SequenceOf, ElementsOf
  <2> QED
    BY <1>1, <2>1, <2>2 DEF Describe
<1>2. CASE id \notin IdsOf(cross) /\ id \in DOMAIN Measured
  <2>1. Measured[id] \in Entries /\ Measured[id].id = id
    BY <1>2, CatalogAssumption DEF Entries
  <2> QED
    BY <1>2, <2>1 DEF Describe
<1>3. CASE id \notin IdsOf(cross) /\ id \notin DOMAIN Measured /\ target \in IdsOf(primary)
  <2>1. primary[Entry(primary, target)] \in Model
    BY <1>3, EntryPlace, SequenceOf, EntryFields
  <2>2. Describe(id, target, primary, cross)
           = FromTarget(primary[Entry(primary, target)], id)
    BY <1>3 DEF Describe
  <2> QED
    BY <2>1, <2>2, Unpriced
<1>4. CASE id \notin IdsOf(cross) /\ id \notin DOMAIN Measured /\ target \notin IdsOf(primary)
  <2>1. Describe(id, target, primary, cross) = Bare(id)
    BY <1>4 DEF Describe
  <2> QED
    BY <2>1, BareOK
<1> QED
  BY <1>1, <1>2, <1>3, <1>4

\* Supplements: the servable ids that are mentioned and that no primary catalog
\* has.
LEMMA SupplementsOK ==
    ASSUME NEW mentions \in Seq(Mention), NEW primary \in Seq(Entries),
           NEW cross \in Seq(Entries)
    PROVE  LET r == buildSupplements(mentions, primary, cross)
           IN  /\ r \in Seq(Entries) /\ Distinct(r)
               /\ \A d \in Range(r) :
                     /\ d.id \notin IdsOf(primary)
                     /\ \E x \in Range(mentions) : x.id = d.id
                     /\ d.price = "free" =>
                           \/ d.id \in DOMAIN Measured /\ Measured[d.id].price = "free"
                           \/ \E x \in Range(cross) : x.id = d.id /\ x.price = "free"
               /\ IdsOf(r) = {id \in {x.id : x \in Range(mentions)} \cap Ids :
                                Servable(Bare(id))} \ IdsOf(primary)
<1> DEFINE all == extractSupplementIDs(mentions)
           K == {id \in Ids : id \notin IdsOf(primary) /\ Servable(Bare(id))}
           ids == Sift(all, K)
           r == buildSupplements(mentions, primary, cross)
<1>1. /\ all \in Seq(Ids) /\ \A i, j \in 1..Len(all) : all[i] = all[j] => i = j
      /\ \A i \in 1..Len(all) : \E x \in Range(mentions) : x.id = all[i]
      /\ \A x \in Range(mentions) : x.id # NoId => x.id \in Range(all)
  BY MentionsOK
<1>2. r = [i \in DOMAIN ids |-> Describe(ids[i], Target(mentions, ids[i]), primary, cross)]
  BY DEF buildSupplements
<1>3. /\ K \subseteq Ids /\ \A id \in K : id \notin IdsOf(primary)
      /\ \A id : id \in K <=> /\ id \in Ids /\ id \notin IdsOf(primary)
                               /\ Servable(Bare(id))
      /\ NoId \notin Ids
  BY CatalogAssumption
<1> HIDE DEF all, K, r
<1>4. /\ ids \in Seq(Ids) /\ \A x : x \in Range(ids) <=> x \in K /\ x \in Range(all)
      /\ \E at \in [1..Len(ids) -> 1..Len(all)] :
            /\ \A i \in 1..Len(ids) : ids[i] = all[at[i]]
            /\ \A i, j \in 1..Len(ids) : i < j => at[i] < at[j]
  BY <1>1, SiftOK
<1> HIDE DEF ids
<1>5. Len(ids) \in Nat /\ DOMAIN ids = 1..Len(ids) /\ Len(all) \in Nat
  BY <1>1, <1>4, SequenceOf
<1>6. ASSUME NEW i \in 1..Len(ids)
      PROVE  /\ ids[i] \in Ids /\ ids[i] \notin IdsOf(primary)
             /\ \E x \in Range(mentions) : x.id = ids[i]
  <2>1. ids[i] \in Range(ids) /\ ids[i] \in Ids
    BY <1>4, SequenceOf, ElementsOf
  <2>2. ids[i] \in K /\ ids[i] \in Range(all)
    BY <1>4, <2>1
  <2>3. PICK j \in 1..Len(all) : all[j] = ids[i]
    BY <1>1, <2>2, ElementsOf
  <2> QED
    BY <1>1, <1>3, <2>1, <2>2, <2>3
<1>7. \A i, j \in 1..Len(ids) : ids[i] = ids[j] => i = j
  <2>1. PICK at \in [1..Len(ids) -> 1..Len(all)] :
            /\ \A i \in 1..Len(ids) : ids[i] = all[at[i]]
            /\ \A i, j \in 1..Len(ids) : i < j => at[i] < at[j]
    BY <1>4
  <2>2. ASSUME NEW i \in 1..Len(ids), NEW j \in 1..Len(ids), ids[i] = ids[j]
        PROVE  i = j
    <3>1. at[i] \in 1..Len(all) /\ at[j] \in 1..Len(all)
      OBVIOUS
    <3>2. at[i] = at[j]
      BY <1>1, <2>1, <2>2, <3>1
    <3> QED
      BY <1>5, <2>1, <3>1, <3>2
  <2> QED
    BY <2>2
<1> DEFINE Fair(d) == d.price = "free" =>
                        \/ d.id \in DOMAIN Measured /\ Measured[d.id].price = "free"
                        \/ \E x \in Range(cross) : x.id = d.id /\ x.price = "free"
<1>8. \A i \in 1..Len(ids) : r[i] \in Entries /\ r[i].id = ids[i] /\ Fair(r[i])
  <2> TAKE i \in 1..Len(ids)
  <2>1. r[i] = Describe(ids[i], Target(mentions, ids[i]), primary, cross)
    BY <1>2, <1>5
  <2> QED
    BY <1>6, <2>1, DescribeOK
<1>9. r = [i \in 1..Len(ids) |-> r[i]]
  BY <1>2, <1>5
<1>10. r \in Seq(Entries) /\ Len(r) = Len(ids)
  BY <1>5, <1>8, <1>9, IsSequence
<1>11. Distinct(r)
  BY <1>7, <1>8, <1>10 DEF Distinct
<1> HIDE DEF Fair
<1>12. \A d \in Range(r) : /\ d.id \notin IdsOf(primary)
                           /\ \E x \in Range(mentions) : x.id = d.id
                           /\ Fair(d)
  <2> TAKE d \in Range(r)
  <2>1. PICK i \in 1..Len(ids) : r[i] = d
    BY <1>10, ElementsOf
  <2> QED
    BY <1>6, <1>8, <2>1
<1>13. \A id : id \in IdsOf(r) <=> id \in Range(ids)
  <2>1. \A id : id \in IdsOf(r) <=> \E i \in 1..Len(ids) : r[i].id = id
    BY <1>10, ElementsOf DEF IdsOf
  <2>2. \A id : id \in Range(ids) <=> \E i \in 1..Len(ids) : ids[i] = id
    BY <1>4, ElementsOf
  <2> QED
    BY <1>8, <2>1, <2>2
<1>14. \A id : id \in Range(all) <=> id \in Ids /\ \E x \in Range(mentions) : x.id = id
  <2>1. \A id : id \in Range(all) <=> \E i \in 1..Len(all) : all[i] = id
    BY <1>1, ElementsOf
  <2>2. \A i \in 1..Len(all) : all[i] \in Ids
    BY <1>1, SequenceOf
  <2> QED
    BY <1>1, <1>3, <2>1, <2>2
<1> DEFINE named == {id \in {x.id : x \in Range(mentions)} \cap Ids : Servable(Bare(id))}
<1>15. IdsOf(r) = named \ IdsOf(primary)
  <2>1. \A id : id \in named <=> /\ id \in Ids /\ Servable(Bare(id))
                                 /\ \E x \in Range(mentions) : x.id = id
    OBVIOUS
  <2> HIDE DEF named
  <2> QED
    BY <1>3, <1>4, <1>13, <1>14, <2>1
<1> QED
  BY <1>10, <1>11, <1>12, <1>15 DEF r, Fair, named
-----------------------------------------------------------------------------
(***************************************************************************)
(* What is advertised.                                                     *)
(***************************************************************************)
\* A list of what is advertised, and what it was made of.
ListedFrom(infos, models) ==
    \A info \in Range(infos) : \E m \in models : Servable(m) /\ info = Info(m)

LEMMA ContextOK ==
    ASSUME NEW m \in Model
    PROVE  /\ effectiveContextLength(m) \in Nat
           /\ m.input > 0 => /\ effectiveContextLength(m) > 0
                             /\ effectiveContextLength(m) <= m.input
<1> DEFINE w == CHOOSE w \in m.window : TRUE
           supported == normalizeContextLengths(w.lengths, m.input)
<1>0. m.input \in Nat /\ m.window \in SUBSET Window
  BY ModelFields
<1>1. effectiveContextLength(m) =
         IF m.window = {} \/ Cardinality(supported) < 2 THEN m.input
         ELSE IF w.default > 0 /\ w.default \in supported THEN w.default
         ELSE Min(supported)
  BY DEF effectiveContextLength
<1>2. CASE m.window = {} \/ Cardinality(supported) < 2
  <2>1. effectiveContextLength(m) = m.input
    BY <1>1, <1>2
  <2> QED
    BY <1>0, <2>1
<1>3. CASE ~(m.window = {} \/ Cardinality(supported) < 2)
  <2>1. w \in Window
    BY <1>0, <1>3
  <2> HIDE DEF w
  <2>2. w.lengths \in SUBSET Nat
    BY <2>1 DEF Window
  <2>3. /\ supported \in SUBSET Nat
        /\ \A n \in supported : n > 0 /\ (m.input > 0 => n <= m.input)
    BY <2>2 DEF normalizeContextLengths
  <2> HIDE DEF supported
  <2>4. supported # {}
    BY <1>3, FS_EmptySet
  <2>5. Min(supported) \in supported
    BY <2>3, <2>4, LeastNumber
  <2>6. effectiveContextLength(m) \in supported
    BY <1>1, <1>3, <2>5
  <2> QED
    BY <2>3, <2>6
<1> QED
  BY <1>2, <1>3

LEMMA InfoOK ==
    ASSUME NEW m \in Model, m.id \in Ids
    PROVE  /\ Info(m) \in Listing /\ Info(m).id = m.id
           /\ m.input > 0 => Info(m).context <= m.input
<1> DEFINE c == OrDefault(effectiveContextLength(m), DefaultContext)
           o == OrDefault(m.output, DefaultOutput)
<1>1. c \in Nat \ {0} /\ (m.input > 0 => c <= m.input)
  BY ContextOK, CatalogAssumption DEF OrDefault
<1>2. o \in Nat \ {0}
  BY ModelFields, CatalogAssumption DEF OrDefault
<1>3. Info(m) = [id |-> m.id, context |-> c, output |-> o]
  BY DEF Info
<1> HIDE DEF c, o
<1> QED
  BY <1>1, <1>2, <1>3 DEF Listing

\* Each servable entry is advertised under its id, at a place of its own.
LEMMA InfosOK ==
    ASSUME NEW models \in Seq(Model)
    PROVE  LET r == toModelInfos(models)
           IN  /\ r \in Seq(Listing)
               /\ \A id : id \in IdsOf(r) <=> \E m \in Range(models) : Servable(m) /\ m.id = id
               /\ ListedFrom(r, Range(models))
               /\ Distinct(models) => Distinct(r)
<1> DEFINE K == {m \in Range(models) : Servable(m)}
           s == Sift(models, K)
           r == toModelInfos(models)
<1>1. r = [i \in DOMAIN s |-> Info(s[i])]
  BY DEF toModelInfos
<1>a. \A x : x \in K <=> x \in Range(models) /\ Servable(x)
  OBVIOUS
<1> HIDE DEF K, r
<1>2. s \in Seq(Model) /\ \A x : x \in Range(s) <=> x \in K /\ x \in Range(models)
  BY SiftOK
<1>3. Distinct(models) => Distinct(s)
  BY SiftDistinct
<1> HIDE DEF s
<1>4. Len(s) \in Nat /\ DOMAIN s = 1..Len(s)
  BY <1>2, SequenceOf
<1>5. ASSUME NEW i \in 1..Len(s)
      PROVE  /\ s[i] \in Range(models) /\ Servable(s[i])
             /\ r[i] \in Listing /\ r[i] = Info(s[i]) /\ r[i].id = s[i].id
  <2>1. s[i] \in Range(s) /\ s[i] \in Model
    BY <1>2, SequenceOf, ElementsOf
  <2>2. s[i] \in Range(models) /\ Servable(s[i])
    BY <1>a, <1>2, <2>1
  <2>3. s[i].id \in Ids
    BY <2>1, <2>2, ModelFields DEF Servable
  <2>4. r[i] = Info(s[i])
    BY <1>1, <1>4
  <2> QED
    BY <2>1, <2>2, <2>3, <2>4, InfoOK
<1>6. r = [i \in 1..Len(s) |-> r[i]]
  BY <1>1, <1>4
<1>7. r \in Seq(Listing) /\ Len(r) = Len(s)
  BY <1>4, <1>5, <1>6, IsSequence
<1>8. Distinct(models) => Distinct(r)
  BY <1>3, <1>5, <1>7 DEF Distinct
<1>9. ASSUME NEW info \in Range(r)
      PROVE  \E m \in Range(models) : Servable(m) /\ info = Info(m)
  <2>1. PICK i \in 1..Len(s) : r[i] = info
    BY <1>7, ElementsOf
  <2> QED
    BY <1>5, <2>1
<1>10. ASSUME NEW id
       PROVE  id \in IdsOf(r) <=> \E m \in Range(models) : Servable(m) /\ m.id = id
  <2>1. id \in IdsOf(r) <=> \E i \in 1..Len(s) : r[i].id = id
    BY <1>7, HasId
  <2>2. ASSUME NEW m \in Range(models), Servable(m), m.id = id
        PROVE  \E i \in 1..Len(s) : r[i].id = id
    <3>1. m \in Range(s)
      BY <1>a, <1>2, <2>2
    <3>2. PICK i \in 1..Len(s) : s[i] = m
      BY <1>2, <3>1, ElementsOf
    <3> QED
      BY <1>5, <2>2, <3>2
  <2> QED
    BY <1>5, <2>1, <2>2
<1> QED
  BY <1>7, <1>8, <1>9, <1>10 DEF r, ListedFrom

LEMMA NothingListed == toModelInfos(<<>>) = <<>>
<1> DEFINE r == toModelInfos(<<>>)
<1>1. <<>> \in Seq(Model)
  BY EmptySequence
<1>2. r \in Seq(Listing) /\ \A id : id \in IdsOf(r)
                              <=> \E m \in Range(<<>>) : Servable(m) /\ m.id = id
  BY <1>1, InfosOK
<1> HIDE DEF r
<1>3. \A id : id \notin IdsOf(r)
  BY <1>2, NoElements
<1>4. Len(r) \in Nat /\ \A i \in 1..Len(r) : FALSE
  BY <1>2, <1>3, HasId, SequenceOf
<1>5. Len(r) = 0
  BY <1>4
<1> QED
  BY <1>2, <1>5 DEF r

\* Supplements are appended where their ids are not listed yet.
LEMMA SupplementedOK ==
    ASSUME NEW infos \in Seq(Listing), NEW supplements \in Seq(Model)
    PROVE  LET r == appendSupplements(infos, supplements)
           IN  /\ r \in Seq(Listing)
               /\ \A id : id \in IdsOf(r) <=>
                     id \in IdsOf(infos)
                        \/ \E m \in Range(supplements) : Servable(m) /\ m.id = id
               /\ Distinct(infos) => Distinct(r)
               /\ \A models : ListedFrom(infos, models)
                                 => ListedFrom(r, models \cup Range(supplements))
<1> DEFINE new == Unlisted(supplements, infos)
           more == toModelInfos(new)
           r == appendSupplements(infos, supplements)
<1>1. r = infos \o more
  BY DEF appendSupplements
<1>2. /\ new \in Seq(Entries) /\ Distinct(new)
      /\ \A x \in Range(new) : x \in Range(supplements) /\ Servable(x)
      /\ \A id : id \in IdsOf(new) <=>
            id \notin IdsOf(infos) /\ \E x \in Range(supplements) : Servable(x) /\ x.id = id
  BY UnlistedOK
<1> HIDE DEF new, r
<1>3. new \in Seq(Model) /\ \A id : id \in IdsOf(new) <=> \E x \in Range(new) : x.id = id
  <2>1. Entries \subseteq Model
    BY DEF Entries
  <2> QED
    BY <1>2, <2>1 DEF IdsOf
<1>4. /\ more \in Seq(Listing) /\ Distinct(more) /\ ListedFrom(more, Range(new))
      /\ \A id : id \in IdsOf(more) <=> \E m \in Range(new) : Servable(m) /\ m.id = id
  BY <1>2, <1>3, InfosOK
<1> HIDE DEF more
<1>5. \A id : id \in IdsOf(more) <=> id \in IdsOf(new)
  BY <1>2, <1>3, <1>4
<1>6. /\ r \in Seq(Listing) /\ Range(r) = Range(infos) \cup Range(more)
      /\ IdsOf(r) = IdsOf(infos) \cup IdsOf(more)
  BY <1>1, <1>4, Concatenated, ElementsOfBoth
<1>7. Distinct(infos) => Distinct(r)
  BY <1>1, <1>2, <1>4, <1>5, DistinctBoth
<1>8. ASSUME NEW models, ListedFrom(infos, models)
      PROVE  ListedFrom(r, models \cup Range(supplements))
  BY <1>2, <1>4, <1>6, <1>8 DEF ListedFrom
<1>9. \A id : id \in IdsOf(r) <=>
         id \in IdsOf(infos) \/ \E m \in Range(supplements) : Servable(m) /\ m.id = id
  BY <1>2, <1>5, <1>6
<1> QED
  BY <1>6, <1>7, <1>8, <1>9 DEF r

LEMMA FillOK ==
    ASSUME NEW entry \in Model, NEW live \in Model
    PROVE  LET f == fillFromCatalog(entry, live)
           IN  /\ f \in Model /\ f.id = entry.id /\ f.isDefault = entry.isDefault
               /\ f.input = IF entry.input > 0 THEN entry.input ELSE live.input
<1> DEFINE W == {w \in SUBSET Window : Cardinality(w) <= 1}
           f == [[[[entry EXCEPT !.named = entry.named \/ live.named]
                    EXCEPT !.window = IF entry.window = {} THEN live.window ELSE entry.window]
                    EXCEPT !.input = IF entry.input > 0 THEN entry.input ELSE live.input]
                    EXCEPT !.output = IF entry.output > 0 THEN entry.output ELSE live.output]
<1> HIDE DEF W
<1>1. Model = [id : Ids \cup {NoId}, named : BOOLEAN, input : Nat, output : Nat,
               window : W, price : {"free", "billed", "none"}, isDefault : BOOLEAN]
  BY DEF W, Model
<1>2. fillFromCatalog(entry, live) = f
  BY <1>1 DEF fillFromCatalog
<1> DEFINE named == entry.named \/ live.named
           window == IF entry.window = {} THEN live.window ELSE entry.window
           input == IF entry.input > 0 THEN entry.input ELSE live.input
           output == IF entry.output > 0 THEN entry.output ELSE live.output
<1>3. named \in BOOLEAN /\ window \in W /\ input \in Nat /\ output \in Nat
  BY <1>1
<1>4. f = [[[[entry EXCEPT !.named = named] EXCEPT !.window = window]
                    EXCEPT !.input = input] EXCEPT !.output = output]
  OBVIOUS
<1> HIDE DEF named, window, output, f
<1>5. f \in Model /\ f.id = entry.id /\ f.isDefault = entry.isDefault /\ f.input = input
  <2> HIDE DEF input
  <2> QED
    BY <1>1, <1>3, <1>4
<1> QED
  BY <1>2, <1>5

\* What a declared model is filled from.
LEMMA FilledOK ==
    ASSUME NEW full \in Seq(Model), NEW m \in Model
    PROVE  LET f == Filled(full, m)
           IN  /\ f \in Model /\ f.id = m.id /\ (Servable(f) <=> Servable(m))
               /\ m.input > 0 => f.input = m.input
               /\ ~(m.input > 0) =>
                     \/ \E x \in Range(full) : x.id = m.id /\ f.input = x.input
                     \/ /\ m.id \notin IdsOf(full)
                        /\ m.id \in DOMAIN Measured /\ f.input = Measured[m.id].input
                     \/ m.id \notin IdsOf(full) /\ m.id \notin DOMAIN Measured
<1>0. m.input \in Nat
  BY ModelFields
<1>1. CASE m.id \in IdsOf(full)
  <2> DEFINE live == full[Entry(full, m.id)]
  <2>1. live \in Model /\ live \in Range(full) /\ live.id = m.id
    BY <1>1, EntryPlace, SequenceOf, ElementsOf
  <2>2. Filled(full, m) = fillFromCatalog(m, live)
    BY <1>1 DEF Filled
  <2> HIDE DEF live
  <2> DEFINE f == fillFromCatalog(m, live)
  <2>3. /\ f \in Model /\ f.id = m.id /\ f.isDefault = m.isDefault
        /\ f.input = IF m.input > 0 THEN m.input ELSE live.input
    BY <2>1, FillOK
  <2> HIDE DEF f
  <2>4. Servable(f) <=> Servable(m)
    BY <2>3 DEF Servable, isRoutingAlias
  <2> QED
    BY <2>1, <2>2, <2>3, <2>4 DEF f
<1>2. CASE m.id \notin IdsOf(full) /\ m.id \in DOMAIN Measured
  <2> DEFINE live == Measured[m.id]
             f == fillFromCatalog(m, live)
  <2>1. live \in Model
    BY <1>2, CatalogAssumption
  <2>2. Filled(full, m) = f
    BY <1>2 DEF Filled
  <2>3. /\ f \in Model /\ f.id = m.id /\ f.isDefault = m.isDefault
        /\ f.input = IF m.input > 0 THEN m.input ELSE live.input
    BY <2>1, FillOK
  <2> HIDE DEF f
  <2>4. Servable(f) <=> Servable(m)
    BY <2>3 DEF Servable, isRoutingAlias
  <2> QED
    BY <1>2, <2>2, <2>3, <2>4
<1>3. CASE m.id \notin IdsOf(full) /\ m.id \notin DOMAIN Measured
  <2>1. Filled(full, m) = m
    BY <1>3 DEF Filled
  <2> QED
    BY <1>3, <2>1
<1> QED
  BY <1>1, <1>2, <1>3

\* Declared models are appended where their ids are not listed yet, filled.
LEMMA DeclaredOK ==
    ASSUME NEW infos \in Seq(Listing), NEW full \in Seq(Model), NEW extra \in Seq(Model)
    PROVE  LET r == appendExtraModels(infos, full, extra)
           IN  /\ r \in Seq(Listing)
               /\ \A id : id \in IdsOf(r) <=>
                     id \in IdsOf(infos)
                        \/ \E m \in Range(extra) : Servable(m) /\ m.id = id
               /\ Distinct(infos) => Distinct(r)
               /\ \A info \in Range(r) :
                     \/ info \in Range(infos)
                     \/ \E m \in Range(extra) : Servable(m) /\ info = Info(Filled(full, m))
<1> DEFINE new == Unlisted(extra, infos)
           filled == [i \in DOMAIN new |-> Filled(full, new[i])]
           more == toModelInfos(filled)
           r == appendExtraModels(infos, full, extra)
<1>1. r = infos \o more
  BY DEF appendExtraModels
<1>2. /\ new \in Seq(Entries) /\ Distinct(new)
      /\ \A x \in Range(new) : x \in Range(extra) /\ Servable(x)
      /\ \A id : id \in IdsOf(new) <=>
            id \notin IdsOf(infos) /\ \E x \in Range(extra) : Servable(x) /\ x.id = id
  BY UnlistedOK
<1> HIDE DEF new, r
<1>3. Len(new) \in Nat /\ DOMAIN new = 1..Len(new)
  BY <1>2, SequenceOf
<1>4. ASSUME NEW i \in 1..Len(new)
      PROVE  /\ filled[i] = Filled(full, new[i]) /\ filled[i] \in Model
             /\ filled[i].id = new[i].id /\ Servable(filled[i])
             /\ new[i] \in Range(new)
  <2>1. new[i] \in Range(new) /\ new[i] \in Model
    BY <1>2, SequenceOf, ElementsOf, EntryFields
  <2>2. filled[i] = Filled(full, new[i])
    BY <1>3
  <2> QED
    BY <1>2, <2>1, <2>2, FilledOK
<1>5. filled = [i \in 1..Len(new) |-> filled[i]]
  BY <1>3
<1> HIDE DEF filled
<1>6. filled \in Seq(Model) /\ Len(filled) = Len(new)
  BY <1>3, <1>4, <1>5, IsSequence
<1>7. Distinct(filled)
  BY <1>2, <1>4, <1>6 DEF Distinct
<1>8. \A id : id \in IdsOf(new) <=> \E m \in Range(filled) : Servable(m) /\ m.id = id
  <2> TAKE id
  <2>1. id \in IdsOf(new) <=> \E i \in 1..Len(new) : new[i].id = id
    BY <1>2, HasId
  <2>2. \A m : m \in Range(filled) <=> \E i \in 1..Len(new) : filled[i] = m
    BY <1>6, ElementsOf
  <2> QED
    BY <1>4, <2>1, <2>2
<1>9. /\ more \in Seq(Listing) /\ Distinct(more) /\ ListedFrom(more, Range(filled))
      /\ \A id : id \in IdsOf(more) <=> \E m \in Range(filled) : Servable(m) /\ m.id = id
  BY <1>6, <1>7, InfosOK
<1> HIDE DEF more
<1>10. \A id : id \in IdsOf(more) <=> id \in IdsOf(new)
  BY <1>8, <1>9
<1>11. /\ r \in Seq(Listing) /\ Range(r) = Range(infos) \cup Range(more)
       /\ IdsOf(r) = IdsOf(infos) \cup IdsOf(more)
  BY <1>1, <1>9, Concatenated, ElementsOfBoth
<1>12. Distinct(infos) => Distinct(r)
  BY <1>1, <1>2, <1>9, <1>10, DistinctBoth
<1>13. ASSUME NEW info \in Range(r), info \notin Range(infos)
       PROVE  \E m \in Range(extra) : Servable(m) /\ info = Info(Filled(full, m))
  <2>1. PICK m \in Range(filled) : info = Info(m)
    BY <1>9, <1>11, <1>13 DEF ListedFrom
  <2>2. PICK i \in 1..Len(new) : filled[i] = m
    BY <1>6, ElementsOf
  <2> QED
    BY <1>2, <1>4, <2>1, <2>2
<1>14. \A id : id \in IdsOf(r) <=>
         id \in IdsOf(infos) \/ \E m \in Range(extra) : Servable(m) /\ m.id = id
  BY <1>2, <1>10, <1>11
<1> QED
  BY <1>11, <1>12, <1>13, <1>14 DEF r

LEMMA OnlyAllowedOK ==
    ASSUME NEW remote \in Seq(Model), NEW allow, NEW extra
    PROVE  LET r == OnlyAllowed(remote, allow, extra)
           IN  /\ r \in Seq(Model) /\ (Distinct(remote) => Distinct(r))
               /\ \A x : x \in Range(r)
                     <=> x \in Range(remote) /\ x.id \in allow \cup IdsOf(extra)
<1> DEFINE K == {m \in Range(remote) : m.id \in allow \cup IdsOf(extra)}
<1>1. OnlyAllowed(remote, allow, extra) = Sift(remote, K)
  BY DEF OnlyAllowed
<1>2. \A x : x \in K <=> x \in Range(remote) /\ x.id \in allow \cup IdsOf(extra)
  OBVIOUS
<1> HIDE DEF K
<1> QED
  BY <1>1, <1>2, SiftOK, SiftDistinct
-----------------------------------------------------------------------------
(***************************************************************************)
(* What a discovery makes of an answer, under one configuration: the       *)
(* entries to publish, the list less and with the declared models, and the *)
(* pool.                                                                   *)
(***************************************************************************)
Publish(primary, cfg) ==
    IF cfg.mode = "allow" THEN OnlyAllowed(primary, cfg.allow, cfg.extra) ELSE primary

Withholds(forces, cfg) == cfg.mode # "allow" /\ cfg.prefix /\ ~forces

Undeclared(primary, supplements, forces, cfg) ==
    appendSupplements(
        toModelInfos(IF Withholds(forces, cfg) THEN <<>> ELSE Publish(primary, cfg)),
        supplements)

Listed(primary, supplements, forces, cfg) ==
    appendExtraModels(Undeclared(primary, supplements, forces, cfg),
                      mergeCatalogs(primary, supplements), cfg.extra)

\* What upstream answered some poller.
Answered(primary, supplements) ==
    \E p \in Pollers : \E a \in Answers[p] :
        primary = Primary(a) /\ supplements = Supplements(a)

Priced(m) == m.price = "free" =>
    \/ m.id \in DOMAIN Measured /\ Measured[m.id].price = "free"
    \/ \E p \in Pollers : \E a \in Answers[p] :
          \E body \in {a.console.body, a.v3.body, a.cross.body} :
             \E x \in Range(extractModels(body)) : x.id = m.id /\ x.price = "free"

LEMMA EntriesAreModels == Seq(Entries) \subseteq Seq(Model)
<1>1. Entries \subseteq Model
  BY DEF Entries
<1> QED
  BY <1>1

\* The servable ids an answer mentions.
Named(a) == {id \in MentionedBy(a) \cap Ids : Servable(Bare(id))}

\* The pieces of an answer: two lists of distinct ids that have none in common.
LEMMA AnsweredOK ==
    ASSUME NEW primary, NEW supplements, Answered(primary, supplements)
    PROVE  /\ primary \in Seq(Entries) /\ Distinct(primary)
           /\ supplements \in Seq(Entries) /\ Distinct(supplements)
           /\ \A d \in Range(supplements) : d.id \notin IdsOf(primary) /\ d.id \in Mentioned
           /\ \A m \in Range(primary) \cup Range(supplements) : Priced(m)
           /\ \E p \in Pollers : \E a \in Answers[p] :
                 /\ IdsOf(primary) = IdsOf(extractModels(a.console.body))
                                        \cup IdsOf(extractModels(a.v3.body))
                 /\ IdsOf(supplements) = Named(a) \ IdsOf(primary)
<1>0. PICK p \in Pollers : \E a \in Answers[p] :
         primary = Primary(a) /\ supplements = Supplements(a)
  BY DEF Answered
<1>1. PICK a \in Answers[p] : primary = Primary(a) /\ supplements = Supplements(a)
  BY <1>0
<1> DEFINE console == extractModels(a.console.body)
           v3 == extractModels(a.v3.body)
           cross == extractModels(a.cross.body)
           mentions == a.v3.mentions \o a.console.mentions \o a.cross.mentions
<1>2. /\ a.console.body \in Nodes /\ a.v3.body \in Nodes /\ a.cross.body \in Nodes
      /\ a.console.mentions \in Seq(Mention) /\ a.v3.mentions \in Seq(Mention)
      /\ a.cross.mentions \in Seq(Mention)
  BY DiscoveryAssumption DEF IsPayload
<1>3. console \in Seq(Entries) /\ v3 \in Seq(Entries) /\ cross \in Seq(Entries)
  BY <1>2, ExtractOK
<1>4. mentions \in Seq(Mention)
  <2>1. a.v3.mentions \o a.console.mentions \in Seq(Mention)
    BY <1>2, Concatenated
  <2> QED
    BY <1>2, <2>1, Concatenated
<1>5. primary = mergeCatalogs(console, v3)
  BY <1>1 DEF Primary
<1>6. supplements = buildSupplements(mentions, primary, cross)
  BY <1>1 DEF Supplements
<1>7. \A x \in Range(mentions) : x.id \in Mentioned
  <2>1. \A x \in Range(mentions) : x.id \in MentionedBy(a)
    BY DEF MentionedBy
  <2> QED
    BY <2>1 DEF Mentioned
<1>8. \A m : (\E x \in Range(console) \cup Range(v3) \cup Range(cross) :
                 x.id = m.id /\ x.price = "free")  => Priced(m)
  BY DEF Priced
<1>9. \A m : m.id \in DOMAIN Measured /\ Measured[m.id].price = "free" => Priced(m)
  BY DEF Priced
<1> DEFINE named == {id \in {x.id : x \in Range(mentions)} \cap Ids : Servable(Bare(id))}
<1>10. \E o \in Pollers : \E b \in Answers[o] :
          /\ IdsOf(console) \cup IdsOf(v3) = IdsOf(extractModels(b.console.body))
                                                \cup IdsOf(extractModels(b.v3.body))
          /\ named = Named(b)
  BY DEF Named, MentionedBy
<1> HIDE DEF console, v3, cross, mentions
<1>11. /\ primary \in Seq(Entries) /\ Distinct(primary)
       /\ IdsOf(primary) = IdsOf(console) \cup IdsOf(v3)
       /\ Range(primary) \subseteq Range(console) \cup Range(v3)
  BY <1>3, <1>5, MergeOK
<1>12. /\ supplements \in Seq(Entries) /\ Distinct(supplements)
       /\ \A d \in Range(supplements) :
             /\ d.id \notin IdsOf(primary)
             /\ \E x \in Range(mentions) : x.id = d.id
             /\ d.price = "free" =>
                   \/ d.id \in DOMAIN Measured /\ Measured[d.id].price = "free"
                   \/ \E x \in Range(cross) : x.id = d.id /\ x.price = "free"
       /\ IdsOf(supplements) = named \ IdsOf(primary)
  BY <1>3, <1>4, <1>6, <1>11, SupplementsOK
<1> HIDE DEF named
<1>13. \A m \in Range(primary) : Priced(m)
  <2>1. \A m \in Range(primary) : m.price # "free" => Priced(m)
    BY DEF Priced
  <2> QED
    BY <1>8, <1>11, <2>1
<1>14. \A m \in Range(supplements) : Priced(m)
  <2>1. \A m \in Range(supplements) : m.price # "free" => Priced(m)
    BY DEF Priced
  <2> QED
    BY <1>8, <1>9, <1>12, <2>1
<1> QED
  BY <1>7, <1>10, <1>11, <1>12, <1>13, <1>14

LEMMA OneOfAnId ==
    ASSUME NEW S, NEW s \in Seq(S), Distinct(s), NEW x \in Range(s), NEW y \in Range(s),
           x.id = y.id
    PROVE  x = y
<1>1. PICK i \in 1..Len(s) : s[i] = x
  BY ElementsOf
<1>2. PICK j \in 1..Len(s) : s[j] = y
  BY ElementsOf
<1> QED
  BY <1>1, <1>2 DEF Distinct

\* The pool has what was answered, all of it and nothing else.
LEMMA PoolOK ==
    ASSUME NEW primary, NEW supplements, Answered(primary, supplements)
    PROVE  LET pool == mergeCatalogs(primary, supplements)
           IN  /\ pool \in Seq(Entries) /\ Distinct(pool)
               /\ IdsOf(pool) = IdsOf(primary) \cup IdsOf(supplements)
               /\ Range(pool) = Range(primary) \cup Range(supplements)
<1> DEFINE pool == mergeCatalogs(primary, supplements)
<1>1. /\ primary \in Seq(Entries) /\ Distinct(primary)
      /\ supplements \in Seq(Entries) /\ Distinct(supplements)
      /\ \A d \in Range(supplements) : d.id \notin IdsOf(primary)
  BY AnsweredOK
<1>2. /\ pool \in Seq(Entries) /\ Distinct(pool)
      /\ IdsOf(pool) = IdsOf(primary) \cup IdsOf(supplements)
      /\ Range(pool) \subseteq Range(primary) \cup Range(supplements)
  BY <1>1, MergeOK
<1> HIDE DEF pool
<1>3. ASSUME NEW m \in Range(primary) \cup Range(supplements)
      PROVE  m \in Range(pool)
  <2>1. m.id \in IdsOf(pool)
    BY <1>2 DEF IdsOf
  <2>2. PICK y \in Range(pool) : y.id = m.id
    BY <2>1 DEF IdsOf
  <2>3. \A x \in Range(primary) : x.id \in IdsOf(primary)
    BY DEF IdsOf
  <2>4. CASE m \in Range(primary) /\ y \in Range(primary)
    BY <1>1, <2>2, <2>4, OneOfAnId
  <2>5. CASE m \in Range(supplements) /\ y \in Range(supplements)
    BY <1>1, <2>2, <2>5, OneOfAnId
  <2> QED
    BY <1>1, <1>2, <2>2, <2>3, <2>4, <2>5
<1> QED
  BY <1>2, <1>3 DEF pool

LEMMA PublishOK ==
    ASSUME NEW primary \in Seq(Model), NEW cfg \in Config
    PROVE  LET r == Publish(primary, cfg)
           IN  /\ r \in Seq(Model) /\ (Distinct(primary) => Distinct(r))
               /\ \A x : x \in Range(r) <=>
                     /\ x \in Range(primary)
                     /\ cfg.mode = "allow" => x.id \in cfg.allow \cup IdsOf(cfg.extra)
<1> DEFINE r == OnlyAllowed(primary, cfg.allow, cfg.extra)
<1>1. /\ r \in Seq(Model) /\ (Distinct(primary) => Distinct(r))
      /\ \A x : x \in Range(r) <=>
            x \in Range(primary) /\ x.id \in cfg.allow \cup IdsOf(cfg.extra)
  BY OnlyAllowedOK
<1>2. Publish(primary, cfg) = IF cfg.mode = "allow" THEN r ELSE primary
  BY DEF Publish
<1> HIDE DEF r
<1> QED
  BY <1>1, <1>2

LEMMA UndeclaredOK ==
    ASSUME NEW primary \in Seq(Model), NEW supplements \in Seq(Model), NEW forces,
           NEW cfg \in Config
    PROVE  LET r == Undeclared(primary, supplements, forces, cfg)
           IN  /\ r \in Seq(Listing)
               /\ Distinct(primary) => Distinct(r)
               /\ \A id : id \in IdsOf(r) <=>
                     \/ /\ ~Withholds(forces, cfg)
                        /\ \E m \in Range(Publish(primary, cfg)) : Servable(m) /\ m.id = id
                     \/ \E m \in Range(supplements) : Servable(m) /\ m.id = id
               /\ ListedFrom(r, Range(primary) \cup Range(supplements))
<1> DEFINE published == IF Withholds(forces, cfg) THEN <<>> ELSE Publish(primary, cfg)
           infos == toModelInfos(published)
           r == Undeclared(primary, supplements, forces, cfg)
<1>1. r = appendSupplements(infos, supplements)
  BY DEF Undeclared
<1>2. /\ published \in Seq(Model) /\ (Distinct(primary) => Distinct(published))
      /\ \A x : x \in Range(published) <=>
                   ~Withholds(forces, cfg) /\ x \in Range(Publish(primary, cfg))
  <2>1. CASE Withholds(forces, cfg)
    <3>1. published = <<>>
      BY <2>1
    <3>2. <<>> \in Seq(Model) /\ 1..Len(<<>>) = {}
      BY EmptySequence
    <3> HIDE DEF published
    <3> QED
      BY <2>1, <3>1, <3>2, NoElements DEF Distinct
  <2>2. CASE ~Withholds(forces, cfg)
    <3>1. published = Publish(primary, cfg)
      BY <2>2
    <3> HIDE DEF published
    <3> QED
      BY <2>2, <3>1, PublishOK
  <2> QED
    BY <2>1, <2>2
<1>3. Range(published) \subseteq Range(primary)
  BY <1>2, PublishOK
<1> HIDE DEF published, r
<1>4. /\ infos \in Seq(Listing) /\ ListedFrom(infos, Range(published))
      /\ \A id : id \in IdsOf(infos) <=>
            \E m \in Range(published) : Servable(m) /\ m.id = id
      /\ Distinct(published) => Distinct(infos)
  BY <1>2, InfosOK
<1> HIDE DEF infos
<1>5. /\ r \in Seq(Listing)
      /\ \A id : id \in IdsOf(r) <=>
            id \in IdsOf(infos) \/ \E m \in Range(supplements) : Servable(m) /\ m.id = id
      /\ Distinct(infos) => Distinct(r)
      /\ ListedFrom(r, Range(published) \cup Range(supplements))
  BY <1>1, <1>4, SupplementedOK
<1>6. ListedFrom(r, Range(primary) \cup Range(supplements))
  BY <1>3, <1>5 DEF ListedFrom
<1>7. \A id : id \in IdsOf(infos) <=>
         /\ ~Withholds(forces, cfg)
         /\ \E m \in Range(Publish(primary, cfg)) : Servable(m) /\ m.id = id
  BY <1>2, <1>4
<1> QED
  BY <1>2, <1>4, <1>5, <1>6, <1>7 DEF r

LEMMA ConfigFields ==
    ASSUME NEW cfg \in Config
    PROVE  /\ cfg.prefix \in BOOLEAN /\ cfg.mode \in {"catalog", "allow"}
           /\ cfg.allow \subseteq Ids /\ cfg.extra \in Seq(Model)
  BY DEF Config

\* The list a discovery ends up with.
LEMMA ListedOK ==
    ASSUME NEW primary, NEW supplements, Answered(primary, supplements), NEW forces,
           NEW cfg \in Config
    PROVE  LET r == Listed(primary, supplements, forces, cfg)
               pool == mergeCatalogs(primary, supplements)
           IN  /\ r \in Seq(Listing) /\ Distinct(r)
               /\ \A id : id \in IdsOf(r) <=>
                     \/ /\ ~Withholds(forces, cfg)
                        /\ \E m \in Range(Publish(primary, cfg)) : Servable(m) /\ m.id = id
                     \/ \E m \in Range(supplements) : Servable(m) /\ m.id = id
                     \/ \E m \in Range(cfg.extra) : Servable(m) /\ m.id = id
               /\ \A info \in Range(r) :
                     \/ \E m \in Range(pool) : Servable(m) /\ info = Info(m)
                     \/ \E m \in Range(cfg.extra) : Servable(m) /\ info = Info(Filled(pool, m))
<1> DEFINE pool == mergeCatalogs(primary, supplements)
           u == Undeclared(primary, supplements, forces, cfg)
           r == Listed(primary, supplements, forces, cfg)
<1>0. r = appendExtraModels(u, pool, cfg.extra)
  BY DEF Listed
<1>1. /\ primary \in Seq(Model) /\ supplements \in Seq(Model) /\ Distinct(primary)
  BY AnsweredOK, EntriesAreModels
<1>2. pool \in Seq(Model) /\ Range(pool) = Range(primary) \cup Range(supplements)
  BY PoolOK, EntriesAreModels
<1>3. cfg.extra \in Seq(Model)
  BY ConfigFields
<1>a. /\ u \in Seq(Listing)
      /\ Distinct(primary) => Distinct(u)
      /\ \A id : id \in IdsOf(u) <=>
            \/ /\ ~Withholds(forces, cfg)
               /\ \E m \in Range(Publish(primary, cfg)) : Servable(m) /\ m.id = id
            \/ \E m \in Range(supplements) : Servable(m) /\ m.id = id
      /\ ListedFrom(u, Range(primary) \cup Range(supplements))
  BY <1>1, UndeclaredOK
<1> DEFINE extra == cfg.extra
           d == appendExtraModels(u, pool, extra)
<1>b. r = d
  BY <1>0
<1> HIDE DEF pool, u, r, extra
<1>4. /\ u \in Seq(Listing) /\ Distinct(u)
      /\ \A id : id \in IdsOf(u) <=>
            \/ /\ ~Withholds(forces, cfg)
               /\ \E m \in Range(Publish(primary, cfg)) : Servable(m) /\ m.id = id
            \/ \E m \in Range(supplements) : Servable(m) /\ m.id = id
      /\ ListedFrom(u, Range(primary) \cup Range(supplements))
  BY <1>1, <1>a
<1>c. extra \in Seq(Model)
  BY <1>3 DEF extra
<1>d. /\ d \in Seq(Listing)
      /\ \A id : id \in IdsOf(d) <=>
            id \in IdsOf(u) \/ \E m \in Range(extra) : Servable(m) /\ m.id = id
      /\ Distinct(u) => Distinct(d)
      /\ \A info \in Range(d) :
            \/ info \in Range(u)
            \/ \E m \in Range(extra) : Servable(m) /\ info = Info(Filled(pool, m))
  BY <1>2, <1>4, <1>c, DeclaredOK
<1> HIDE DEF d
<1>5. /\ r \in Seq(Listing)
      /\ \A id : id \in IdsOf(r) <=>
            id \in IdsOf(u) \/ \E m \in Range(cfg.extra) : Servable(m) /\ m.id = id
      /\ Distinct(u) => Distinct(r)
      /\ \A info \in Range(r) :
            \/ info \in Range(u)
            \/ \E m \in Range(cfg.extra) : Servable(m) /\ info = Info(Filled(pool, m))
  BY <1>b, <1>d DEF extra
<1>6. \A info \in Range(r) :
            \/ \E m \in Range(pool) : Servable(m) /\ info = Info(m)
            \/ \E m \in Range(cfg.extra) : Servable(m) /\ info = Info(Filled(pool, m))
  BY <1>2, <1>4, <1>5 DEF ListedFrom
<1>7. \A id : id \in IdsOf(r) <=>
            \/ /\ ~Withholds(forces, cfg)
               /\ \E m \in Range(Publish(primary, cfg)) : Servable(m) /\ m.id = id
            \/ \E m \in Range(supplements) : Servable(m) /\ m.id = id
            \/ \E m \in Range(cfg.extra) : Servable(m) /\ m.id = id
  BY <1>4, <1>5
<1> QED
  BY <1>4, <1>5, <1>6, <1>7 DEF r, pool

\* It is what the configuration lets the credential advertise.
LEMMA PolicyOK ==
    ASSUME NEW q, Answered(q.primary, q.supplements), NEW cfg \in Config,
           q.models = Listed(q.primary, q.supplements, q.forces, cfg)
    PROVE  /\ IdsOf(q.models) = Advertisable(q, cfg)
           /\ IsInjective([i \in DOMAIN q.models |-> q.models[i].id])
<1> DEFINE P == {m \in Range(q.primary) :
                   IF cfg.mode = "allow" THEN m.id \in cfg.allow \cup IdsOf(cfg.extra)
                   ELSE cfg.prefix => q.forces}
           A == {m.id : m \in {x \in P \cup Range(q.supplements) \cup Range(cfg.extra) :
                                 Servable(x)}}
<1>1. Advertisable(q, cfg) = A
  BY DEF Advertisable
<1>2. cfg.prefix \in BOOLEAN /\ cfg.mode \in {"catalog", "allow"}
  BY ConfigFields
<1>3. /\ q.models \in Seq(Listing) /\ Distinct(q.models)
      /\ \A id : id \in IdsOf(q.models) <=>
            \/ /\ ~Withholds(q.forces, cfg)
               /\ \E m \in Range(Publish(q.primary, cfg)) : Servable(m) /\ m.id = id
            \/ \E m \in Range(q.supplements) : Servable(m) /\ m.id = id
            \/ \E m \in Range(cfg.extra) : Servable(m) /\ m.id = id
  BY ListedOK
<1>4. \A x : x \in Range(Publish(q.primary, cfg)) <=>
                /\ x \in Range(q.primary)
                /\ cfg.mode = "allow" => x.id \in cfg.allow \cup IdsOf(cfg.extra)
  <2>1. q.primary \in Seq(Model)
    BY AnsweredOK, EntriesAreModels
  <2> QED
    BY <2>1, PublishOK
<1>5. \A x : x \in P <=> ~Withholds(q.forces, cfg) /\ x \in Range(Publish(q.primary, cfg))
  <2>1. CASE cfg.mode = "allow"
    <3>1. \A x : x \in P <=> x \in Range(q.primary) /\ x.id \in cfg.allow \cup IdsOf(cfg.extra)
      BY <2>1
    <3>2. ~Withholds(q.forces, cfg)
      BY <2>1 DEF Withholds
    <3> QED
      BY <1>4, <2>1, <3>1, <3>2
  <2>2. CASE cfg.mode # "allow" /\ cfg.prefix
    <3>1. \A x : x \in P <=> x \in Range(q.primary) /\ q.forces
      BY <2>2
    <3>2. Withholds(q.forces, cfg) <=> ~q.forces
      BY <2>2 DEF Withholds
    <3> QED
      BY <1>4, <2>2, <3>1, <3>2
  <2>3. CASE cfg.mode # "allow" /\ ~cfg.prefix
    <3>1. \A x : x \in P <=> x \in Range(q.primary)
      BY <2>3
    <3>2. ~Withholds(q.forces, cfg)
      BY <2>3 DEF Withholds
    <3> QED
      BY <1>4, <2>3, <3>1, <3>2
  <2> QED
    BY <1>2, <2>1, <2>2, <2>3
<1> HIDE DEF P
<1>6. \A id : id \in A <=>
         \/ \E m \in P : Servable(m) /\ m.id = id
         \/ \E m \in Range(q.supplements) : Servable(m) /\ m.id = id
         \/ \E m \in Range(cfg.extra) : Servable(m) /\ m.id = id
  OBVIOUS
<1> HIDE DEF A
<1>7. \A id : id \in IdsOf(q.models) <=> id \in A
  BY <1>3, <1>5, <1>6
<1>8. IsInjective([i \in DOMAIN q.models |-> q.models[i].id])
  <2>1. DOMAIN q.models = 1..Len(q.models)
    BY <1>3, SequenceOf
  <2> QED
    BY <1>3, <2>1 DEF IsInjective, Distinct
<1>9. IdsOf(q.models) = A
  BY <1>7
<1> QED
  BY <1>1, <1>8, <1>9

\* The hard limit of an id holds for what is advertised of it.
LEMMA LimitOK ==
    ASSUME NEW primary, NEW supplements, Answered(primary, supplements), NEW forces,
           NEW cfg \in Config,
           NEW info \in Range(Listed(primary, supplements, forces, cfg))
    PROVE  LET declared == LimitsOf(Range(cfg.extra), info.id)
               live == LimitsOf(Range(mergeCatalogs(primary, supplements)), info.id)
               known == IF live # {} THEN live ELSE LimitsOf(Range(Measured), info.id)
           IN  \/ \E n \in (declared \cup known) \ {0} : info.context <= n
               \/ known \subseteq {0} /\ (live # {} \/ 0 \in declared)
<1> DEFINE pool == mergeCatalogs(primary, supplements)
           declared == LimitsOf(Range(cfg.extra), info.id)
           live == LimitsOf(Range(pool), info.id)
           measured == LimitsOf(Range(Measured), info.id)
           Bound(d, l, s) ==
              LET known == IF l # {} THEN l ELSE s
              IN  \/ \E n \in (d \cup known) \ {0} : info.context <= n
                  \/ known \subseteq {0} /\ (l # {} \/ 0 \in d)
<1> SUFFICES Bound(declared, live, measured)
  OBVIOUS
<1>1. /\ pool \in Seq(Model) /\ Distinct(pool)
      /\ \A m \in Range(pool) : m \in Model /\ m.id \in Ids
  <2>1. pool \in Seq(Entries) /\ Distinct(pool)
    BY PoolOK
  <2> HIDE DEF pool
  <2>2. \A m \in Range(pool) : m \in Entries
    BY <2>1, SequenceOf, ElementsOf
  <2> QED
    BY <2>1, <2>2, EntriesAreModels, EntryFields
<1>2. cfg.extra \in Seq(Model)
  BY ConfigFields
<1>3. \/ \E m \in Range(pool) : Servable(m) /\ info = Info(m)
      \/ \E m \in Range(cfg.extra) : Servable(m) /\ info = Info(Filled(pool, m))
  BY ListedOK
<1> HIDE DEF pool
<1>4. ASSUME NEW m \in Range(pool), m.id = info.id
      PROVE  live = {m.input} /\ m.input \in Nat
  <2>1. \A x \in Range(pool) : x.id = info.id => x = m
    BY <1>1, <1>4, OneOfAnId
  <2>2. {x \in Range(pool) : x.id = info.id} = {m}
    BY <1>4, <2>1
  <2> QED
    BY <1>1, <1>4, <2>2, ModelFields DEF LimitsOf
<1>5. CASE \E m \in Range(pool) : Servable(m) /\ info = Info(m)
  <2>1. PICK m \in Range(pool) : Servable(m) /\ info = Info(m)
    BY <1>5
  <2>2. info.id = m.id /\ (m.input > 0 => info.context <= m.input)
    BY <1>1, <2>1, InfoOK
  <2>3. live = {m.input} /\ m.input \in Nat
    BY <1>4, <2>2
  <2> HIDE DEF live
  <2>4. CASE m.input > 0
    BY <2>2, <2>3, <2>4
  <2>5. CASE ~(m.input > 0)
    <3>1. m.input = 0
      BY <2>3, <2>5
    <3> QED
      BY <2>3, <3>1
  <2> QED
    BY <2>4, <2>5
<1>6. CASE \E m \in Range(cfg.extra) : Servable(m) /\ info = Info(Filled(pool, m))
  <2>1. PICK m \in Range(cfg.extra) : Servable(m) /\ info = Info(Filled(pool, m))
    BY <1>6
  <2> DEFINE f == Filled(pool, m)
  <2>2. m \in Model
    BY <1>2, <2>1, SequenceOf, ElementsOf
  <2>3. /\ f \in Model /\ f.id = m.id
        /\ m.input > 0 => f.input = m.input
        /\ ~(m.input > 0) =>
              \/ \E x \in Range(pool) : x.id = m.id /\ f.input = x.input
              \/ /\ m.id \notin IdsOf(pool)
                 /\ m.id \in DOMAIN Measured /\ f.input = Measured[m.id].input
              \/ m.id \notin IdsOf(pool) /\ m.id \notin DOMAIN Measured
    BY <1>1, <2>2, FilledOK
  <2> HIDE DEF f
  <2>4. m.id \in Ids /\ m.input \in Nat
    BY <2>1, <2>2, ModelFields DEF Servable
  <2>5. info.id = m.id /\ (f.input > 0 => info.context <= f.input)
    BY <2>1, <2>3, <2>4, InfoOK DEF f
  <2>6. m.input \in declared
    BY <2>1, <2>5 DEF LimitsOf
  <2>7. \A id \in DOMAIN Measured : Measured[id].id = id /\ Measured[id].input \in Nat
    BY CatalogAssumption, ModelFields
  <2>8. \A n : n \in measured <=> m.id \in DOMAIN Measured /\ n = Measured[m.id].input
    <3> TAKE n
    <3>1. n \in measured <=> \E x \in Range(Measured) : x.id = m.id /\ n = x.input
      BY <2>5 DEF LimitsOf
    <3>2. \A x : x \in Range(Measured) <=> \E id \in DOMAIN Measured : x = Measured[id]
      BY DEF Range
    <3> QED
      BY <2>7, <3>1, <3>2
  <2>9. m.id \notin IdsOf(pool) => live = {}
    BY <2>5 DEF LimitsOf, IdsOf
  <2> HIDE DEF declared, live, measured
  <2>10. CASE m.input > 0
    BY <2>3, <2>4, <2>5, <2>6, <2>10
  <2>11. CASE ~(m.input > 0) /\ \E x \in Range(pool) : x.id = m.id /\ f.input = x.input
    <3>1. PICK x \in Range(pool) : x.id = m.id /\ f.input = x.input
      BY <2>11
    <3>2. live = {x.input} /\ x.input \in Nat
      BY <1>4, <2>5, <3>1
    <3>3. CASE x.input > 0
      BY <2>5, <3>1, <3>2, <3>3
    <3>4. CASE ~(x.input > 0)
      <4>1. x.input = 0
        BY <3>2, <3>4
      <4> QED
        BY <3>2, <4>1
    <3> QED
      BY <3>3, <3>4
  <2>12. CASE /\ ~(m.input > 0) /\ m.id \notin IdsOf(pool)
              /\ m.id \in DOMAIN Measured /\ f.input = Measured[m.id].input
    <3>1. m.input = 0 /\ live = {} /\ f.input \in Nat
      BY <2>4, <2>7, <2>9, <2>12
    <3>2. measured = {f.input}
      BY <2>8, <2>12
    <3>3. CASE f.input > 0
      BY <2>5, <3>1, <3>2, <3>3
    <3>4. CASE ~(f.input > 0)
      <4>1. f.input = 0
        BY <3>1, <3>4
      <4> QED
        BY <2>6, <3>1, <3>2, <4>1
    <3> QED
      BY <3>3, <3>4
  <2>13. CASE ~(m.input > 0) /\ m.id \notin IdsOf(pool) /\ m.id \notin DOMAIN Measured
    <3>1. m.input = 0 /\ live = {} /\ measured = {}
      BY <2>4, <2>8, <2>9, <2>13
    <3> QED
      BY <2>6, <3>1
  <2> QED
    BY <2>3, <2>10, <2>11, <2>12, <2>13
<1> QED
  BY <1>3, <1>5, <1>6

\* A namespaced list has no id but those declared and those mentioned.
LEMMA WithheldOK ==
    ASSUME NEW primary, NEW supplements, Answered(primary, supplements), NEW forces,
           NEW cfg \in Config, Withholds(forces, cfg)
    PROVE  IdsOf(Listed(primary, supplements, forces, cfg))
              \subseteq IdsOf(cfg.extra) \cup Mentioned
<1> DEFINE r == Listed(primary, supplements, forces, cfg)
<1>1. \A id : id \in IdsOf(r) =>
         \/ \E m \in Range(supplements) : m.id = id
         \/ \E m \in Range(cfg.extra) : m.id = id
  BY ListedOK
<1>2. \A m \in Range(supplements) : m.id \in Mentioned
  BY AnsweredOK
<1> HIDE DEF r
<1>3. \A id : id \in IdsOf(r) => id \in IdsOf(cfg.extra) \cup Mentioned
  BY <1>1, <1>2 DEF IdsOf
<1> QED
  BY <1>3 DEF r

\* What goes into the pool.
LEMMA PoolPriced ==
    ASSUME NEW primary, NEW supplements, Answered(primary, supplements)
    PROVE  LET pool == mergeCatalogs(primary, supplements)
           IN  /\ \A m \in Range(pool) : Priced(m)
               /\ \E p \in Pollers : \E a \in Answers[p] :
                     IdsOf(pool) = IdsOf(extractModels(a.console.body))
                                      \cup IdsOf(extractModels(a.v3.body)) \cup Named(a)
<1> DEFINE pool == mergeCatalogs(primary, supplements)
<1>1. /\ Range(pool) = Range(primary) \cup Range(supplements)
      /\ IdsOf(pool) = IdsOf(primary) \cup IdsOf(supplements)
  BY PoolOK
<1> HIDE DEF pool
<1>2. \A m \in Range(pool) : Priced(m)
  BY <1>1, AnsweredOK
<1>3. \E p \in Pollers : \E a \in Answers[p] :
         /\ IdsOf(primary) = IdsOf(extractModels(a.console.body))
                                \cup IdsOf(extractModels(a.v3.body))
         /\ IdsOf(supplements) = Named(a) \ IdsOf(primary)
  BY AnsweredOK
<1>4. \E p \in Pollers : \E a \in Answers[p] :
         IdsOf(pool) = IdsOf(extractModels(a.console.body))
                          \cup IdsOf(extractModels(a.v3.body)) \cup Named(a)
  BY <1>1, <1>3
<1> QED
  BY <1>2, <1>4 DEF pool
-----------------------------------------------------------------------------
(***************************************************************************)
(* The invariant: while the configuration stands still, what a poll has    *)
(* made so far is what that configuration makes of an answer of upstream,  *)
(* step by step; and what is cached came from there.                       *)
(***************************************************************************)
Fetched == {"mode", "policy", "keep", "prefix", "extra", "store", "remember"}

Made(q) == q.step \in Fetched => Answered(q.primary, q.supplements)

Contained(models, forces, cfg) ==
    Withholds(forces, cfg) => IdsOf(models) \subseteq IdsOf(cfg.extra) \cup Mentioned

Agrees(q, cfg) ==
    /\ q.step \in {"policy", "keep", "prefix"} => q.mode = cfg.mode
    /\ q.step = "keep" => cfg.mode = "allow" /\ q.allow = cfg.allow
    /\ q.step = "prefix" => q.published = Publish(q.primary, cfg)
    /\ q.step = "extra" =>
          q.models = Undeclared(q.primary, q.supplements, q.forces, cfg)
    /\ q.step \in {"store", "remember"} =>
          q.models = Listed(q.primary, q.supplements, q.forces, cfg)
    /\ q.step = "answer" => Contained(q.models, q.forces, cfg)

\* The catalog of a cache entry, and the list of one.
Remembered(entry) ==
    IF entry.known
    THEN \E primary \in Seq(Entries), supplements \in Seq(Entries) :
            /\ Answered(primary, supplements)
            /\ entry.remote = mergeCatalogs(primary, supplements)
    ELSE entry.remote = <<>>

Served(entry, cfg) == entry.listed => Contained(entry.models, entry.forces, cfg)

PollsAgree ==
    \A p \in Pollers : Made(poll[p]) /\ (since.polls[p] => Agrees(poll[p], Cfg))

CacheAgrees ==
    \A k \in Keys : Remembered(cache[k]) /\ (since.cache[k] => Served(cache[k], Cfg))

DInv == TypeOK /\ PollsAgree /\ CacheAgrees

Since == [calls : [Pollers -> BOOLEAN], polls : [Pollers -> BOOLEAN],
          cache : [Keys -> BOOLEAN]]

-----------------------------------------------------------------------------
LEMMA CfgOK ==
    ASSUME TypeOK
    PROVE  Cfg \in Config
<1>1. Configs \in Seq(Config)
  BY DiscoveryAssumption
<1> QED
  BY <1>1, SequenceOf DEF TypeOK, Cfg

LEMMA OffTyped == Off \in Poll /\ Off.step = "off" /\ Made(Off) /\ \A cfg : Agrees(Off, cfg)
<1>1. (CHOOSE k \in Keys : TRUE) \in Keys
  BY DiscoveryAssumption
<1>2. <<>> \in Seq(Model) /\ <<>> \in Seq(Listing)
  BY EmptySequence
<1> DEFINE M == Seq(Model)
           L == Seq(Listing)
           key == CHOOSE k \in Keys : TRUE
<1> HIDE DEF M, L, key
<1>3. Off \in Poll /\ Off.step = "off"
  BY <1>1, <1>2 DEF Off, Poll, Steps, M, L, key
<1> QED
  BY <1>3 DEF Made, Agrees, Fetched

LEMMA NoEntryTyped ==
    /\ NoEntry \in CacheEntry /\ NoEntry.known = FALSE /\ NoEntry.listed = FALSE
    /\ Remembered(NoEntry) /\ \A cfg : Served(NoEntry, cfg)
<1>1. <<>> \in Seq(Model) /\ <<>> \in Seq(Listing)
  BY EmptySequence
<1>2. 0 \in 0..CacheTTL
  BY DiscoveryAssumption
<1> DEFINE M == Seq(Model)
           L == Seq(Listing)
<1>3. NoEntry \in CacheEntry
  <2>1. <<>> \in M /\ <<>> \in L
    BY <1>1
  <2>2. CacheEntry = [left : 0..CacheTTL, listed : BOOLEAN, models : L,
                      forces : BOOLEAN, known : BOOLEAN, remote : M]
    BY DEF CacheEntry
  <2> HIDE DEF M, L
  <2> QED
    BY <1>2, <2>1, <2>2 DEF NoEntry
<1>4. NoEntry.known = FALSE /\ NoEntry.listed = FALSE /\ NoEntry.remote = <<>>
  BY DEF NoEntry
<1> QED
  BY <1>3, <1>4 DEF Remembered, Served

\* A poll takes a step; the others, and the configuration, stay as they are.
LEMMA PollMoves ==
    ASSUME TypeOK, PollsAgree, NEW p \in Pollers, NEW q \in Poll,
           poll' = [poll EXCEPT ![p] = q], config' = config,
           \A o \in Pollers \ {p} : since'.polls[o] = since.polls[o],
           Made(q), since'.polls[p] => Agrees(q, Cfg)
    PROVE  PollsAgree' /\ poll' \in [Pollers -> Poll]
<1>1. poll \in [Pollers -> Poll]
  BY DEF TypeOK
<1>2. Cfg' = Cfg
  BY DEF Cfg
<1>3. /\ poll' \in [Pollers -> Poll] /\ poll'[p] = q
      /\ \A o \in Pollers \ {p} : poll'[o] = poll[o]
  BY <1>1
<1>4. ASSUME NEW o \in Pollers
      PROVE  Made(poll'[o]) /\ (since'.polls[o] => Agrees(poll'[o], Cfg'))
  BY <1>2, <1>3 DEF PollsAgree
<1> QED
  BY <1>3, <1>4 DEF PollsAgree

LEMMA EntryChanges ==
    ASSUME TypeOK, CacheAgrees, NEW k \in Keys, NEW e \in CacheEntry,
           cache' = [cache EXCEPT ![k] = e], config' = config,
           \A j \in Keys \ {k} : since'.cache[j] = since.cache[j],
           Remembered(e), since'.cache[k] => Served(e, Cfg)
    PROVE  CacheAgrees' /\ cache' \in [Keys -> CacheEntry]
<1>1. cache \in [Keys -> CacheEntry]
  BY DEF TypeOK
<1>2. Cfg' = Cfg
  BY DEF Cfg
<1>3. /\ cache' \in [Keys -> CacheEntry] /\ cache'[k] = e
      /\ \A j \in Keys \ {k} : cache'[j] = cache[j]
  BY <1>1
<1>4. ASSUME NEW j \in Keys
      PROVE  Remembered(cache'[j]) /\ (since'.cache[j] => Served(cache'[j], Cfg'))
  BY <1>2, <1>3 DEF CacheAgrees
<1> QED
  BY <1>3, <1>4 DEF CacheAgrees

\* The cache is left alone.
LEMMA OnlyPollMoves ==
    ASSUME DInv, NEW p \in Pollers, NEW q \in Poll,
           poll' = [poll EXCEPT ![p] = q], UNCHANGED <<config, reconfigs, cache>>,
           since' \in Since, since'.cache = since.cache,
           \A o \in Pollers \ {p} : since'.polls[o] = since.polls[o],
           Made(q), since'.polls[p] => Agrees(q, Cfg)
    PROVE  DInv'
<1>1. PollsAgree' /\ poll' \in [Pollers -> Poll]
  BY PollMoves DEF DInv
<1>2. Cfg' = Cfg
  BY DEF Cfg
<1>3. CacheAgrees'
  BY <1>2 DEF DInv, CacheAgrees
<1>4. TypeOK'
  BY <1>1 DEF DInv, TypeOK, Since
<1> QED
  BY <1>1, <1>3, <1>4 DEF DInv

LEMMA PollTyped ==
    ASSUME DInv, NEW p \in Pollers
    PROVE  /\ poll[p] \in Poll /\ poll[p].key \in Keys
           /\ cache[poll[p].key] \in CacheEntry
           /\ since \in Since /\ Cfg \in Config
<1>1. poll[p] \in Poll
  BY DEF DInv, TypeOK
<1>2. poll[p].key \in Keys
  BY <1>1 DEF Poll
<1> QED
  BY <1>1, <1>2, CfgOK DEF DInv, TypeOK, Since

LEMMA DStartPoll ==
    ASSUME DInv, NEW p \in Pollers, NEW k \in Keys, NEW forces \in BOOLEAN,
           StartPoll(p, k, forces)
    PROVE  DInv'
<1> DEFINE q == [[[Off EXCEPT !.step = "lookup"] EXCEPT !.key = k] EXCEPT !.forces = forces]
           M == Seq(Model)
           L == Seq(Listing)
<1> HIDE DEF M, L
<1>1. q \in Poll /\ q.step = "lookup"
  BY OffTyped DEF Poll, Steps, M, L
<1>2. poll' = [poll EXCEPT ![p] = q]
  BY OffTyped DEF StartPoll, Poll
<1> HIDE DEF q
<1>3. Made(q) /\ Agrees(q, Cfg)
  BY <1>1 DEF Made, Agrees, Fetched
<1>4. /\ since' \in Since /\ since'.cache = since.cache /\ since'.polls = since.polls
      /\ UNCHANGED <<config, reconfigs, cache>>
  BY PollTyped DEF StartPoll, Since
<1> QED
  BY <1>1, <1>2, <1>3, <1>4, OnlyPollMoves

LEMMA DLookup ==
    ASSUME DInv, NEW p \in Pollers, Lookup(p)
    PROVE  DInv'
<1> DEFINE q == poll[p]
           entry == cache[q.key]
           M == Seq(Model)
           L == Seq(Listing)
<1>0. /\ q \in Poll /\ q.key \in Keys /\ entry \in CacheEntry /\ since \in Since
      /\ q.step = "lookup" /\ UNCHANGED <<config, reconfigs, cache>>
  BY PollTyped DEF Lookup
<1>a. Poll = [step : Steps, key : Keys, forces : BOOLEAN, primary : M, supplements : M,
              mode : {"catalog", "allow"}, allow : SUBSET Ids, published : M, models : L]
  BY DEF Poll
<1>b. entry.models \in L /\ poll \in [Pollers -> Poll]
  BY <1>0 DEF CacheEntry, DInv, TypeOK
<1> HIDE DEF M, L, entry
<1>1. CASE Hit(entry, q.forces)
  <2> DEFINE r == [[q EXCEPT !.step = "answer"] EXCEPT !.models = entry.models]
  <2>1. r \in Poll /\ r.step = "answer" /\ r.models = entry.models /\ r.forces = q.forces
    BY <1>0, <1>a, <1>b DEF Steps
  <2>2. /\ poll' = [poll EXCEPT ![p].step = "answer", ![p].models = entry.models]
        /\ since' = [since EXCEPT !.polls[p] = since.cache[q.key]]
    BY <1>1 DEF Lookup, entry
  <2>3. poll' = [poll EXCEPT ![p] = r]
    BY <1>0, <1>b, <2>2
  <2>4. /\ since' \in Since /\ since'.cache = since.cache
        /\ since'.polls[p] = since.cache[q.key]
        /\ \A o \in Pollers \ {p} : since'.polls[o] = since.polls[o]
    BY <1>0, <2>2 DEF Since
  <2> HIDE DEF r
  <2>5. Made(r)
    BY <2>1 DEF Made, Fetched
  <2>6. since'.polls[p] => Agrees(r, Cfg)
    <3>1. since.cache[q.key] => Served(entry, Cfg)
      BY <1>0 DEF DInv, CacheAgrees, entry
    <3>2. entry.listed /\ entry.forces = q.forces
      BY <1>1 DEF Hit
    <3>3. since'.polls[p] => Contained(r.models, r.forces, Cfg)
      BY <2>1, <2>4, <3>1, <3>2 DEF Served
    <3> QED
      BY <2>1, <3>3 DEF Agrees
  <2> QED
    BY <1>0, <2>1, <2>3, <2>4, <2>5, <2>6, OnlyPollMoves
<1>2. CASE ~Hit(entry, q.forces)
  <2> DEFINE r == [q EXCEPT !.step = "fetch"]
  <2>1. r \in Poll /\ r.step = "fetch"
    BY <1>0, <1>a DEF Steps
  <2>2. poll' = [poll EXCEPT ![p].step = "fetch"] /\ since' = since
    BY <1>2 DEF Lookup, entry
  <2>3. poll' = [poll EXCEPT ![p] = r]
    BY <1>0, <1>b, <2>2
  <2> HIDE DEF r
  <2>4. Made(r) /\ Agrees(r, Cfg)
    BY <2>1 DEF Made, Fetched, Agrees
  <2> QED
    BY <1>0, <2>1, <2>2, <2>3, <2>4, OnlyPollMoves
<1> QED
  BY <1>1, <1>2

LEMMA DFetch ==
    ASSUME DInv, NEW p \in Pollers, NEW answer \in Answers[p], Fetch(p, answer)
    PROVE  DInv'
<1> DEFINE q == poll[p]
           first == Primary(answer)
           second == Supplements(answer)
           M == Seq(Model)
           L == Seq(Listing)
           r == [[[q EXCEPT !.step = "mode"] EXCEPT !.primary = first]
                    EXCEPT !.supplements = second]
<1>0. /\ q \in Poll /\ since \in Since /\ UNCHANGED <<config, reconfigs, cache>>
      /\ poll' = [poll EXCEPT ![p].step = "mode", ![p].primary = first,
                              ![p].supplements = second]
      /\ since' = [since EXCEPT !.polls[p] = TRUE]
  BY PollTyped DEF Fetch
<1>a. Poll = [step : Steps, key : Keys, forces : BOOLEAN, primary : M, supplements : M,
              mode : {"catalog", "allow"}, allow : SUBSET Ids, published : M, models : L]
  BY DEF Poll
<1>b. poll \in [Pollers -> Poll]
  BY DEF DInv, TypeOK
<1>1. Answered(first, second)
  BY DEF Answered
<1>2. first \in M /\ second \in M
  BY <1>1, AnsweredOK, EntriesAreModels
<1> HIDE DEF first, second, M, L
<1>3. r \in Poll /\ r.step = "mode" /\ r.primary = first /\ r.supplements = second
  BY <1>0, <1>2, <1>a DEF Steps
<1>4. poll' = [poll EXCEPT ![p] = r]
  BY <1>0, <1>b
<1> HIDE DEF r
<1>5. /\ since' \in Since /\ since'.cache = since.cache
      /\ \A o \in Pollers \ {p} : since'.polls[o] = since.polls[o]
  BY <1>0 DEF Since
<1>6. Made(r) /\ Agrees(r, Cfg)
  BY <1>1, <1>3 DEF Made, Agrees
<1> QED
  BY <1>0, <1>3, <1>4, <1>5, <1>6, OnlyPollMoves

LEMMA DEnds ==
    ASSUME DInv, NEW p \in Pollers,
           Answer(p) \/ \E answer \in Answers[p] : FetchFails(p, answer)
    PROVE  DInv'
<1>1. /\ poll' = [poll EXCEPT ![p] = Off] /\ UNCHANGED <<config, reconfigs, cache>>
      /\ since' = [since EXCEPT !.polls[p] = TRUE, !.calls[p] = TRUE]
  BY DEF Answer, FetchFails
<1>2. since \in Since
  BY PollTyped
<1>3. since' = [[since EXCEPT !.polls = [since.polls EXCEPT ![p] = TRUE]]
                       EXCEPT !.calls = [since.calls EXCEPT ![p] = TRUE]]
  BY <1>1, <1>2 DEF Since
<1>4. /\ since' \in Since /\ since'.cache = since.cache
      /\ \A o \in Pollers \ {p} : since'.polls[o] = since.polls[o]
  BY <1>2, <1>3 DEF Since
<1> QED
  BY <1>1, <1>4, OffTyped, OnlyPollMoves
\* A step of assembleModels.
LEMMA Assembled ==
    ASSUME DInv, NEW p \in Pollers, NEW q \in Poll, Assemble(p, q), Made(q),
           since.polls[p] => Agrees(q, Cfg)
    PROVE  DInv'
<1>1. /\ poll' = [poll EXCEPT ![p] = q] /\ UNCHANGED <<config, reconfigs, cache, since>>
      /\ since \in Since
  BY PollTyped DEF Assemble
<1> QED
  BY <1>1, OnlyPollMoves

LEMMA DReadMode ==
    ASSUME DInv, NEW p \in Pollers, ReadMode(p)
    PROVE  DInv'
<1> DEFINE q == poll[p]
           M == Seq(Model)
           L == Seq(Listing)
           mode == Cfg.mode
           r == [[q EXCEPT !.step = "policy"] EXCEPT !.mode = mode]
<1>0. q \in Poll /\ q.step = "mode" /\ Made(q) /\ mode \in {"catalog", "allow"}
  BY PollTyped, ConfigFields DEF ReadMode, DInv, PollsAgree
<1>a. Poll = [step : Steps, key : Keys, forces : BOOLEAN, primary : M, supplements : M,
              mode : {"catalog", "allow"}, allow : SUBSET Ids, published : M, models : L]
  BY DEF Poll
<1>b. Assemble(p, [q EXCEPT !.step = "policy", !.mode = mode])
  BY DEF ReadMode
<1> HIDE DEF M, L, q, mode
<1>1. /\ r \in Poll /\ r.step = "policy" /\ r.mode = mode
      /\ r.primary = q.primary /\ r.supplements = q.supplements
  BY <1>0, <1>a DEF Steps
<1>2. r = [q EXCEPT !.step = "policy", !.mode = mode]
  BY <1>0, <1>a
<1> HIDE DEF r
<1>3. Made(r) /\ Agrees(r, Cfg)
  BY <1>0, <1>1 DEF Made, Fetched, Agrees, mode
<1> QED
  BY <1>b, <1>1, <1>2, <1>3, Assembled

LEMMA DReadPolicy ==
    ASSUME DInv, NEW p \in Pollers, ReadPolicy(p)
    PROVE  DInv'
<1> DEFINE q == poll[p]
           M == Seq(Model)
           L == Seq(Listing)
           allow == Cfg.allow
<1>0. /\ q \in Poll /\ q.step = "policy" /\ Made(q) /\ Cfg.mode \in {"catalog", "allow"}
      /\ allow \in SUBSET Ids /\ (since.polls[p] => q.mode = Cfg.mode)
  BY PollTyped, ConfigFields DEF ReadPolicy, DInv, PollsAgree, Agrees
<1>a. Poll = [step : Steps, key : Keys, forces : BOOLEAN, primary : M, supplements : M,
              mode : {"catalog", "allow"}, allow : SUBSET Ids, published : M, models : L]
  BY DEF Poll
<1>b. /\ Cfg.mode = "allow" => Assemble(p, [q EXCEPT !.step = "keep", !.allow = allow])
      /\ Cfg.mode # "allow" => Assemble(p, [q EXCEPT !.step = "prefix",
                                                     !.published = q.primary])
  BY DEF ReadPolicy
<1> HIDE DEF M, L, q, allow
<1>1. CASE Cfg.mode = "allow"
  <2> DEFINE r == [[q EXCEPT !.step = "keep"] EXCEPT !.allow = allow]
  <2>1. /\ r \in Poll /\ r.step = "keep" /\ r.mode = q.mode /\ r.allow = allow
        /\ r.primary = q.primary /\ r.supplements = q.supplements
    BY <1>0, <1>a DEF Steps
  <2>2. r = [q EXCEPT !.step = "keep", !.allow = allow]
    BY <1>0, <1>a
  <2> HIDE DEF r
  <2>3. Made(r)
    BY <1>0, <2>1 DEF Made, Fetched
  <2>4. since.polls[p] => Agrees(r, Cfg)
    BY <1>0, <1>1, <2>1 DEF Agrees, allow
  <2> QED
    BY <1>b, <1>1, <2>1, <2>2, <2>3, <2>4, Assembled
<1>2. CASE Cfg.mode # "allow"
  <2> DEFINE r == [[q EXCEPT !.step = "prefix"] EXCEPT !.published = q.primary]
  <2>1. /\ r \in Poll /\ r.step = "prefix" /\ r.mode = q.mode /\ r.published = q.primary
        /\ r.primary = q.primary /\ r.supplements = q.supplements
    BY <1>0, <1>a DEF Steps
  <2>2. r = [q EXCEPT !.step = "prefix", !.published = q.primary]
    BY <1>0, <1>a
  <2> HIDE DEF r
  <2>3. Made(r)
    BY <1>0, <2>1 DEF Made, Fetched
  <2>4. since.polls[p] => Agrees(r, Cfg)
    BY <1>0, <1>2, <2>1 DEF Agrees, Publish
  <2> QED
    BY <1>b, <1>2, <2>1, <2>2, <2>3, <2>4, Assembled
<1> QED
  BY <1>1, <1>2

LEMMA DKeepAllowed ==
    ASSUME DInv, NEW p \in Pollers, KeepAllowed(p)
    PROVE  DInv'
<1> DEFINE q == poll[p]
           M == Seq(Model)
           L == Seq(Listing)
           kept == OnlyAllowed(q.primary, q.allow, Cfg.extra)
           r == [[q EXCEPT !.step = "prefix"] EXCEPT !.published = kept]
<1>0. /\ q \in Poll /\ q.step = "keep" /\ Made(q)
      /\ since.polls[p] => /\ q.mode = Cfg.mode
                           /\ Cfg.mode = "allow" /\ q.allow = Cfg.allow
  BY PollTyped DEF KeepAllowed, DInv, PollsAgree, Agrees
<1>a. Poll = [step : Steps, key : Keys, forces : BOOLEAN, primary : M, supplements : M,
              mode : {"catalog", "allow"}, allow : SUBSET Ids, published : M, models : L]
  BY DEF Poll
<1>b. Assemble(p, [q EXCEPT !.step = "prefix", !.published = kept])
  BY DEF KeepAllowed
<1>1. kept \in M
  <2>1. q.primary \in Seq(Model)
    BY <1>0 DEF Poll
  <2> QED
    BY <2>1, OnlyAllowedOK
<1>2. since.polls[p] => kept = Publish(q.primary, Cfg)
  BY <1>0 DEF Publish
<1> HIDE DEF M, L, q, kept
<1>3. /\ r \in Poll /\ r.step = "prefix" /\ r.mode = q.mode /\ r.published = kept
      /\ r.primary = q.primary /\ r.supplements = q.supplements
  BY <1>0, <1>1, <1>a DEF Steps
<1>4. r = [q EXCEPT !.step = "prefix", !.published = kept]
  BY <1>0, <1>a
<1> HIDE DEF r
<1>5. Made(r)
  BY <1>0, <1>3 DEF Made, Fetched
<1>6. since.polls[p] => Agrees(r, Cfg)
  BY <1>0, <1>2, <1>3 DEF Agrees
<1> QED
  BY <1>b, <1>3, <1>4, <1>5, <1>6, Assembled

LEMMA DReadPrefix ==
    ASSUME DInv, NEW p \in Pollers, ReadPrefix(p)
    PROVE  DInv'
<1> DEFINE q == poll[p]
           M == Seq(Model)
           L == Seq(Listing)
           published == IF Withheld(q, Cfg.prefix) THEN <<>> ELSE q.published
           list == appendSupplements(toModelInfos(published), q.supplements)
           r == [[q EXCEPT !.step = "extra"] EXCEPT !.models = list]
<1>0. /\ q \in Poll /\ q.step = "prefix" /\ Made(q)
      /\ since.polls[p] => q.mode = Cfg.mode /\ q.published = Publish(q.primary, Cfg)
  BY PollTyped DEF ReadPrefix, DInv, PollsAgree, Agrees
<1>a. Poll = [step : Steps, key : Keys, forces : BOOLEAN, primary : M, supplements : M,
              mode : {"catalog", "allow"}, allow : SUBSET Ids, published : M, models : L]
  BY DEF Poll
<1>b. Assemble(p, [q EXCEPT !.step = "extra", !.models = list])
  BY DEF ReadPrefix
<1>1. list \in L
  <2>1. q.published \in Seq(Model) /\ q.supplements \in Seq(Model) /\ <<>> \in Seq(Model)
    BY <1>0, EmptySequence DEF Poll
  <2>2. published \in Seq(Model)
    BY <2>1
  <2> HIDE DEF published
  <2>3. toModelInfos(published) \in Seq(Listing)
    BY <2>2, InfosOK
  <2> QED
    BY <2>1, <2>3, SupplementedOK
<1>2. since.polls[p] =>
         list = Undeclared(q.primary, q.supplements, q.forces, Cfg)
  BY <1>0 DEF Undeclared, Withholds, Withheld
<1> HIDE DEF M, L, q, list
<1>3. /\ r \in Poll /\ r.step = "extra" /\ r.models = list /\ r.forces = q.forces
      /\ r.primary = q.primary /\ r.supplements = q.supplements
  BY <1>0, <1>1, <1>a DEF Steps
<1>4. r = [q EXCEPT !.step = "extra", !.models = list]
  BY <1>0, <1>a
<1> HIDE DEF r
<1>5. Made(r)
  BY <1>0, <1>3 DEF Made, Fetched
<1>6. since.polls[p] => Agrees(r, Cfg)
  BY <1>2, <1>3 DEF Agrees
<1> QED
  BY <1>b, <1>3, <1>4, <1>5, <1>6, Assembled

LEMMA DAppendDeclared ==
    ASSUME DInv, NEW p \in Pollers, AppendDeclared(p)
    PROVE  DInv'
<1> DEFINE q == poll[p]
           M == Seq(Model)
           L == Seq(Listing)
           list == appendExtraModels(q.models, Full(q), Cfg.extra)
           r == [[q EXCEPT !.step = "store"] EXCEPT !.models = list]
<1>0. /\ q \in Poll /\ q.step = "extra" /\ Made(q) /\ Cfg \in Config
      /\ since.polls[p] =>
            q.models = Undeclared(q.primary, q.supplements, q.forces, Cfg)
  BY PollTyped DEF AppendDeclared, DInv, PollsAgree, Agrees
<1>a. Poll = [step : Steps, key : Keys, forces : BOOLEAN, primary : M, supplements : M,
              mode : {"catalog", "allow"}, allow : SUBSET Ids, published : M, models : L]
  BY DEF Poll
<1>c. AppendDeclared(p) => Assemble(p, [q EXCEPT !.step = "store", !.models = list])
  BY DEF AppendDeclared
<1>b. Assemble(p, [q EXCEPT !.step = "store", !.models = list])
  BY <1>c
<1>1. list \in L
  <2>1. q.models \in Seq(Listing) /\ Cfg.extra \in Seq(Model)
    BY <1>0, ConfigFields DEF Poll
  <2>2. Answered(q.primary, q.supplements)
    BY <1>0 DEF Made, Fetched
  <2>3. Full(q) \in Seq(Model)
    BY <2>2, PoolOK, EntriesAreModels DEF Full
  <2> QED
    BY <2>1, <2>3, DeclaredOK
<1>2. since.polls[p] =>
         list = Listed(q.primary, q.supplements, q.forces, Cfg)
  BY <1>0 DEF Listed, Full
<1> HIDE DEF M, L, q, list
<1>3. /\ r \in Poll /\ r.step = "store" /\ r.models = list /\ r.forces = q.forces
      /\ r.primary = q.primary /\ r.supplements = q.supplements
  BY <1>0, <1>1, <1>a DEF Steps
<1>4. r = [q EXCEPT !.step = "store", !.models = list]
  BY <1>0, <1>a
<1> HIDE DEF r
<1>5. Made(r)
  BY <1>0, <1>3 DEF Made, Fetched
<1>6. since.polls[p] => Agrees(r, Cfg)
  BY <1>2, <1>3 DEF Agrees
<1> QED
  BY <1>b, <1>3, <1>4, <1>5, <1>6, Assembled

\* Its own list is one a poll may be given out of the cache.
LEMMA OwnListServed ==
    ASSUME DInv, NEW p \in Pollers, poll[p].step \in {"store", "remember"}, since.polls[p]
    PROVE  Contained(poll[p].models, poll[p].forces, Cfg)
<1>1. /\ Answered(poll[p].primary, poll[p].supplements) /\ Cfg \in Config
      /\ poll[p].models = Listed(poll[p].primary, poll[p].supplements, poll[p].forces, Cfg)
  BY PollTyped DEF DInv, PollsAgree, Made, Fetched, Agrees
<1> QED
  BY <1>1, WithheldOK DEF Contained

LEMMA DStore ==
    ASSUME DInv, NEW p \in Pollers, Store(p)
    PROVE  DInv'
<1> DEFINE q == poll[p]
           M == Seq(Model)
           L == Seq(Listing)
           r == [q EXCEPT !.step = "remember"]
           e == [[[[NoEntry EXCEPT !.left = CacheTTL] EXCEPT !.listed = TRUE]
                      EXCEPT !.models = q.models] EXCEPT !.forces = q.forces]
<1>0. /\ q \in Poll /\ q.key \in Keys /\ q.step = "store" /\ Made(q) /\ since \in Since
      /\ since.polls[p] => Agrees(q, Cfg)
      /\ UNCHANGED <<config, reconfigs>>
  BY PollTyped DEF Store, DInv, PollsAgree
<1>a. Poll = [step : Steps, key : Keys, forces : BOOLEAN, primary : M, supplements : M,
              mode : {"catalog", "allow"}, allow : SUBSET Ids, published : M, models : L]
  BY DEF Poll
<1>b. CacheEntry = [left : 0..CacheTTL, listed : BOOLEAN, models : L,
                    forces : BOOLEAN, known : BOOLEAN, remote : M]
  BY DEF CacheEntry
<1>c. /\ cache' = [cache EXCEPT ![q.key] =
                      [NoEntry EXCEPT !.left = CacheTTL, !.listed = TRUE,
                                      !.models = q.models, !.forces = q.forces]]
      /\ poll' = [poll EXCEPT ![p].step = "remember"]
      /\ since' = [since EXCEPT !.cache[q.key] = since.polls[p]]
  BY DEF Store
<1>d. NoEntry \in CacheEntry /\ CacheTTL \in 0..CacheTTL /\ poll \in [Pollers -> Poll]
  BY NoEntryTyped, DiscoveryAssumption DEF DInv, TypeOK
<1>e. NoEntry.known = FALSE /\ NoEntry.remote = <<>>
  BY DEF NoEntry
<1> HIDE DEF M, L
<1>1. /\ r \in Poll /\ r.step = "remember" /\ r.models = q.models /\ r.forces = q.forces
      /\ r.primary = q.primary /\ r.supplements = q.supplements
  BY <1>0, <1>a DEF Steps
<1>2. poll' = [poll EXCEPT ![p] = r]
  BY <1>0, <1>c, <1>d
<1>f. q.models \in L /\ q.forces \in BOOLEAN
  BY <1>0, <1>a
<1>3. /\ e \in CacheEntry /\ e.known = FALSE /\ e.remote = <<>> /\ e.listed = TRUE
      /\ e.models = q.models /\ e.forces = q.forces
  BY <1>b, <1>d, <1>e, <1>f
<1>4. e = [NoEntry EXCEPT !.left = CacheTTL, !.listed = TRUE,
                          !.models = q.models, !.forces = q.forces]
  BY <1>b, <1>d
<1> HIDE DEF r, e
<1>5. cache' = [cache EXCEPT ![q.key] = e]
  BY <1>c, <1>4
<1>6. /\ since' \in Since /\ since'.polls = since.polls
      /\ since'.cache[q.key] = since.polls[p]
      /\ \A j \in Keys \ {q.key} : since'.cache[j] = since.cache[j]
  BY <1>0, <1>c DEF Since
<1>7. Made(r) /\ (since.polls[p] => Agrees(r, Cfg))
  BY <1>0, <1>1 DEF Made, Fetched, Agrees
<1>8. Remembered(e)
  BY <1>3 DEF Remembered
<1>9. since.polls[p] => Served(e, Cfg)
  BY <1>0, <1>3, OwnListServed DEF Served
<1>10. PollsAgree' /\ poll' \in [Pollers -> Poll]
  <2>1. \A o \in Pollers \ {p} : since'.polls[o] = since.polls[o]
    BY <1>6
  <2>2. since'.polls[p] => Agrees(r, Cfg)
    BY <1>6, <1>7
  <2> QED
    BY <1>0, <1>1, <1>2, <1>7, <2>1, <2>2, PollMoves DEF DInv
<1>11. CacheAgrees' /\ cache' \in [Keys -> CacheEntry]
  <2>1. since'.cache[q.key] => Served(e, Cfg)
    BY <1>6, <1>9
  <2> QED
    BY <1>0, <1>3, <1>5, <1>6, <1>8, <2>1, EntryChanges DEF DInv
<1>12. TypeOK'
  BY <1>0, <1>6, <1>10, <1>11 DEF DInv, TypeOK, Since
<1> QED
  BY <1>10, <1>11, <1>12 DEF DInv

LEMMA DRememberRemote ==
    ASSUME DInv, NEW p \in Pollers, RememberRemote(p)
    PROVE  DInv'
<1> DEFINE q == poll[p]
           M == Seq(Model)
           L == Seq(Listing)
           old == cache[q.key]
           base == IF old.left > 0 THEN old ELSE [NoEntry EXCEPT !.left = CacheTTL]
           full == Full(q)
           e == [[base EXCEPT !.known = TRUE] EXCEPT !.remote = full]
           r == [[[[Off EXCEPT !.step = "answer"] EXCEPT !.key = q.key]
                       EXCEPT !.forces = q.forces] EXCEPT !.models = q.models]
<1>0. /\ q \in Poll /\ q.key \in Keys /\ q.step = "remember" /\ Made(q) /\ since \in Since
      /\ old \in CacheEntry /\ UNCHANGED <<config, reconfigs, since>>
  BY PollTyped DEF RememberRemote, DInv, PollsAgree
<1>a. Poll = [step : Steps, key : Keys, forces : BOOLEAN, primary : M, supplements : M,
              mode : {"catalog", "allow"}, allow : SUBSET Ids, published : M, models : L]
  BY DEF Poll
<1>b. CacheEntry = [left : 0..CacheTTL, listed : BOOLEAN, models : L,
                    forces : BOOLEAN, known : BOOLEAN, remote : M]
  BY DEF CacheEntry
<1>c. /\ cache' = [cache EXCEPT ![q.key] = Remembering(@, Full(q))]
      /\ poll' = [poll EXCEPT ![p] = [Off EXCEPT !.step = "answer", !.key = q.key,
                                                 !.forces = q.forces, !.models = q.models]]
  BY DEF RememberRemote
<1>d. /\ NoEntry \in CacheEntry /\ NoEntry.listed = FALSE /\ CacheTTL \in 0..CacheTTL
      /\ Off \in Poll /\ cache \in [Keys -> CacheEntry]
  BY NoEntryTyped, OffTyped, DiscoveryAssumption DEF DInv, TypeOK
<1>1. Answered(q.primary, q.supplements)
  BY <1>0 DEF Made, Fetched
<1>2. full \in M /\ full = mergeCatalogs(q.primary, q.supplements)
  BY <1>1, PoolOK, EntriesAreModels DEF Full
<1>3. q.primary \in Seq(Entries) /\ q.supplements \in Seq(Entries)
  BY <1>1, AnsweredOK
<1>4. since.cache[q.key] => Served(old, Cfg)
  BY <1>0 DEF DInv, CacheAgrees
<1>5. since.polls[p] => Contained(q.models, q.forces, Cfg)
  BY <1>0, OwnListServed
<1>6. cache' = [cache EXCEPT ![q.key] = [base EXCEPT !.known = TRUE, !.remote = full]]
  BY <1>0, <1>c, <1>d DEF Remembering
<1> HIDE DEF M, L, old, full
<1>7. /\ base \in CacheEntry
      /\ base.listed => base = old
  <2> DEFINE fresh == [NoEntry EXCEPT !.left = CacheTTL]
  <2>1. fresh \in CacheEntry /\ fresh.listed = FALSE
    BY <1>b, <1>d
  <2> HIDE DEF fresh
  <2> QED
    BY <1>0, <2>1 DEF fresh
<1> HIDE DEF base
<1>8. /\ e \in CacheEntry /\ e.known = TRUE /\ e.remote = full /\ e.listed = base.listed
      /\ e.models = base.models /\ e.forces = base.forces
      /\ e = [base EXCEPT !.known = TRUE, !.remote = full]
  BY <1>2, <1>7, <1>b
<1>f. q.models \in L /\ q.forces \in BOOLEAN
  BY <1>0, <1>a
<1>9. /\ r \in Poll /\ r.step = "answer" /\ r.models = q.models /\ r.forces = q.forces
      /\ r = [Off EXCEPT !.step = "answer", !.key = q.key, !.forces = q.forces,
                         !.models = q.models]
  BY <1>0, <1>a, <1>d, <1>f DEF Steps
<1> HIDE DEF e, r
<1>10. cache' = [cache EXCEPT ![q.key] = e] /\ poll' = [poll EXCEPT ![p] = r]
  BY <1>6, <1>8, <1>9, <1>c
<1>11. Made(r) /\ (since.polls[p] => Agrees(r, Cfg))
  BY <1>5, <1>9 DEF Made, Fetched, Agrees
<1>12. Remembered(e)
  BY <1>1, <1>2, <1>3, <1>8 DEF Remembered
<1>13. since.cache[q.key] => Served(e, Cfg)
  BY <1>4, <1>7, <1>8 DEF Served
<1>14. PollsAgree' /\ poll' \in [Pollers -> Poll]
  BY <1>0, <1>9, <1>10, <1>11, PollMoves DEF DInv
<1>15. CacheAgrees' /\ cache' \in [Keys -> CacheEntry]
  BY <1>0, <1>8, <1>10, <1>12, <1>13, EntryChanges DEF DInv
<1>16. TypeOK'
  BY <1>0, <1>14, <1>15 DEF DInv, TypeOK
<1> QED
  BY <1>14, <1>15, <1>16 DEF DInv

\* After a change of the configuration nothing is known to agree with it.
LEMMA DReconfigure ==
    ASSUME DInv, NEW n \in DOMAIN Configs, Reconfigure(n)
    PROVE  DInv'
<1>1. /\ UNCHANGED <<cache, poll>> /\ config' = n /\ reconfigs' = reconfigs + 1
      /\ reconfigs < MaxReconfigs
      /\ since' = [calls |-> [p \in Pollers |-> FALSE],
                   polls |-> [p \in Pollers |-> FALSE], cache |-> [k \in Keys |-> FALSE]]
  BY DEF Reconfigure
<1>2. /\ \A p \in Pollers : since'.polls[p] = FALSE
      /\ \A k \in Keys : since'.cache[k] = FALSE
      /\ since' \in Since
  BY <1>1 DEF Since
<1>3. PollsAgree' /\ CacheAgrees'
  BY <1>1, <1>2 DEF DInv, PollsAgree, CacheAgrees
<1>4. reconfigs' \in 0..MaxReconfigs
  BY <1>1, DiscoveryAssumption DEF DInv, TypeOK
<1>5. TypeOK'
  BY <1>1, <1>2, <1>4 DEF DInv, TypeOK, Since
<1> QED
  BY <1>3, <1>5 DEF DInv

LEMMA DTick ==
    ASSUME DInv, Tick
    PROVE  DInv'
<1> DEFINE M == Seq(Model)
           L == Seq(Listing)
<1>a. CacheEntry = [left : 0..CacheTTL, listed : BOOLEAN, models : L,
                    forces : BOOLEAN, known : BOOLEAN, remote : M]
  BY DEF CacheEntry
<1>1. /\ UNCHANGED <<config, reconfigs, poll, since>>
      /\ cache' = [k \in Keys |-> IF cache[k].left > 1
                                  THEN [cache[k] EXCEPT !.left = @ - 1] ELSE NoEntry]
  BY DEF Tick
<1>2. Cfg' = Cfg
  BY <1>1 DEF Cfg
<1> HIDE DEF M, L
<1>3. ASSUME NEW k \in Keys
      PROVE  /\ cache'[k] \in CacheEntry /\ Remembered(cache'[k])
             /\ since.cache[k] => Served(cache'[k], Cfg)
  <2>1. /\ cache[k] \in CacheEntry /\ Remembered(cache[k])
        /\ since.cache[k] => Served(cache[k], Cfg)
    BY DEF DInv, TypeOK, CacheAgrees
  <2>2. CASE cache[k].left > 1
    <3> DEFINE e == [cache[k] EXCEPT !.left = cache[k].left - 1]
    <3>1. cache'[k] = e
      BY <1>1, <2>2
    <3>2. cache[k].left - 1 \in 0..CacheTTL
      BY <1>a, <2>1, <2>2, DiscoveryAssumption
    <3>3. /\ e \in CacheEntry /\ e.known = cache[k].known /\ e.remote = cache[k].remote
          /\ e.listed = cache[k].listed /\ e.models = cache[k].models
          /\ e.forces = cache[k].forces
      BY <1>a, <2>1, <3>2
    <3> HIDE DEF e
    <3> QED
      BY <2>1, <3>1, <3>3 DEF Remembered, Served
  <2>3. CASE ~(cache[k].left > 1)
    <3>1. cache'[k] = NoEntry
      BY <1>1, <2>3
    <3> QED
      BY <3>1, NoEntryTyped
  <2> QED
    BY <2>2, <2>3
<1>4. cache' \in [Keys -> CacheEntry]
  <2>1. cache' = [k \in Keys |-> cache'[k]]
    BY <1>1
  <2> QED
    BY <1>3, <2>1
<1>5. CacheAgrees'
  BY <1>1, <1>2, <1>3 DEF CacheAgrees
<1>6. PollsAgree' /\ TypeOK'
  BY <1>1, <1>2, <1>4 DEF DInv, PollsAgree, TypeOK
<1> QED
  BY <1>5, <1>6 DEF DInv

LEMMA DInitially == Init => DInv
<1> SUFFICES ASSUME Init
             PROVE  DInv
  OBVIOUS
<1>1. /\ config = 1 /\ reconfigs = 0 /\ cache = [k \in Keys |-> NoEntry]
      /\ poll = [p \in Pollers |-> Off]
      /\ since = [calls |-> [p \in Pollers |-> TRUE], polls |-> [p \in Pollers |-> TRUE],
                  cache |-> [k \in Keys |-> TRUE]]
  BY DEF Init
<1>2. config \in DOMAIN Configs
  <2>1. Configs \in Seq(Config) /\ Configs # <<>>
    BY DiscoveryAssumption
  <2>2. Len(Configs) \in Nat /\ Len(Configs) # 0 /\ DOMAIN Configs = 1..Len(Configs)
    BY <2>1
  <2> QED
    BY <1>1, <2>2
<1>3. since \in Since
  BY <1>1 DEF Since
<1>4. TypeOK
  BY <1>1, <1>2, <1>3, OffTyped, NoEntryTyped, DiscoveryAssumption DEF TypeOK, Since
<1>5. PollsAgree /\ CacheAgrees
  BY <1>1, OffTyped, NoEntryTyped DEF PollsAgree, CacheAgrees
<1> QED
  BY <1>4, <1>5 DEF DInv

LEMMA DInvariant == Spec => []DInv
<1>1. ASSUME DInv, [Next]_vars
      PROVE  DInv'
  <2>1. CASE UNCHANGED vars
    <3>1. UNCHANGED <<config, reconfigs, cache, poll, since>> /\ Cfg' = Cfg
      BY <2>1 DEF vars, Cfg
    <3>2. TypeOK'
      BY <1>1, <3>1 DEF DInv, TypeOK
    <3>3. PollsAgree'
      BY <1>1, <3>1 DEF DInv, PollsAgree
    <3>4. CacheAgrees'
      BY <1>1, <3>1 DEF DInv, CacheAgrees
    <3> QED
      BY <3>2, <3>3, <3>4 DEF DInv
  <2>2. ASSUME NEW p \in Pollers, PollStep(p)
        PROVE  DInv'
    <3>1. ASSUME NEW answer \in Answers[p], Fetch(p, answer) \/ FetchFails(p, answer)
          PROVE  DInv'
      <4>1. CASE Fetch(p, answer)
        BY <1>1, <4>1, DFetch
      <4>2. CASE FetchFails(p, answer)
        BY <1>1, <4>2, DEnds
      <4> QED
        BY <3>1, <4>1, <4>2
    <3>2. CASE Lookup(p)
      BY <1>1, <3>2, DLookup
    <3>3. CASE ReadMode(p) \/ ReadPolicy(p) \/ KeepAllowed(p)
      BY <1>1, <3>3, DReadMode, DReadPolicy, DKeepAllowed
    <3>4. CASE ReadPrefix(p) \/ AppendDeclared(p)
      BY <1>1, <3>4, DReadPrefix, DAppendDeclared
    <3>5. CASE Store(p) \/ RememberRemote(p)
      BY <1>1, <3>5, DStore, DRememberRemote
    <3>6. CASE Answer(p)
      BY <1>1, <3>6, DEnds
    <3> QED
      BY <2>2, <3>1, <3>2, <3>3, <3>4, <3>5, <3>6 DEF PollStep
  <2> QED
    BY <1>1, <2>1, <2>2, DStartPoll, DReconfigure, DTick DEF Next
<1>2. DInv /\ [Next]_vars => DInv'
  BY <1>1
<1> QED
  BY <1>2, DInitially, PTL DEF Spec

\* What a configuration, its cache and the calls under way consist of.
THEOREM TypeCorrect == Spec => []TypeOK
<1>1. DInv => TypeOK
  BY DEF DInv
<1> QED
  BY <1>1, DInvariant, PTL

\* A list assembled while the configuration stood still has what that
\* configuration lets the credential advertise, each id once: whatever order
\* the mode, the allowed ids, the prefix and the declared models are read in,
\* and whatever other calls do in between.
THEOREM ListsFollowPolicy == Spec => []ListFollowsPolicy
<1>1. DInv => ListFollowsPolicy
  <2> SUFFICES ASSUME DInv, NEW p \in Pollers, poll[p].step = "store", since.polls[p]
               PROVE  /\ IdsOf(poll[p].models) = Advertisable(poll[p], Cfg)
                      /\ IsInjective([i \in DOMAIN poll[p].models |-> poll[p].models[i].id])
    BY DEF ListFollowsPolicy
  <2>1. /\ Answered(poll[p].primary, poll[p].supplements) /\ Cfg \in Config
        /\ poll[p].models = Listed(poll[p].primary, poll[p].supplements, poll[p].forces, Cfg)
    BY PollTyped DEF DInv, PollsAgree, Made, Fetched, Agrees
  <2> QED
    BY <2>1, PolicyOK
<1> QED
  BY <1>1, DInvariant, PTL

\* No advertised window is above every limit known for the id, unless the entry
\* it was listed from, and the one that was filled from, gave none.
THEOREM LimitsAreKept == Spec => []LimitsHold
<1>1. DInv => LimitsHold
  <2> SUFFICES ASSUME DInv, NEW p \in Pollers, poll[p].step = "store", since.polls[p],
                      NEW info \in Range(poll[p].models)
               PROVE  LET declared == LimitsOf(Range(Cfg.extra), info.id)
                          live == LimitsOf(Range(Full(poll[p])), info.id)
                          known == IF live # {} THEN live
                                   ELSE LimitsOf(Range(Measured), info.id)
                      IN  \/ \E n \in (declared \cup known) \ {0} : info.context <= n
                          \/ known \subseteq {0} /\ (live # {} \/ 0 \in declared)
    BY DEF LimitsHold
  <2>1. /\ Answered(poll[p].primary, poll[p].supplements) /\ Cfg \in Config
        /\ poll[p].models = Listed(poll[p].primary, poll[p].supplements, poll[p].forces, Cfg)
    BY PollTyped DEF DInv, PollsAgree, Made, Fetched, Agrees
  <2>2. Full(poll[p]) = mergeCatalogs(poll[p].primary, poll[p].supplements)
    BY DEF Full
  <2> QED
    BY <2>1, <2>2, LimitOK
<1> QED
  BY <1>1, DInvariant, PTL

\* While the configuration stands still, no answer leaks a bare id, be it made
\* for the call or found in the cache.
THEOREM FlagsRespected == Spec => []FlagRespected
<1>1. DInv => FlagRespected
  <2> SUFFICES ASSUME DInv, NEW p \in Pollers, since.polls[p]
               PROVE  NamespaceKept(p)
    BY DEF FlagRespected
  <2>1. poll[p].step = "answer" => Contained(poll[p].models, poll[p].forces, Cfg)
    BY DEF DInv, PollsAgree, Agrees
  <2> QED
    BY <2>1 DEF NamespaceKept, Contained, Withholds
<1> QED
  BY <1>1, DInvariant, PTL

\* What is remembered for a credential comes from answers of upstream.
LEMMA PoolAnswered ==
    ASSUME DInv, NEW k \in Keys
    PROVE  /\ \A m \in Range(cache[k].remote) : Priced(m)
           /\ cache[k].known =>
                 \E p \in Pollers : \E a \in Answers[p] :
                     IdsOf(cache[k].remote) =
                        IdsOf(extractModels(a.console.body))
                           \cup IdsOf(extractModels(a.v3.body)) \cup Named(a)
<1>1. Remembered(cache[k])
  BY DEF DInv, CacheAgrees
<1>2. CASE cache[k].known
  <2>1. PICK primary \in Seq(Entries), supplements \in Seq(Entries) :
           /\ Answered(primary, supplements)
           /\ cache[k].remote = mergeCatalogs(primary, supplements)
    BY <1>1, <1>2 DEF Remembered
  <2> QED
    BY <1>2, <2>1, PoolPriced
<1>3. CASE ~cache[k].known
  <2>1. cache[k].remote = <<>>
    BY <1>1, <1>3 DEF Remembered
  <2>2. Range(cache[k].remote) = {}
    BY <2>1, NoElements
  <2> QED
    BY <1>3, <2>2
<1> QED
  BY <1>2, <1>3

\* Nothing in the fallback pool is free by a guess.
THEOREM NothingFreeByGuess == Spec => []NoFreeGuess
<1>1. DInv => NoFreeGuess
  BY PoolAnswered DEF NoFreeGuess, Priced
<1> QED
  BY <1>1, DInvariant, PTL

\* Whatever is published of it, the pool of a realm is exactly what one answer
\* lists in this realm's catalogs and mentions in any payload, the other realm's
\* included: where the comments say otherwise, this is what the code does.
THEOREM PoolsAreWhole == Spec => []PoolIsWhole
<1>1. DInv => PoolIsWhole
  BY PoolAnswered DEF PoolIsWhole, Named
<1> QED
  BY <1>1, DInvariant, PTL
-----------------------------------------------------------------------------
(***************************************************************************)
(* Whose models: in every step of an assembly, whatever configuration its  *)
(* parts were read under, what is to be advertised was spelled out by this *)
(* realm, mentioned, or declared.                                          *)
(***************************************************************************)
Advertised == OwnIds \cup Mentioned \cup Declared

Own(q) ==
    /\ q.step = "prefix" => IdsOf(q.published) \subseteq IdsOf(q.primary)
    /\ q.step \in {"extra", "store", "remember", "answer"} =>
          IdsOf(q.models) \subseteq Advertised

OInv ==
    /\ DInv
    /\ \A p \in Pollers : Own(poll[p])
    /\ \A k \in Keys : IdsOf(cache[k].models) \subseteq Advertised

\* What upstream answered: the catalogs are this realm's, the rest mentioned.
LEMMA AnsweredOwn ==
    ASSUME NEW primary, NEW supplements, Answered(primary, supplements)
    PROVE  IdsOf(primary) \subseteq OwnIds /\ IdsOf(supplements) \subseteq Mentioned
<1>1. PICK p \in Pollers : \E a \in Answers[p] :
         IdsOf(primary) = IdsOf(extractModels(a.console.body))
                             \cup IdsOf(extractModels(a.v3.body))
  BY AnsweredOK
<1>2. PICK a \in Answers[p] :
         IdsOf(primary) = IdsOf(extractModels(a.console.body))
                             \cup IdsOf(extractModels(a.v3.body))
  BY <1>1
<1>3. OwnBodies \subseteq Nodes
  BY DiscoveryAssumption DEF OwnBodies, IsPayload
<1>4. a.console.body \in OwnBodies /\ a.v3.body \in OwnBodies
  BY DEF OwnBodies
<1>5. /\ IdsOf(extractModels(a.console.body)) \subseteq OwnIds
      /\ IdsOf(extractModels(a.v3.body)) \subseteq OwnIds
  BY <1>3, <1>4, ExtractSpelled DEF OwnIds, SpelledIn
<1>6. IdsOf(supplements) \subseteq Mentioned
  BY AnsweredOK DEF IdsOf
<1> QED
  BY <1>2, <1>5, <1>6

LEMMA DeclaredIds ==
    ASSUME TypeOK
    PROVE  IdsOf(Cfg.extra) \subseteq Declared
  BY DEF TypeOK, Cfg, Declared

LEMMA OwnFields ==
    ASSUME OInv, NEW p \in Pollers
    PROVE  /\ poll \in [Pollers -> Poll] /\ poll[p] \in Poll /\ Own(poll[p])
           /\ poll[p].primary \in Seq(Model) /\ poll[p].supplements \in Seq(Model)
           /\ poll[p].published \in Seq(Model) /\ poll[p].models \in Seq(Listing)
           /\ poll[p].step \in Fetched =>
                 /\ Answered(poll[p].primary, poll[p].supplements)
                 /\ IdsOf(poll[p].primary) \subseteq OwnIds
                 /\ IdsOf(poll[p].supplements) \subseteq Mentioned
<1>1. poll \in [Pollers -> Poll] /\ Made(poll[p]) /\ Own(poll[p])
  BY DEF OInv, DInv, TypeOK, PollsAgree
<1>2. /\ poll[p].primary \in Seq(Model) /\ poll[p].supplements \in Seq(Model)
      /\ poll[p].published \in Seq(Model) /\ poll[p].models \in Seq(Listing)
  BY <1>1 DEF Poll
<1> QED
  BY <1>1, <1>2, AnsweredOwn DEF Made

\* A poll takes a step and leaves the cache alone.
LEMMA OwnMoves ==
    ASSUME OInv, DInv', NEW p \in Pollers, NEW q, poll' = [poll EXCEPT ![p] = q],
           cache' = cache, Own(q)
    PROVE  OInv'
<1>1. \A o \in Pollers : poll'[o] = IF o = p THEN q ELSE poll[o]
  BY OwnFields
<1>2. \A o \in Pollers : Own(poll'[o])
  BY <1>1 DEF OInv
<1> QED
  BY <1>2 DEF OInv

LEMMA OLookup ==
    ASSUME OInv, DInv', NEW p \in Pollers, Lookup(p)
    PROVE  OInv'
<1> DEFINE entry == cache[poll[p].key]
           q == poll'[p]
<1>1. poll \in [Pollers -> Poll] /\ poll' \in [Pollers -> Poll]
  BY OwnFields DEF DInv, TypeOK
<1>2. poll' = [poll EXCEPT ![p] = q] /\ cache' = cache
  BY <1>1 DEF Lookup
<1>3. IdsOf(entry.models) \subseteq Advertised
  BY PollTyped DEF OInv
<1>4. \/ q.step = "answer" /\ q.models = entry.models
      \/ q.step = "fetch"
  BY <1>1, OwnFields DEF Lookup, Poll
<1> HIDE DEF q, entry
<1>5. Own(q)
  BY <1>3, <1>4 DEF Own
<1> QED
  BY <1>2, <1>5, OwnMoves

\* A step of assembleModels before the list is begun.
LEMMA OBeforeList ==
    ASSUME OInv, DInv', NEW p \in Pollers,
           ReadMode(p) \/ ReadPolicy(p) \/ KeepAllowed(p)
    PROVE  OInv'
<1> DEFINE q == poll'[p]
           kept == OnlyAllowed(poll[p].primary, poll[p].allow, Cfg.extra)
<1>1. poll \in [Pollers -> Poll] /\ poll[p] \in Poll /\ poll[p].primary \in Seq(Model)
  BY OwnFields
<1>2. poll' = [poll EXCEPT ![p] = q] /\ cache' = cache
  BY <1>1 DEF ReadMode, ReadPolicy, KeepAllowed, Assemble
<1>3. IdsOf(kept) \subseteq IdsOf(poll[p].primary)
  BY <1>1, OnlyAllowedOK DEF IdsOf
<1> HIDE DEF kept
<1>4. \/ q.step \in {"policy", "keep"}
      \/ /\ q.step = "prefix" /\ q.primary = poll[p].primary
         /\ q.published = q.primary \/ q.published = kept
  <2>1. CASE ReadMode(p)
    BY <1>1, <2>1 DEF ReadMode, Assemble, Poll
  <2>2. CASE ReadPolicy(p)
    BY <1>1, <2>2 DEF ReadPolicy, Assemble, Poll
  <2>3. CASE KeepAllowed(p)
    BY <1>1, <2>3 DEF KeepAllowed, Assemble, Poll, kept
  <2> QED
    BY <2>1, <2>2, <2>3
<1> HIDE DEF q
<1>5. Own(q)
  BY <1>3, <1>4 DEF Own
<1> QED
  BY <1>2, <1>5, OwnMoves

LEMMA OReadPrefix ==
    ASSUME OInv, DInv', NEW p \in Pollers, ReadPrefix(p)
    PROVE  OInv'
<1> DEFINE q == poll[p]
           published == IF Withheld(q, Cfg.prefix) THEN <<>> ELSE q.published
           infos == toModelInfos(published)
           list == appendSupplements(infos, q.supplements)
           r == poll'[p]
<1>1. /\ poll \in [Pollers -> Poll] /\ q \in Poll /\ q.step = "prefix" /\ Own(q)
      /\ q.published \in Seq(Model) /\ q.supplements \in Seq(Model)
      /\ IdsOf(q.primary) \subseteq OwnIds /\ IdsOf(q.supplements) \subseteq Mentioned
  BY OwnFields DEF ReadPrefix, Fetched
<1>2. poll' = [poll EXCEPT ![p] = r] /\ cache' = cache /\ r.step = "extra" /\ r.models = list
  BY <1>1 DEF ReadPrefix, Assemble, Poll
<1>3. published \in Seq(Model) /\ IdsOf(published) \subseteq OwnIds
  <2>1. IdsOf(q.published) \subseteq OwnIds
    BY <1>1 DEF Own
  <2> QED
    BY <1>1, <2>1, EmptySequence, NoElements
<1> HIDE DEF published, q, r
<1>4. infos \in Seq(Listing) /\ IdsOf(infos) \subseteq OwnIds
  <2>1. /\ infos \in Seq(Listing)
        /\ \A id : id \in IdsOf(infos) => \E m \in Range(published) : m.id = id
    BY <1>3, InfosOK
  <2> QED
    BY <1>3, <2>1 DEF IdsOf
<1> HIDE DEF infos
<1>5. IdsOf(list) \subseteq OwnIds \cup Mentioned
  <2>1. \A id : id \in IdsOf(list) =>
           id \in IdsOf(infos) \/ \E m \in Range(q.supplements) : m.id = id
    BY <1>1, <1>4, SupplementedOK
  <2> HIDE DEF list
  <2> QED
    BY <1>1, <1>4, <2>1 DEF IdsOf
<1> HIDE DEF list
<1>6. Own(r)
  BY <1>2, <1>5 DEF Own, Advertised
<1> QED
  BY <1>2, <1>6, OwnMoves

LEMMA OAppendDeclared ==
    ASSUME OInv, DInv', NEW p \in Pollers, AppendDeclared(p)
    PROVE  OInv'
<1> DEFINE q == poll[p]
           extra == Cfg.extra
           full == Full(q)
           list == appendExtraModels(q.models, full, extra)
           r == poll'[p]
<1>1. /\ poll \in [Pollers -> Poll] /\ q \in Poll /\ q.step = "extra" /\ Own(q)
      /\ q.models \in Seq(Listing) /\ Answered(q.primary, q.supplements)
  BY OwnFields DEF AppendDeclared, Fetched
<1>2. poll' = [poll EXCEPT ![p] = r] /\ cache' = cache /\ r.step = "store" /\ r.models = list
  BY <1>1 DEF AppendDeclared, Assemble, Poll
<1>3. full \in Seq(Model)
  BY <1>1, PoolOK, EntriesAreModels DEF Full
<1>4. extra \in Seq(Model) /\ IdsOf(extra) \subseteq Declared
  BY CfgOK, ConfigFields, DeclaredIds DEF OInv, DInv
<1> HIDE DEF q, r, full, extra
<1>5. IdsOf(list) \subseteq Advertised
  <2>1. \A id : id \in IdsOf(list) =>
           id \in IdsOf(q.models) \/ \E m \in Range(extra) : m.id = id
    BY <1>1, <1>3, <1>4, DeclaredOK
  <2>2. IdsOf(q.models) \subseteq Advertised
    BY <1>1 DEF Own
  <2> HIDE DEF list
  <2> QED
    BY <1>4, <2>1, <2>2 DEF IdsOf, Advertised
<1> HIDE DEF list
<1>6. Own(r)
  BY <1>2, <1>5 DEF Own
<1> QED
  BY <1>2, <1>6, OwnMoves

\* The two steps that write the cache.
LEMMA OCaching ==
    ASSUME OInv, DInv', NEW p \in Pollers, Store(p) \/ RememberRemote(p)
    PROVE  OInv'
<1> DEFINE q == poll[p]
           k == q.key
<1>1. /\ poll \in [Pollers -> Poll] /\ q \in Poll /\ k \in Keys
      /\ IdsOf(q.models) \subseteq Advertised
  BY OwnFields, PollTyped DEF OInv, Store, RememberRemote, Own
<1>2. /\ cache \in [Keys -> CacheEntry] /\ cache' \in [Keys -> CacheEntry]
      /\ poll' \in [Pollers -> Poll]
  BY DEF OInv, DInv, TypeOK
<1>3. IdsOf(NoEntry.models) = {}
  BY NoElements DEF NoEntry
<1>4. \A o \in Pollers \ {p} : poll'[o] = poll[o]
  BY <1>1 DEF Store, RememberRemote
<1>5. \A j \in Keys \ {k} : cache'[j] = cache[j]
  BY <1>2 DEF Store, RememberRemote
<1>6. poll'[p].models = q.models /\ poll'[p].step \in {"remember", "answer"}
  <2>1. CASE Store(p)
    BY <1>1, <2>1 DEF Store, Poll
  <2>2. CASE RememberRemote(p)
    BY <1>1, <2>2, OffTyped DEF RememberRemote, Poll
  <2> QED
    BY <2>1, <2>2
<1>7. cache'[k].models \in {q.models, cache[k].models, NoEntry.models}
  <2>1. CASE Store(p)
    BY <1>1, <1>2, <2>1, NoEntryTyped DEF Store, CacheEntry
  <2>2. CASE RememberRemote(p)
    BY <1>1, <1>2, <2>2, NoEntryTyped DEF RememberRemote, Remembering, CacheEntry
  <2> QED
    BY <2>1, <2>2
<1>8. Own(poll'[p])
  BY <1>1, <1>6 DEF Own
<1>9. IdsOf(cache'[k].models) \subseteq Advertised
  BY <1>1, <1>3, <1>7 DEF OInv
<1> QED
  BY <1>4, <1>5, <1>8, <1>9 DEF OInv

LEMMA OTick ==
    ASSUME OInv, DInv', Tick
    PROVE  OInv'
<1>1. cache \in [Keys -> CacheEntry] /\ poll' = poll
  BY DEF OInv, DInv, TypeOK, Tick
<1>2. IdsOf(NoEntry.models) = {}
  BY NoElements DEF NoEntry
<1>3. ASSUME NEW k \in Keys
      PROVE  cache'[k].models \in {cache[k].models, NoEntry.models}
  BY <1>1 DEF Tick, CacheEntry
<1>4. \A k \in Keys : IdsOf(cache'[k].models) \subseteq Advertised
  BY <1>2, <1>3 DEF OInv
<1> QED
  BY <1>1, <1>4 DEF OInv

LEMMA OInitially == Init => OInv
<1> SUFFICES ASSUME Init
             PROVE  OInv
  OBVIOUS
<1>1. Off.step = "off" /\ IdsOf(NoEntry.models) = {}
  BY OffTyped, NoElements DEF NoEntry
<1>2. \A p \in Pollers : Own(poll[p])
  BY <1>1 DEF Init, Own
<1>3. \A k \in Keys : IdsOf(cache[k].models) \subseteq Advertised
  BY <1>1 DEF Init
<1> QED
  BY <1>2, <1>3, DInitially DEF OInv

LEMMA OInvariant == Spec => []OInv
<1>1. ASSUME OInv, DInv', [Next]_vars
      PROVE  OInv'
  <2>1. CASE UNCHANGED vars
    BY <1>1, <2>1 DEF vars, OInv
  <2>2. ASSUME NEW p \in Pollers, PollStep(p)
        PROVE  OInv'
    <3>1. ASSUME NEW answer \in Answers[p], Fetch(p, answer) \/ FetchFails(p, answer)
          PROVE  OInv'
      <4>1. poll \in [Pollers -> Poll] /\ poll[p] \in Poll
        BY <1>1, OwnFields
      <4>2. /\ poll' = [poll EXCEPT ![p] = poll'[p]] /\ cache' = cache
            /\ poll'[p].step \in {"mode", "off"}
        BY <3>1, <4>1, OffTyped DEF Fetch, FetchFails, Poll
      <4>3. Own(poll'[p])
        BY <4>2 DEF Own
      <4> QED
        BY <1>1, <4>2, <4>3, OwnMoves
    <3>2. CASE Lookup(p)
      BY <1>1, <3>2, OLookup
    <3>3. CASE ReadMode(p) \/ ReadPolicy(p) \/ KeepAllowed(p)
      BY <1>1, <3>3, OBeforeList
    <3>4. CASE ReadPrefix(p) \/ AppendDeclared(p)
      BY <1>1, <3>4, OReadPrefix, OAppendDeclared
    <3>5. CASE Store(p) \/ RememberRemote(p)
      BY <1>1, <3>5, OCaching
    <3>6. CASE Answer(p)
      <4>1. poll' = [poll EXCEPT ![p] = Off] /\ cache' = cache /\ Own(Off)
        BY <3>6, OffTyped DEF Answer, Own
      <4> QED
        BY <1>1, <4>1, OwnMoves
    <3> QED
      BY <2>2, <3>1, <3>2, <3>3, <3>4, <3>5, <3>6 DEF PollStep
  <2>3. ASSUME NEW p \in Pollers, NEW k \in Keys, NEW forces \in BOOLEAN,
               StartPoll(p, k, forces)
        PROVE  OInv'
    <3>1. poll \in [Pollers -> Poll]
      BY <1>1, OwnFields
    <3>2. /\ poll' = [poll EXCEPT ![p] = poll'[p]] /\ cache' = cache
          /\ poll'[p].step = "lookup"
      BY <2>3, <3>1, OffTyped DEF StartPoll, Poll
    <3>3. Own(poll'[p])
      BY <3>2 DEF Own
    <3> QED
      BY <1>1, <3>2, <3>3, OwnMoves
  <2>4. ASSUME NEW n \in DOMAIN Configs, Reconfigure(n)
        PROVE  OInv'
    BY <1>1, <2>4 DEF Reconfigure, OInv
  <2> QED
    BY <1>1, <2>1, <2>2, <2>3, <2>4, OTick DEF Next
<1>2. OInv /\ DInv' /\ [Next]_vars => OInv'
  BY <1>1
<1> QED
  BY <1>2, OInitially, DInvariant, PTL DEF Spec

\* Whatever the wrappers of a payload hold, and however discoveries, the cache
\* and changes of the configuration interleave, only models this realm spells
\* out, those a payload of either realm mentions and those that are declared are
\* advertised; and the declared ones are not in the pool to fall back to.
THEOREM ListedOrMentioned == Spec => []OnlyListedOrMentioned
<1>1. OInv => OnlyListedOrMentioned
  <2> SUFFICES ASSUME OInv
               PROVE  OnlyListedOrMentioned
    OBVIOUS
  <2>1. ASSUME NEW k \in Keys
        PROVE  IdsOf(cache[k].remote) \subseteq OwnIds \cup Mentioned
    <3>1. Remembered(cache[k])
      BY DEF OInv, DInv, CacheAgrees
    <3>2. CASE cache[k].known
      <4>1. PICK primary \in Seq(Entries), supplements \in Seq(Entries) :
               /\ Answered(primary, supplements)
               /\ cache[k].remote = mergeCatalogs(primary, supplements)
        BY <3>1, <3>2 DEF Remembered
      <4>2. IdsOf(cache[k].remote) = IdsOf(primary) \cup IdsOf(supplements)
        BY <4>1, PoolOK
      <4> QED
        BY <4>1, <4>2, AnsweredOwn
    <3>3. CASE ~cache[k].known
      BY <3>1, <3>3, NoElements DEF Remembered
    <3> QED
      BY <3>2, <3>3
  <2>2. \A p \in Pollers : poll[p].step = "answer" => IdsOf(poll[p].models) \subseteq Advertised
    BY DEF OInv, Own
  <2> QED
    BY <2>1, <2>2 DEF OnlyListedOrMentioned, OInv, Advertised
<1> QED
  BY <1>1, OInvariant, PTL

-----------------------------------------------------------------------------
(***************************************************************************)
(* That an outdated list is gone in the end rests on fairness; that        *)
(* nothing keeps it alive does not.                                        *)
(***************************************************************************)
\* The list of an account is the one it had, and has no more time than it had.
ListKept(k) ==
    /\ cache[k].listed
    /\ cache'[k].models = cache[k].models /\ cache'[k].forces = cache[k].forces
    /\ cache'[k].left <= cache[k].left

PoolKept(k) ==
    /\ cache[k].known
    /\ cache'[k].remote = cache[k].remote /\ cache'[k].left <= cache[k].left

\* What is cached of an account ages, or a poll of that account replaces it.
Ages(k) ==
    /\ cache'[k].listed => ListKept(k) \/ \E p \in Pollers : Store(p) /\ poll[p].key = k
    /\ cache'[k].known =>
          PoolKept(k) \/ \E p \in Pollers : RememberRemote(p) /\ poll[p].key = k

LEMMA UntouchedAges ==
    ASSUME TypeOK, NEW k \in Keys, cache'[k] = cache[k]
    PROVE  Ages(k)
<1>1. cache[k].left \in Int
  BY DEF TypeOK, CacheEntry
<1> QED
  BY <1>1 DEF Ages, ListKept, PoolKept

LEMMA StoredAges ==
    ASSUME TypeOK, NEW p \in Pollers, Store(p), NEW k \in Keys
    PROVE  Ages(k)
<1> DEFINE e == [NoEntry EXCEPT !.left = CacheTTL, !.listed = TRUE,
                                !.models = poll[p].models, !.forces = poll[p].forces]
<1>1. cache' = [cache EXCEPT ![poll[p].key] = e]
  BY DEF Store
<1>2. e.known = FALSE
  BY DEF NoEntry
<1> HIDE DEF e
<1>3. CASE k = poll[p].key
  <2>1. cache'[k] = e
    BY <1>1, <1>3 DEF TypeOK
  <2> QED
    BY <1>2, <1>3, <2>1 DEF Ages
<1>4. CASE k # poll[p].key
  <2>1. cache'[k] = cache[k]
    BY <1>1, <1>4 DEF TypeOK
  <2> QED
    BY <2>1, UntouchedAges
<1> QED
  BY <1>3, <1>4

LEMMA RememberedAges ==
    ASSUME TypeOK, NEW p \in Pollers, RememberRemote(p), NEW k \in Keys
    PROVE  Ages(k)
<1> DEFINE e == cache[k]
           full == Full(poll[p])
<1>1. cache' = [cache EXCEPT ![poll[p].key] = Remembering(@, full)]
  BY DEF RememberRemote
<1>2. e \in CacheEntry
  BY DEF TypeOK
<1> HIDE DEF full
<1>3. CASE k = poll[p].key
  <2>1. cache'[k] = Remembering(e, full)
    BY <1>1, <1>3 DEF TypeOK
  <2> HIDE DEF e
  <2>2. cache'[k].listed => ListKept(k)
    <3>1. CASE e.left > 0
      <4>1. cache'[k] = [[e EXCEPT !.known = TRUE] EXCEPT !.remote = full]
        BY <2>1, <3>1 DEF Remembering
      <4>2. /\ cache'[k].listed = e.listed /\ cache'[k].models = e.models
            /\ cache'[k].forces = e.forces /\ cache'[k].left = e.left
        BY <1>2, <4>1 DEF CacheEntry
      <4> QED
        BY <1>2, <4>2 DEF ListKept, CacheEntry, e
    <3>2. CASE ~(e.left > 0)
      <4>1. cache'[k] = [[[NoEntry EXCEPT !.left = CacheTTL] EXCEPT !.known = TRUE]
                            EXCEPT !.remote = full]
        BY <2>1, <3>2 DEF Remembering
      <4>2. cache'[k].listed = FALSE
        BY <4>1 DEF NoEntry
      <4> QED
        BY <4>2
    <3> QED
      BY <3>1, <3>2
  <2> QED
    BY <1>3, <2>2 DEF Ages
<1>4. CASE k # poll[p].key
  <2>1. cache'[k] = cache[k]
    BY <1>1, <1>4 DEF TypeOK
  <2> QED
    BY <2>1, UntouchedAges
<1> QED
  BY <1>3, <1>4

LEMMA TickAges ==
    ASSUME TypeOK, Tick, NEW k \in Keys
    PROVE  Ages(k)
<1> DEFINE e == cache[k]
<1>1. e \in CacheEntry /\ e.left \in Int
  BY DEF TypeOK, CacheEntry
<1>2. cache'[k] = IF e.left > 1 THEN [e EXCEPT !.left = e.left - 1] ELSE NoEntry
  BY DEF Tick
<1> HIDE DEF e
<1>3. CASE e.left > 1
  <2>1. /\ cache'[k].listed = e.listed /\ cache'[k].models = e.models
        /\ cache'[k].forces = e.forces /\ cache'[k].left = e.left - 1
        /\ cache'[k].known = e.known /\ cache'[k].remote = e.remote
    BY <1>1, <1>2, <1>3 DEF CacheEntry
  <2> QED
    BY <1>1, <2>1 DEF Ages, ListKept, PoolKept, e
<1>4. CASE ~(e.left > 1)
  <2>1. cache'[k].listed = FALSE /\ cache'[k].known = FALSE
    BY <1>2, <1>4 DEF NoEntry
  <2> QED
    BY <2>1 DEF Ages
<1> QED
  BY <1>3, <1>4

\* However often a list is served, and whatever else happens to the cache, a
\* list is never cached for longer than the poll that assembled it gave it: the
\* bare ids of an outdated configuration, too, are on their way out, whether or
\* not the host polls again.  The same goes for the pool of fallbacks.
THEOREM NothingProlongs == Spec => [][\A k \in Keys : Ages(k)]_vars
<1>1. ASSUME TypeOK, [Next]_vars
      PROVE  [\A k \in Keys : Ages(k)]_vars
  <2> SUFFICES ASSUME NEW k \in Keys, ~UNCHANGED vars
               PROVE  Ages(k)
    OBVIOUS
  <2>1. CASE UNCHANGED cache
    BY <1>1, <2>1, UntouchedAges
  <2>2. CASE ~UNCHANGED cache
    <3>1. ASSUME NEW p \in Pollers, PollStep(p)
          PROVE  Store(p) \/ RememberRemote(p)
      <4>1. CASE Lookup(p) \/ ReadMode(p) \/ ReadPolicy(p) \/ KeepAllowed(p)
        BY <2>2, <4>1 DEF Lookup, ReadMode, ReadPolicy, KeepAllowed, Assemble
      <4>2. CASE ReadPrefix(p) \/ AppendDeclared(p) \/ Answer(p)
        BY <2>2, <4>2 DEF ReadPrefix, AppendDeclared, Answer, Assemble
      <4>3. CASE \E answer \in Answers[p] : Fetch(p, answer) \/ FetchFails(p, answer)
        BY <2>2, <4>3 DEF Fetch, FetchFails
      <4> QED
        BY <3>1, <4>1, <4>2, <4>3 DEF PollStep
    <3>2. ASSUME NEW p \in Pollers, NEW l \in Keys, NEW forces \in BOOLEAN,
                 StartPoll(p, l, forces)
          PROVE  FALSE
      BY <2>2, <3>2 DEF StartPoll
    <3>3. ASSUME NEW n \in DOMAIN Configs, Reconfigure(n)
          PROVE  FALSE
      BY <2>2, <3>3 DEF Reconfigure
    <3>4. Next
      BY <1>1, <2>2 DEF vars
    <3>5. CASE \E p \in Pollers : PollStep(p)
      BY <1>1, <3>1, <3>5, StoredAges, RememberedAges
    <3>6. CASE Tick
      BY <1>1, <3>6, TickAges
    <3> QED
      BY <3>2, <3>3, <3>4, <3>5, <3>6 DEF Next
  <2> QED
    BY <2>1, <2>2
<1> QED
  BY <1>1, TypeCorrect, PTL DEF Spec
=============================================================================
