----------------------------- MODULE FoldProofs -----------------------------
(***************************************************************************)
(* What a fold of a sequence computes, for every sequence and whatever is  *)
(* folded: instantiated with the operation in question, once for each.     *)
(*                                                                         *)
(* The induction theorems of the library take the predicate as an operator *)
(* and cannot be used by the installed provers; Induction below takes the  *)
(* set of the numbers that satisfy it, and does with WFMin.                *)
(***************************************************************************)
EXTENDS Integers, Sequences, SequencesExt, WellFoundedInduction, TLAPS

\* What is folded: Op(c, a, x) takes the accumulator a on by the element x; c
\* is whatever else it depends on.
CONSTANT Op(_, _, _)

Fold(c, base, s) == FoldLeft(LAMBDA a, x : Op(c, a, x), base, s)

\* Equations of the function FoldLeft takes the value of: it maps the set of
\* the places it has still to visit, the last of which is visited last.
Folds(f, c, base, s, n) ==
    f = [S \in SUBSET (1..n) |->
            IF S = {} THEN base ELSE Op(c, f[S \ {Max(S)}], s[Max(S)])]

\* A trace of a fold: what is accumulated after the first k elements.
Trace(A, c, base, s) ==
    /\ A[0] = base
    /\ \A k \in 1..Len(s) : A[k] = Op(c, A[k - 1], s[k])

LEMMA Induction ==
    ASSUME NEW S, 0 \in S, \A n \in Nat : n \in S => n + 1 \in S
    PROVE  Nat \subseteq S
<1> DEFINE T == Nat \ S
<1> SUFFICES ASSUME T # {}
             PROVE  FALSE
  OBVIOUS
<1>1. PICK x \in T : \A y \in T : ~ (<<y, x>> \in OpToRel(<, Nat))
  <2>1. T \subseteq Nat
    OBVIOUS
  <2> HIDE DEF T
  <2> QED
    BY <2>1, WFMin, NatLessThanWellFounded
<1>2. x \in Nat /\ x - 1 \in Nat /\ x - 1 \notin S
  OBVIOUS
<1>3. <<x - 1, x>> \in OpToRel(<, Nat)
  BY <1>2 DEF OpToRel
<1> QED
  BY <1>1, <1>2, <1>3

LEMMA MaxUpTo ==
    ASSUME NEW n \in Nat
    PROVE  \A S \in SUBSET (1..(n + 1)) : n + 1 \in S => Max(S) = n + 1
<1> TAKE S \in SUBSET (1..(n + 1))
<1> HAVE n + 1 \in S
<1>1. \A y \in S : n + 1 >= y
  OBVIOUS
<1>2. Max(S) \in S /\ \A y \in S : Max(S) >= y
  BY <1>1 DEF Max
<1>3. Max(S) >= n + 1 /\ Max(S) \in 1..(n + 1)
  BY <1>2
<1> QED
  BY <1>3

\* Every nonempty set of places has a last one.
LEMMA LastPlace ==
    ASSUME NEW n \in Nat, NEW S \in SUBSET (1..n), S # {}
    PROVE  Max(S) \in S /\ \A x \in S : x <= Max(S)
<1> DEFINE P == {m \in Nat : \A R \in SUBSET (1..m) :
                      R # {} => \E x \in R : \A y \in R : x >= y}
<1>1. 0 \in P
  <2>1. \A R \in SUBSET (1..0) : R = {}
    OBVIOUS
  <2> QED
    BY <2>1
<1>2. ASSUME NEW m \in Nat, m \in P
      PROVE  m + 1 \in P
  <2> SUFFICES ASSUME NEW R \in SUBSET (1..(m + 1)), R # {}
               PROVE  \E x \in R : \A y \in R : x >= y
    OBVIOUS
  <2>1. CASE m + 1 \in R
    BY <2>1
  <2>2. CASE m + 1 \notin R
    <3>1. R \in SUBSET (1..m)
      BY <2>2
    <3> QED
      BY <1>2, <3>1
  <2> QED
    BY <2>1, <2>2
<1>3. n \in P
  <2> HIDE DEF P
  <2> QED
    BY <1>1, <1>2, Induction
<1>4. \E x \in S : \A y \in S : x >= y
  BY <1>3
<1> QED
  BY <1>4 DEF Max

\* The equations have a solution.
LEMMA FoldsExist ==
    ASSUME NEW c, NEW base, NEW s, NEW n \in Nat
    PROVE  \E f : Folds(f, c, base, s, n)
<1> DEFINE P == {m \in Nat : \E f : Folds(f, c, base, s, m)}
<1>1. 0 \in P
  <2>1. Folds([S \in SUBSET (1..0) |-> base], c, base, s, 0)
    BY DEF Folds
  <2> QED
    BY <2>1
<1>2. ASSUME NEW m \in Nat, m \in P
      PROVE  m + 1 \in P
  <2>1. PICK f : Folds(f, c, base, s, m)
    BY <1>2
  <2> DEFINE g == [S \in SUBSET (1..(m + 1)) |->
                      IF m + 1 \in S THEN Op(c, f[S \ {m + 1}], s[m + 1]) ELSE f[S]]
  <2>2. ASSUME NEW S \in SUBSET (1..(m + 1))
        PROVE  g[S] = IF S = {} THEN base ELSE Op(c, g[S \ {Max(S)}], s[Max(S)])
    <3>1. CASE m + 1 \in S
      <4>1. Max(S) = m + 1 /\ S # {}
        BY <3>1, MaxUpTo
      <4>2. S \ {m + 1} \in SUBSET (1..(m + 1)) /\ m + 1 \notin S \ {m + 1}
        OBVIOUS
      <4>3. g[S \ {m + 1}] = f[S \ {m + 1}]
        BY <4>2
      <4> QED
        BY <3>1, <4>1, <4>3
    <3>2. CASE m + 1 \notin S
      <4>1. S \in SUBSET (1..m)
        BY <3>2
      <4>2. g[S] = f[S]
        BY <3>2
      <4>3. f[S] = IF S = {} THEN base ELSE Op(c, f[S \ {Max(S)}], s[Max(S)])
        BY <2>1, <4>1 DEF Folds
      <4>4. S \ {Max(S)} \in SUBSET (1..(m + 1)) /\ m + 1 \notin S \ {Max(S)}
        BY <3>2
      <4>5. g[S \ {Max(S)}] = f[S \ {Max(S)}]
        BY <4>4
      <4> QED
        BY <4>2, <4>3, <4>5
    <3> QED
      BY <3>1, <3>2
  <2>3. Folds(g, c, base, s, m + 1)
    <3>1. g = [S \in SUBSET (1..(m + 1)) |-> g[S]]
      OBVIOUS
    <3> HIDE DEF g
    <3> QED
      BY <2>2, <3>1 DEF Folds
  <2> HIDE DEF g
  <2> QED
    BY <2>3
<1> HIDE DEF P
<1>3. n \in P
  BY <1>1, <1>2, Induction
<1> QED
  BY <1>3 DEF P

LEMMA FoldIsLast ==
    ASSUME NEW c, NEW base, NEW S, NEW s \in Seq(S)
    PROVE  \E f : Folds(f, c, base, s, Len(s)) /\ Fold(c, base, s) = f[1..Len(s)]
<1>1. DOMAIN s = 1..Len(s) /\ Len(s) \in Nat
  OBVIOUS
<1> DEFINE f == CHOOSE f : Folds(f, c, base, s, Len(s))
<1>2. Folds(f, c, base, s, Len(s))
  BY <1>1, FoldsExist
<1>3. Fold(c, base, s) = f[1..Len(s)]
  BY <1>1 DEF Fold, FoldLeft, MapThenFoldSet, Folds
<1> QED
  BY <1>2, <1>3

\* A fold is the end of a trace ...
LEMMA FoldHasTrace ==
    ASSUME NEW c, NEW base, NEW S, NEW s \in Seq(S)
    PROVE  \E A : Trace(A, c, base, s) /\ Fold(c, base, s) = A[Len(s)]
<1>0. Len(s) \in Nat
  OBVIOUS
<1>1. PICK f : Folds(f, c, base, s, Len(s)) /\ Fold(c, base, s) = f[1..Len(s)]
  BY FoldIsLast
<1> DEFINE A == [k \in 0..Len(s) |-> f[1..k]]
<1>2. A[0] = base
  <2>1. {} \in SUBSET (1..Len(s)) /\ 1..0 = {}
    OBVIOUS
  <2>2. f[{}] = base
    BY <1>1, <2>1 DEF Folds
  <2> QED
    BY <1>0, <2>1, <2>2
<1>3. ASSUME NEW k \in 1..Len(s)
      PROVE  A[k] = Op(c, A[k - 1], s[k])
  <2>1. k - 1 \in Nat /\ k = (k - 1) + 1 /\ k \in 1..k /\ 1..k \in SUBSET (1..k)
    BY <1>0
  <2>2. Max(1..k) = k
    BY <2>1, MaxUpTo
  <2>3. (1..k) \ {k} = 1..(k - 1)
    <3>1. \A x : x \in 1..k /\ x # k <=> x \in 1..(k - 1)
      BY <2>1
    <3> QED
      BY <3>1
  <2>4. 1..k # {} /\ 1..k \in SUBSET (1..Len(s))
    <3>1. \A x \in 1..k : x \in 1..Len(s)
      BY <1>0, <2>1
    <3>2. 1..k # {}
      BY <2>1
    <3> QED
      BY <3>1, <3>2
  <2>5. f[1..k] = Op(c, f[1..(k - 1)], s[k])
    BY <1>1, <2>2, <2>3, <2>4 DEF Folds
  <2> QED
    BY <1>0, <2>5
<1>4. A[Len(s)] = f[1..Len(s)]
  BY <1>0
<1> HIDE DEF A
<1> QED
  BY <1>1, <1>2, <1>3, <1>4 DEF Trace

\* ... and all traces end alike.
LEMMA TracesAgree ==
    ASSUME NEW c, NEW base, NEW s, Len(s) \in Nat, NEW A, NEW B,
           Trace(A, c, base, s), Trace(B, c, base, s)
    PROVE  \A k \in 0..Len(s) : A[k] = B[k]
<1> DEFINE P == {k \in Nat : k \in 0..Len(s) => A[k] = B[k]}
<1>1. 0 \in P
  BY DEF Trace
<1>2. ASSUME NEW k \in Nat, k \in P
      PROVE  k + 1 \in P
  <2> SUFFICES ASSUME k + 1 \in 0..Len(s)
               PROVE  A[k + 1] = B[k + 1]
    OBVIOUS
  <2>1. k + 1 \in 1..Len(s) /\ (k + 1) - 1 = k /\ A[k] = B[k]
    BY <1>2
  <2> QED
    BY <2>1 DEF Trace
<1> HIDE DEF P
<1>3. Nat \subseteq P
  BY <1>1, <1>2, Induction
<1> QED
  BY <1>3 DEF P

LEMMA FoldOfTrace ==
    ASSUME NEW c, NEW base, NEW S, NEW s \in Seq(S), NEW A, Trace(A, c, base, s)
    PROVE  Fold(c, base, s) = A[Len(s)]
<1>1. Len(s) \in Nat /\ Len(s) \in 0..Len(s)
  OBVIOUS
<1>2. PICK B : Trace(B, c, base, s) /\ Fold(c, base, s) = B[Len(s)]
  BY FoldHasTrace
<1>3. \A k \in 0..Len(s) : A[k] = B[k]
  BY <1>1, <1>2, TracesAgree
<1> QED
  BY <1>1, <1>2, <1>3

-----------------------------------------------------------------------------
(***************************************************************************)
(* What the proofs about the model cite.                                   *)
(***************************************************************************)

\* Nothing is made of nothing.
THEOREM FoldEmpty ==
    ASSUME NEW c, NEW base
    PROVE  Fold(c, base, <<>>) = base
<1>1. <<>> \in Seq({}) /\ Len(<<>>) = 0
  OBVIOUS
<1>2. PICK A : Trace(A, c, base, <<>>) /\ Fold(c, base, <<>>) = A[Len(<<>>)]
  BY <1>1, FoldHasTrace
<1> QED
  BY <1>1, <1>2 DEF Trace

\* One more element is one more step.
THEOREM FoldAppend ==
    ASSUME NEW c, NEW base, NEW S, NEW s \in Seq(S), NEW e \in S
    PROVE  Fold(c, base, Append(s, e)) = Op(c, Fold(c, base, s), e)
<1> DEFINE t == Append(s, e)
<1>1. /\ t \in Seq(S) /\ Len(s) \in Nat /\ Len(t) = Len(s) + 1 /\ t[Len(t)] = e
      /\ \A k \in 1..Len(s) : t[k] = s[k]
  OBVIOUS
<1> HIDE DEF t
<1>2. PICK A : Trace(A, c, base, t) /\ Fold(c, base, t) = A[Len(t)]
  BY <1>1, FoldHasTrace
<1>3. Trace(A, c, base, s)
  BY <1>1, <1>2 DEF Trace
<1>4. Fold(c, base, s) = A[Len(s)]
  BY <1>3, FoldOfTrace
<1>5. A[Len(t)] = Op(c, A[Len(t) - 1], t[Len(t)])
  BY <1>1, <1>2 DEF Trace
<1> QED
  BY <1>1, <1>2, <1>4, <1>5 DEF t

\* What the base satisfies, and each step preserves, holds of the result: R is
\* what may have been accumulated after so many elements.
THEOREM FoldInvariant ==
    ASSUME NEW c, NEW base, NEW S, NEW s \in Seq(S), NEW R,
           <<0, base>> \in R,
           \A k \in 1..Len(s) : \A a : <<k - 1, a>> \in R => <<k, Op(c, a, s[k])>> \in R
    PROVE  <<Len(s), Fold(c, base, s)>> \in R
<1>0. Len(s) \in Nat
  OBVIOUS
<1>1. PICK A : Trace(A, c, base, s) /\ Fold(c, base, s) = A[Len(s)]
  BY FoldHasTrace
<1> DEFINE P == {k \in Nat : k \in 0..Len(s) => <<k, A[k]>> \in R}
<1>2. 0 \in P
  BY <1>1 DEF Trace
<1>3. ASSUME NEW k \in Nat, k \in P
      PROVE  k + 1 \in P
  <2> SUFFICES ASSUME k + 1 \in 0..Len(s)
               PROVE  <<k + 1, A[k + 1]>> \in R
    OBVIOUS
  <2>1. k + 1 \in 1..Len(s) /\ (k + 1) - 1 = k /\ <<k, A[k]>> \in R
    BY <1>0, <1>3
  <2>2. A[k + 1] = Op(c, A[k], s[k + 1])
    BY <1>1, <2>1 DEF Trace
  <2> QED
    BY <2>1, <2>2
<1> HIDE DEF P
<1>4. Nat \subseteq P
  BY <1>2, <1>3, Induction
<1>5. <<Len(s), A[Len(s)]>> \in R
  BY <1>0, <1>4 DEF P
<1> QED
  BY <1>1, <1>5

\* What an operation does not look at does not change what is made of it.
THEOREM FoldCongruence ==
    ASSUME NEW c, NEW d, NEW base, NEW S, NEW s \in Seq(S),
           \A k \in 1..Len(s) : \A a : Op(c, a, s[k]) = Op(d, a, s[k])
    PROVE  Fold(c, base, s) = Fold(d, base, s)
<1>1. PICK A : Trace(A, c, base, s) /\ Fold(c, base, s) = A[Len(s)]
  BY FoldHasTrace
<1>2. Trace(A, d, base, s)
  BY <1>1 DEF Trace
<1> QED
  BY <1>1, <1>2, FoldOfTrace

\* To go through a concatenation is to go through one part after the other.
THEOREM FoldConcat ==
    ASSUME NEW c, NEW base, NEW S, NEW s \in Seq(S), NEW t \in Seq(S)
    PROVE  Fold(c, base, s \o t) = Fold(c, Fold(c, base, s), t)
<1> DEFINE u == s \o t
<1>1. /\ u \in Seq(S) /\ Len(u) = Len(s) + Len(t) /\ Len(s) \in Nat /\ Len(t) \in Nat
      /\ \A k \in 1..Len(s) : u[k] = s[k]
      /\ \A k \in 1..Len(t) : u[Len(s) + k] = t[k]
  OBVIOUS
<1> HIDE DEF u
<1>2. PICK A : Trace(A, c, base, u) /\ Fold(c, base, u) = A[Len(u)]
  BY <1>1, FoldHasTrace
<1>3. Trace(A, c, base, s)
  BY <1>1, <1>2 DEF Trace
<1>4. Fold(c, base, s) = A[Len(s)]
  BY <1>3, FoldOfTrace
<1> DEFINE B == [k \in 0..Len(t) |-> A[Len(s) + k]]
<1>5. Trace(B, c, Fold(c, base, s), t)
  <2>1. B[0] = Fold(c, base, s)
    BY <1>1, <1>4
  <2>2. ASSUME NEW k \in 1..Len(t)
        PROVE  B[k] = Op(c, B[k - 1], t[k])
    <3>1. /\ Len(s) + k \in 1..Len(u) /\ (Len(s) + k) - 1 = Len(s) + (k - 1)
          /\ k \in 0..Len(t) /\ k - 1 \in 0..Len(t)
      BY <1>1
    <3>2. A[Len(s) + k] = Op(c, A[Len(s) + (k - 1)], t[k])
      BY <1>1, <1>2, <3>1 DEF Trace
    <3> QED
      BY <3>1, <3>2
  <2> HIDE DEF B
  <2> QED
    BY <2>1, <2>2 DEF Trace
<1>6. B[Len(t)] = A[Len(u)]
  BY <1>1
<1> HIDE DEF B
<1>7. Fold(c, Fold(c, base, s), t) = B[Len(t)]
  BY <1>5, FoldOfTrace
<1> QED
  BY <1>2, <1>6, <1>7 DEF u

(***************************************************************************)
(* An operation that appends the elements of K and passes over the others. *)
(***************************************************************************)
Sieves(c, S, K) ==
    \A a \in Seq(S), x \in S : Op(c, a, x) = IF x \in K THEN Append(a, x) ELSE a

\* The result has the elements of K, each at a place of its own, in their order.
THEOREM FoldSieves ==
    ASSUME NEW c, NEW S, NEW K, Sieves(c, S, K), NEW s \in Seq(S)
    PROVE  LET r == Fold(c, <<>>, s)
           IN  /\ r \in Seq(S)
               /\ \A x : (\E i \in 1..Len(r) : r[i] = x)
                           <=> x \in K /\ \E i \in 1..Len(s) : s[i] = x
               /\ \E at \in [1..Len(r) -> 1..Len(s)] :
                     /\ \A i \in 1..Len(r) : r[i] = s[at[i]]
                     /\ \A i, j \in 1..Len(r) : i < j => at[i] < at[j]
<1> DEFINE Good(n, a) ==
        /\ \A x : (\E i \in 1..Len(a) : a[i] = x) <=> x \in K /\ \E i \in 1..n : s[i] = x
        /\ \E at \in [1..Len(a) -> 1..n] :
              /\ \A i \in 1..Len(a) : a[i] = s[at[i]]
              /\ \A i, j \in 1..Len(a) : i < j => at[i] < at[j]
           R == {x \in Nat \X Seq(S) : Good(x[1], x[2])}
<1>0. Len(s) \in Nat
  OBVIOUS
<1>a. \A n \in Nat, a \in Seq(S) : <<n, a>> \in R <=> Good(n, a)
  <2> HIDE DEF Good
  <2> QED
    OBVIOUS
<1>b. \A n, a : <<n, a>> \in R => n \in Nat /\ a \in Seq(S)
  <2> HIDE DEF Good
  <2> QED
    OBVIOUS
<1>1. <<0, <<>>>> \in R
  <2>1. <<>> \in Seq(S) /\ Len(<<>>) = 0
    OBVIOUS
  <2>2. Good(0, <<>>)
    <3> DEFINE at == [i \in 1..0 |-> i]
    <3>1. 1..0 = {} /\ 1..Len(<<>>) = {}
      BY <2>1
    <3>2. at \in [1..Len(<<>>) -> 1..0]
      BY <3>1
    <3> HIDE DEF at
    <3> QED
      BY <3>1, <3>2
  <2> HIDE DEF Good, R
  <2> QED
    BY <2>1, <2>2, <1>a
<1>2. ASSUME NEW k \in 1..Len(s), NEW a, <<k - 1, a>> \in R
      PROVE  <<k, Op(c, a, s[k])>> \in R
  <2>1. a \in Seq(S) /\ Good(k - 1, a) /\ s[k] \in S /\ Len(a) \in Nat /\ k \in Nat
    <3> HIDE DEF Good, R
    <3> QED
      BY <1>0, <1>a, <1>b, <1>2
  <2>2. \A x : (\E i \in 1..k : s[i] = x) <=> s[k] = x \/ \E i \in 1..(k - 1) : s[i] = x
    BY <2>1
  <2>3. CASE s[k] \in K
    <3> DEFINE b == Append(a, s[k])
    <3>1. /\ b \in Seq(S) /\ Len(b) = Len(a) + 1 /\ b[Len(b)] = s[k]
          /\ \A i \in 1..Len(a) : b[i] = a[i]
      BY <2>1
    <3>2. Op(c, a, s[k]) = b
      BY <2>1, <2>3 DEF Sieves
    <3> HIDE DEF b
    <3>3. \A x : (\E i \in 1..Len(b) : b[i] = x)
                   <=> s[k] = x \/ \E i \in 1..Len(a) : a[i] = x
      BY <2>1, <3>1
    <3>4. PICK at \in [1..Len(a) -> 1..(k - 1)] :
              /\ \A i \in 1..Len(a) : a[i] = s[at[i]]
              /\ \A i, j \in 1..Len(a) : i < j => at[i] < at[j]
      BY <2>1
    <3> DEFINE now == [i \in 1..Len(b) |-> IF i = Len(b) THEN k ELSE at[i]]
    <3>5. now \in [1..Len(b) -> 1..k]
      BY <2>1, <3>1, <3>4
    <3>6. \A i \in 1..Len(b) : b[i] = s[now[i]]
      BY <2>1, <3>1, <3>4
    <3>7. \A i, j \in 1..Len(b) : i < j => now[i] < now[j]
      BY <2>1, <3>1, <3>4
    <3> HIDE DEF now
    <3>8. \A x : (\E i \in 1..Len(b) : b[i] = x) <=> x \in K /\ \E i \in 1..k : s[i] = x
      BY <2>1, <2>2, <2>3, <3>3
    <3>9. Good(k, b)
      BY <3>5, <3>6, <3>7, <3>8
    <3> HIDE DEF Good
    <3> QED
      BY <2>1, <3>1, <3>2, <3>9
  <2>4. CASE s[k] \notin K
    <3>1. Op(c, a, s[k]) = a
      BY <2>1, <2>4 DEF Sieves
    <3>2. \A x : (\E i \in 1..Len(a) : a[i] = x) <=> x \in K /\ \E i \in 1..k : s[i] = x
      BY <2>1, <2>2, <2>4
    <3>3. PICK at \in [1..Len(a) -> 1..(k - 1)] :
              /\ \A i \in 1..Len(a) : a[i] = s[at[i]]
              /\ \A i, j \in 1..Len(a) : i < j => at[i] < at[j]
      BY <2>1
    <3>4. at \in [1..Len(a) -> 1..k]
      BY <2>1
    <3>5. Good(k, a)
      BY <3>2, <3>3, <3>4
    <3> HIDE DEF Good
    <3> QED
      BY <2>1, <3>1, <3>5
  <2> QED
    BY <2>3, <2>4
<1> HIDE DEF R
<1>3. <<Len(s), Fold(c, <<>>, s)>> \in R
  BY <1>1, <1>2, FoldInvariant
<1> QED
  BY <1>3 DEF R
=============================================================================
