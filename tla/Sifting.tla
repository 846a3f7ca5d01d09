------------------------------ MODULE Sifting -------------------------------
(***************************************************************************)
(* Filters.  SelectSeq has no definition the provers can use; a fold that  *)
(* keeps the members of a set has one.                                     *)
(***************************************************************************)
EXTENDS Integers, Sequences, SequencesExt

Kept(K, out, x) == IF x \in K THEN Append(out, x) ELSE out

\* The elements of s that are in K, in their order.
Sift(s, K) == FoldLeft(LAMBDA out, x : Kept(K, out, x), <<>>, s)

\* The numbers of K from 1 up to n, in ascending order.
Places(K, n) == Sift([i \in 1..n |-> i], K)
=============================================================================
