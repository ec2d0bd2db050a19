------------------------------- MODULE Ordered -------------------------------
(***************************************************************************)
(* The elements of a finite set in an order. SetToSortSeq of the community *)
(* modules does this too, but rests on an operator of TLC without a        *)
(* definition a proof could use; this one counts, for each element, the    *)
(* elements before it.                                                     *)
(***************************************************************************)
EXTENDS Integers, FiniteSets

\* The elements of S, the first one first. R, a set of pairs, is a strict total order on S.
Arranged(S, R) ==
  [n \in 1 .. Cardinality(S) |->
     CHOOSE x \in S : Cardinality({y \in S : <<y, x>> \in R}) = n - 1]

\* A finite set of numbers, the smallest first.
Ascending(S) == Arranged(S, {ab \in S \X S : ab[1] < ab[2]})
=============================================================================
