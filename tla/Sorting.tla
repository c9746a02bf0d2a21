------------------------------ MODULE Sorting -------------------------------
(***************************************************************************)
(* Sorting, by a definition that can be reasoned about: the library's      *)
(* SetToSortSeq rests on an operator of TLC that proofs cannot expand.     *)
(***************************************************************************)
EXTENDS Integers, FiniteSets

\* The elements of S in the order of Less, which is strict and total on S:
\* each stands where the number of those before it puts it.
SortedSet(S, Less(_, _)) ==
  [i \in 1..Cardinality(S) |->
     CHOOSE x \in S : Cardinality({y \in S : Less(y, x)}) = i - 1]

=============================================================================
