------------------------------ MODULE Sorting ------------------------------
(***************************************************************************)
(* Sets of numbers in order: what the entries of a map, or keys of a       *)
(* store, are gone through by.                                             *)
(***************************************************************************)
EXTENDS Naturals, FiniteSets

\* The members of a set of numbers, the smallest one first
Sorted(S) == [i \in 1..Cardinality(S) |-> CHOOSE n \in S : Cardinality({m \in S : m <= n}) = i]
=============================================================================
