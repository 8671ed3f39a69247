------------------------------- MODULE Places --------------------------------
(***************************************************************************)
(* Places in a list, in their order.                                       *)
(***************************************************************************)
EXTENDS Naturals, Sequences, FiniteSets

\* A set of places, as the sequence a loop over the list comes by.
InOrder(S) ==
  [n \in 1 .. Cardinality(S) |-> CHOOSE k \in S : Cardinality({j \in S : j < k}) = n - 1]
=============================================================================
