----------------------------- MODULE Positions ------------------------------
(* Numbered operations, listed in the order of their numbers.              *)
EXTENDS Integers, FiniteSets

\* The members of the finite set V of numbers, from the least to the greatest.
Ascending(V) ==
    [i \in 1 .. Cardinality(V) |-> CHOOSE s \in V : Cardinality({r \in V : r < s}) = i - 1]
=============================================================================
