------------------------------ MODULE Ordering ------------------------------
(***************************************************************************)
(* Rows in the order of a sort.  An element stands at the place that the   *)
(* number of elements before it gives.                                     *)
(***************************************************************************)
EXTENDS Integers, FiniteSets

\* The elements of S by a strict total order, a set of pairs.
Sorted(S, before) ==
    [n \in 1..Cardinality(S) |->
        CHOOSE e \in S : Cardinality({d \in S : <<d, e>> \in before}) = n - 1]

=============================================================================
