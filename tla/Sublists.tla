------------------------------ MODULE Sublists ------------------------------
(***************************************************************************)
(* Array.prototype.filter, as the SDK and the widget use it: a definition  *)
(* by positions, which the provers can reason about.                       *)
(***************************************************************************)
EXTENDS Naturals, Sequences, FiniteSets

\* The elements of s at the positions in keep, in their order.
Kept(s, keep) ==
    [i \in 1..Cardinality(keep) |->
        s[CHOOSE j \in keep : Cardinality({k \in keep : k < j}) = i - 1]]
=============================================================================
