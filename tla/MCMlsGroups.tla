---------------------------- MODULE MCMlsGroups ----------------------------
(* MlsGroups for TLC: one device, its calls interchangeable. *)
EXTENDS MlsGroups, TLC

Symmetry == Permutations(Ops) \cup Permutations(Rooms)
=============================================================================
