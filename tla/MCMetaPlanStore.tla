-------------------------- MODULE MCMetaPlanStore --------------------------
(* A small instance of MetaPlanStore for TLC. *)
EXTENDS MetaPlanStore, TLC

Symmetry == Permutations(Plans) \cup Permutations(Values) \cup Permutations(Workers)
=============================================================================
