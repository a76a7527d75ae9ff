--------------------------- MODULE MCStateReplica ---------------------------
(***************************************************************************)
(* StateReplica on a small instance.                                       *)
(***************************************************************************)
EXTENDS StateReplica, TLC

CONSTANTS k1, k2, v1, v2, v3

Symmetry == Permutations(Value)
=============================================================================
