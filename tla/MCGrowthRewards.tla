-------------------------- MODULE MCGrowthRewards --------------------------
(***************************************************************************)
(* Small instances of GrowthRewards.                                       *)
(***************************************************************************)
EXTENDS GrowthRewards, TLC

CONSTANTS u1, u2, e1, e2

Symmetry == Permutations({u1, u2}) \cup Permutations({e1, e2})
=============================================================================
