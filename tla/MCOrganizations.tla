-------------------------- MODULE MCOrganizations --------------------------
(***************************************************************************)
(* Two owners, or one with two organizations, who invite each other and    *)
(* themselves; two requests at a time.                                     *)
(***************************************************************************)
EXTENDS Organizations, TLC

CONSTANTS u1, u2, t1, t2

Symmetry == Permutations({u1, u2}) \cup Permutations({t1, t2})
=============================================================================
