------------------------------ MODULE MCLogin ------------------------------
(***************************************************************************)
(* Two request threads of one number, one referrer, two codes, and a limit *)
(* of two attempts instead of three.                                       *)
(***************************************************************************)
EXTENDS Login, TLC

CONSTANTS t1, t2, a1

Symmetry == Permutations({t1, t2})
=============================================================================
