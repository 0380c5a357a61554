----------------------------- MODULE MCSessions -----------------------------
(***************************************************************************)
(* Two request threads and three tokens: a login and one minted token.     *)
(***************************************************************************)
EXTENDS Sessions, TLC

CONSTANTS t1, t2

Symmetry == Permutations({t1, t2})
=============================================================================
