----------------------------- MODULE MCListings -----------------------------
(***************************************************************************)
(* Two users, two listings, two requests at a time.                        *)
(***************************************************************************)
EXTENDS Listings, TLC

CONSTANTS u1, u2, l1, l2, t1, t2

Symmetry == Permutations({u1, u2}) \cup Permutations({l1, l2}) \cup Permutations({t1, t2})
=============================================================================
