---------------------------- MODULE MCCommission ----------------------------
(***************************************************************************)
(* Subscription orders of one buyer, whom another user referred.           *)
(***************************************************************************)
EXTENDS Commission, TLC

CONSTANTS u1, a1, o1, o2, x1, p1, p2, p3, q1, k1, k2, s1, s2

\* Two orders of a plan and one of an extra slot, paid once each.
MCBuyer == (o1 :> u1) @@ (o2 :> u1) @@ (x1 :> u1)
MCOrderOf == (p1 :> o1) @@ (p2 :> o2) @@ (q1 :> x1)

\* One order, with two attempts or one.
MCBuyer1 == o1 :> u1
MCOrderOf1 == (p1 :> o1) @@ (p3 :> o1)
MCOrderOf0 == p1 :> o1

MCReferrer == (u1 :> a1) @@ (a1 :> NoUser)

Symmetry == Permutations({k1, k2}) \cup Permutations({s1, s2})
=============================================================================
