---------------------------- MODULE MCPosBilling ----------------------------
(***************************************************************************)
(* One owner with three orders, one of them with two payment attempts.     *)
(***************************************************************************)
EXTENDS PosBilling, TLC

CONSTANTS u1, o1, o2, o3, p1, p2, p3, p4

MCOwnerOf == (o1 :> u1) @@ (o2 :> u1) @@ (o3 :> u1)
MCPlanOf == (o1 :> "growth") @@ (o2 :> "growth") @@ (o3 :> "starter")
MCOrderOf == (p1 :> o1) @@ (p2 :> o2) @@ (p3 :> o3) @@ (p4 :> o3)
=============================================================================
