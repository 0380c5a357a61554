----------------------------- MODULE MCPosShop -----------------------------
(***************************************************************************)
(* Two request threads at a shop with two products.                        *)
(***************************************************************************)
EXTENDS PosShop

CONSTANTS t1, t2, p1, p2
=============================================================================
