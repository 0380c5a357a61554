---------------------------- MODULE MCRankSystem ----------------------------
(***************************************************************************)
(* Five users, as a chain and as a chain that branches, with thresholds    *)
(* low enough for every rank to be reached.                                *)
(***************************************************************************)
EXTENDS RankSystem, TLC

MCChain == <<NoUser, 1, 2, 3, 4>>
MCBranch == <<NoUser, 1, 2, 2, 3>>
MCTrees == {MCChain, MCBranch}

Requires(v, s, m, g, l) ==
    ("verified_users" :> v) @@ ("active_subscribers" :> s) @@
    ("qualified_members" :> m) @@ ("qualified_guides" :> g) @@ ("qualified_leaders" :> l)

MCNeed ==
    ("member" :> Requires(1, 0, 0, 0, 0)) @@ ("guide" :> Requires(1, 0, 1, 0, 0)) @@
    ("leader" :> Requires(1, 1, 2, 1, 0)) @@ ("ranger" :> Requires(1, 1, 2, 1, 1))
=============================================================================
