----------------------------- MODULE RankSystem -----------------------------
(***************************************************************************)
(* services/rank_service.py, recompute_all_ranks: the rank of a user       *)
(* depends on the ranks of everybody below, so the ranks of all users are  *)
(* iterated from "unranked" until a pass changes nothing, and then written *)
(* with a badge for every promotion.                                       *)
(*                                                                         *)
(* A recomputation reads the users once, so what happens to them while it  *)
(* runs counts for the next one: accounts change between recomputations.   *)
(* Overlapping recomputations are ruled out by the docstring and left out. *)
(***************************************************************************)
EXTENDS RankConfig, FiniteSets

CONSTANTS
    NoUser,         \* referred_by of a user nobody referred
    Trees,          \* the referral trees to try, each a [Users -> Users \cup {NoUser}]
    MaxDepth,       \* MAX_DOWNLINE_DEPTH
    Need,           \* RANK_REQUIREMENTS, a missing key being 0
    MaxRuns         \* bound: recomputations in a behaviour

VARIABLES
    parent,         \* [Users -> Users \cup {NoUser}], users.referred_by, never changed
    account,        \* [Users -> Accounts], what users says of each account
    pc,             \* "idle", or "iterating" inside a recomputation
    team,           \* [Users -> SUBSET Users], the pairs read at the beginning
    rankOf,         \* [Users -> rank], the in-memory ranks of the last pass
    passes,         \* passes made
    stats,          \* [Users -> rank], user_rank_stats
    badges,         \* rank_achievements, as pairs of a user and the rank reached
    runs            \* recomputations started

vars == <<parent, account, pc, team, rankOf, passes, stats, badges, runs>>

AtLeast(r) == {s \in Ranks : RankIndex(s) >= RankIndex(r)}

Metrics == {"verified_users", "active_subscribers",
            "qualified_members", "qualified_guides", "qualified_leaders"}

\* The accounts: banned or deactivated, valid, valid with a paid plan.
Accounts == {"invalid", "valid", "subscribed"}

\* RANK_REQUIREMENTS asks more of a higher rank, and a team only from guides up.
\* The depth (50 in the code) leaves a pass for each of the four tiers.
ASSUME RankAssumption ==
    /\ NoUser \notin Users
    /\ IsFiniteSet(Users)
    /\ Trees \subseteq [Users -> Users \cup {NoUser}]
    /\ MaxDepth \in Nat /\ MaxDepth >= 4
    /\ MaxRuns \in Nat
    /\ Need \in [QualifyingRanks -> [Metrics -> Nat]]
    /\ \A r, s \in QualifyingRanks : RankIndex(r) <= RankIndex(s) =>
          \A m \in Metrics : Need[r][m] <= Need[s][m]
    /\ \A m \in {"qualified_members", "qualified_guides", "qualified_leaders"} :
          Need["member"][m] = 0
    /\ \A m \in {"qualified_guides", "qualified_leaders"} : Need["guide"][m] = 0
    /\ Need["leader"]["qualified_leaders"] = 0

Init ==
    /\ parent \in Trees
    /\ account \in [Users -> Accounts]
    /\ pc = "idle"
    /\ team = [u \in Users |-> {}]
    /\ rankOf = [u \in Users |-> "unranked"]
    /\ passes = 0
    /\ stats = [u \in Users |-> "unranked"]
    /\ badges = {}
    /\ runs = 0

-----------------------------------------------------------------------------
(* The recomputation.                                                      *)

Valid(u) == account[u] # "invalid"

\* _DOWNLINE_CTE: the users at each depth below u, down to MaxDepth.
Generations(u) ==
    LET level[n \in 0..MaxDepth] ==
            IF n = 0 THEN {u}
            ELSE UNION {{d \in Users : parent[d] = a} : a \in level[n - 1]}
    IN level

Downline(u) == UNION {Generations(u)[n] : n \in 1..MaxDepth}

\* Slip: each tier is counted on its own.
TeamCount_Exact(u, r) == Cardinality({d \in team[u] : Valid(d) /\ rankOf[d] = r})

\* _team_counts_for: cumulative, at or above the tier.
TeamCount(u, r) == Cardinality({d \in team[u] : Valid(d) /\ rankOf[d] \in AtLeast(r)})

Direct(u) == {d \in Users : parent[d] = u /\ Valid(d)}

Metric(u, m) ==
    CASE m = "verified_users" -> Cardinality(Direct(u))
      [] m = "active_subscribers" -> Cardinality({d \in Direct(u) : account[d] = "subscribed"})
      [] m = "qualified_members" -> TeamCount(u, "member")
      [] m = "qualified_guides" -> TeamCount(u, "guide")
      [] m = "qualified_leaders" -> TeamCount(u, "leader")

Qualifies(u, r) == r = "unranked" \/ \A m \in Metrics : Metric(u, m) >= Need[r][m]

\* highest_qualifying_rank; an invalid account has no rank.
NextRank(u) ==
    IF Valid(u)
    THEN CHOOSE r \in Ranks : Qualifies(u, r) /\ \A s \in Ranks : Qualifies(u, s) => r \in AtLeast(s)
    ELSE "unranked"

NextRanks == [u \in Users |-> NextRank(u)]

\* Slip: the iteration starts from the ranks of the last recomputation.
Begin_FromStats ==
    /\ pc = "idle"
    /\ runs < MaxRuns
    /\ pc' = "iterating"
    /\ team' = [u \in Users |-> Downline(u)]
    /\ rankOf' = stats
    /\ passes' = 0
    /\ runs' = runs + 1
    /\ UNCHANGED <<parent, account, stats, badges>>

Begin ==
    /\ pc = "idle"
    /\ runs < MaxRuns
    /\ pc' = "iterating"
    /\ team' = [u \in Users |-> Downline(u)]
    /\ rankOf' = [u \in Users |-> "unranked"]
    /\ passes' = 0
    /\ runs' = runs + 1
    /\ UNCHANGED <<parent, account, stats, badges>>

\* Slip: a pass ends at the first rank that changes.
Pass_FirstChange ==
    /\ pc = "iterating"
    /\ passes <= MaxDepth
    /\ \E u \in Users :
          /\ NextRank(u) # rankOf[u]
          /\ rankOf' = [rankOf EXCEPT ![u] = NextRank(u)]
    /\ passes' = passes + 1
    /\ UNCHANGED <<parent, account, pc, team, stats, badges, runs>>

\* A pass that changes a rank.
Pass ==
    /\ pc = "iterating"
    /\ passes <= MaxDepth
    /\ NextRanks # rankOf
    /\ rankOf' = NextRanks
    /\ passes' = passes + 1
    /\ UNCHANGED <<parent, account, pc, team, stats, badges, runs>>

\* Slip: no badge for a user who had no row in user_rank_stats yet.
Promoted_OldRow(u) ==
    stats[u] # "unranked" /\ RankIndex(rankOf[u]) > RankIndex(stats[u])

Promoted(u) == RankIndex(rankOf[u]) > RankIndex(stats[u])

\* A pass that changes nothing, or no pass left; the writes, COMMIT.
Save ==
    /\ pc = "iterating"
    /\ NextRanks = rankOf \/ passes > MaxDepth
    /\ stats' = rankOf
    /\ badges' = badges \cup {<<u, rankOf[u]>> : u \in {v \in Users : Promoted(v)}}
    /\ pc' = "idle"
    /\ UNCHANGED <<parent, account, team, rankOf, passes, runs>>

\* An error: ROLLBACK, nothing is written.
Fail ==
    /\ pc = "iterating"
    /\ pc' = "idle"
    /\ UNCHANGED <<parent, account, team, rankOf, passes, stats, badges, runs>>

\* Purchases, expiries and bans since the last recomputation.
AccountsChange ==
    /\ pc = "idle"
    /\ 0 < runs /\ runs < MaxRuns
    /\ account' \in [Users -> Accounts]
    /\ UNCHANGED <<parent, pc, team, rankOf, passes, stats, badges, runs>>

Next == Begin \/ Pass \/ Save \/ Fail \/ AccountsChange

Spec == Init /\ [][Next]_vars

-----------------------------------------------------------------------------
(* Properties *)

RankTypeOK ==
    /\ parent \in Trees
    /\ account \in [Users -> Accounts]
    /\ pc \in {"idle", "iterating"}
    /\ team \in [Users -> SUBSET Users]
    /\ rankOf \in [Users -> Ranks]
    /\ passes \in Nat
    /\ stats \in [Users -> Ranks]
    /\ badges \subseteq Users \X Ranks
    /\ runs \in 0..MaxRuns

\* A team is everybody referred by a user and everybody in their teams, however
\* deep the tree is (below the depth at which the query stops).
TeamIsWhole ==
    pc = "iterating" => \A u \in Users :
        team[u] = UNION {{c} \cup team[c] : c \in {d \in Users : parent[d] = u}}

\* The ranks without an iteration, tier by tier: members by their own
\* referrals, guides by the members below them, and so on.
Own(r) ==
    {u \in Users : Valid(u) /\ \A m \in {"verified_users", "active_subscribers"} :
                                  Metric(u, m) >= Need[r][m]}
Below(u, tier) == Cardinality(team[u] \cap tier)
Members == Own("member")
Guides == {u \in Own("guide") : Below(u, Members) >= Need["guide"]["qualified_members"]}
Leaders == {u \in Own("leader") :
                /\ Below(u, Members) >= Need["leader"]["qualified_members"]
                /\ Below(u, Guides) >= Need["leader"]["qualified_guides"]}
Rangers == {u \in Own("ranger") :
                /\ Below(u, Members) >= Need["ranger"]["qualified_members"]
                /\ Below(u, Guides) >= Need["ranger"]["qualified_guides"]
                /\ Below(u, Leaders) >= Need["ranger"]["qualified_leaders"]}
Tiered(u) ==
    CASE u \in Rangers -> "ranger"
      [] u \in Leaders \ Rangers -> "leader"
      [] u \in Guides \ (Leaders \cup Rangers) -> "guide"
      [] u \in Members \ (Guides \cup Leaders \cup Rangers) -> "member"
      [] OTHER -> "unranked"

\* A recomputation stores for every user the rank that the whole team deserves,
\* in a tree of any shape: the iteration, which ends when a pass changes nothing
\* or when its passes are used up, has come to the ranks of the tier-by-tier
\* definition ("a single call fully propagates rank up an arbitrarily deep chain").
RanksAreTiered == [][Save => \A u \in Users : stats'[u] = Tiered(u)]_vars

\* The iteration needs one pass for each tier, not one for each level of the
\* tree, so its cap on the passes is never what ends it.
OnePassPerTier == passes <= 4

\* Within a recomputation nobody loses a rank from one pass to the next.
RanksOnlyRise ==
    [][pc = "iterating" =>
          \A u \in Users : RankIndex(rankOf'[u]) >= RankIndex(rankOf[u])]_vars

\* Nobody is shown a rank without a badge for it or for a higher one, through
\* any sequence of promotions, demotions and failed recomputations.
RankHasBadge ==
    \A u \in Users : stats[u] # "unranked" =>
        \E r \in AtLeast(stats[u]) : <<u, r>> \in badges
=============================================================================
