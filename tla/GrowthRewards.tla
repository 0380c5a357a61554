--------------------------- MODULE GrowthRewards ---------------------------
(***************************************************************************)
(* services/rank_service.py, evaluate_monthly_rewards: the pending growth  *)
(* rewards of one period, from the cached ranks.  The nightly job and an   *)
(* admin run it any number of times in the period, and can overlap.        *)
(*                                                                         *)
(* Leaders get a flat amount as long as a cap on their total allows;       *)
(* rangers, members and guides share a part of the revenue of the period.  *)
(* A run reads committed rows, inserts with ON CONFLICT DO NOTHING, which  *)
(* waits for the same row of a run that has not committed, and commits at  *)
(* the end.                                                                *)
(***************************************************************************)
EXTENDS RankConfig, FiniteSets, FiniteSetsExt

CONSTANTS
    CachedRanks,    \* the ranks recompute_all_ranks gives in this instance
    Evals,          \* runs of evaluate_monthly_rewards that can overlap
    LeaderReward,   \* LEADER_MONTHLY_REWARD_MIN_INR
    LeaderCap,      \* LEADER_MONTHLY_REWARD_POOL_CAP_INR, 0 for no cap
    Percentage,     \* *_REWARD_POOL_PERCENTAGE
    UserCap,        \* *_MONTHLY_CAP_INR
    Payments,       \* amounts by which the revenue of the period can grow
    MaxRevenue,     \* bound: the revenue does not pass it
    Decided         \* bound: the pools whose rewards an admin decides

VARIABLES
    rank,           \* [Users -> CachedRanks], user_rank_stats
    banned,         \* users whose account is blocked or inactive
    revenue,        \* _period_revenue_inr of the period
    reward,         \* [Pools \X Users -> [status, amount]], rank_rewards of the period
    eval,           \* [Evals -> local state of the run]
    overlapped      \* for the properties: two runs have overlapped

rewardVars == <<rank, banned, revenue, reward, eval, overlapped>>

\* MONTHLY_REWARD_RANKS: each has a pool.
Pools == QualifyingRanks

ASSUME RewardAssumption ==
    /\ IsFiniteSet(Users)
    /\ CachedRanks \subseteq Ranks
    /\ Decided \subseteq Pools
    /\ LeaderReward \in Nat /\ LeaderCap \in Nat
    /\ Percentage \in 0..100 /\ UserCap \in Nat
    /\ Payments \subseteq Nat \ {0} /\ MaxRevenue \in Nat

NoReward == [status |-> "none", amount |-> 0]

\* A run handles the pools in this order.
Following(p) == CASE p = "leader" -> "ranger"
                  [] p = "ranger" -> "member"
                  [] p = "member" -> "guide"
                  [] p = "guide" -> "commit"

\* pool: the pool the run is at; listed: the users of that pool it still has to
\* handle; rangers: those it listed at its start; amount: what each gets;
\* allocated: the leader total it counts with; rows: what it has inserted.
IdleEval == [pool |-> "idle", listed |-> {}, rangers |-> {}, amount |-> 0,
             allocated |-> 0, rows |-> {}]

RewardInit ==
    /\ rank \in [Users -> CachedRanks]
    /\ banned = {}
    /\ revenue = 0
    /\ reward = [r \in Pools \X Users |-> NoReward]
    /\ eval = [e \in Evals |-> IdleEval]
    /\ overlapped = FALSE

-----------------------------------------------------------------------------

Allocated(pool) ==
    SumFunctionOnSet([u \in Users |-> reward[<<pool, u>>].amount], Users)

\* Slip: what earlier runs allocated is not counted.
ReadAllocated_Zero == 0

ReadAllocated == IF LeaderCap > 0 THEN Allocated("leader") ELSE 0

\* The two lists of users and the total allocated so far.
Start(e) ==
    /\ eval[e].pool = "idle"
    /\ eval' = [eval EXCEPT ![e] =
           [pool |-> "leader",
            listed |-> IF LeaderReward > 0 THEN {u \in Users : rank[u] = "leader"} ELSE {},
            rangers |-> {u \in Users : rank[u] = "ranger"},
            amount |-> LeaderReward, allocated |-> ReadAllocated, rows |-> {}]]
    /\ overlapped' = (overlapped \/ \E f \in Evals : eval[f].pool # "idle")
    /\ UNCHANGED <<rank, banned, revenue, reward>>

\* round(min(pool / n, cap), 2), in the smallest unit of money.
Share(n) ==
    LET even == (2 * revenue * Percentage + 100 * n) \div (200 * n)
    IN IF even < UserCap THEN even ELSE UserCap

\* The users of a revenue-backed pool: rangers as listed at the start, members
\* and guides as they are now, without banned accounts.
Eligible(e, pool) ==
    IF pool = "ranger" THEN eval[e].rangers ELSE {u \in Users \ banned : rank[u] = pool}

\* The run is done with its pool and begins the next one; nothing is paid
\* without a percentage and a cap, or when the share rounds to nothing.
NextPool(e) ==
    LET pool == Following(eval[e].pool)
        users == IF pool = "commit" THEN {} ELSE Eligible(e, pool)
        share == IF users = {} \/ Percentage = 0 THEN 0 ELSE Share(Cardinality(users))
    IN
    /\ eval[e].pool \in Pools
    /\ eval[e].listed = {}
    /\ eval' = [eval EXCEPT ![e] = [@ EXCEPT
           !.pool = pool, !.listed = IF share > 0 THEN users ELSE {}, !.amount = share]]
    /\ UNCHANGED <<rank, banned, revenue, reward, overlapped>>

\* Slip: an insert does not wait for the same row of another run.
Inserting_Never(e, u) == FALSE

\* The row of u in the pool is written by another run that has not committed.
Inserting(e, u) ==
    \E f \in Evals \ {e} : \E row \in eval[f].rows :
        row.pool = eval[e].pool /\ row.user = u

\* The cap leaves no room for one more leader.
Exhausted(e) ==
    /\ eval[e].pool = "leader"
    /\ LeaderCap > 0
    /\ eval[e].allocated + LeaderReward > LeaderCap

Skip(e, u) == eval' = [eval EXCEPT ![e].listed = @ \ {u}]

Insert(e, u) ==
    eval' = [eval EXCEPT
        ![e].listed = @ \ {u},
        ![e].rows = @ \cup {[pool |-> eval[e].pool, user |-> u, amount |-> eval[e].amount]},
        ![e].allocated = IF eval[e].pool = "leader" THEN @ + LeaderReward ELSE @]

\* Slip: ON CONFLICT DO UPDATE, a row that exists is written again.
HandleUser_Upsert(e, u) ==
    /\ u \in eval[e].listed
    /\ IF Exhausted(e) THEN Skip(e, u) ELSE ~Inserting(e, u) /\ Insert(e, u)
    /\ UNCHANGED <<rank, banned, revenue, reward, overlapped>>

\* One user of the list, in any order (the query for rangers has none).
HandleUser(e, u) ==
    /\ u \in eval[e].listed
    /\ IF Exhausted(e) THEN Skip(e, u)
       ELSE /\ ~Inserting(e, u)
            /\ IF reward[<<eval[e].pool, u>>].status # "none" THEN Skip(e, u) ELSE Insert(e, u)
    /\ UNCHANGED <<rank, banned, revenue, reward, overlapped>>

\* COMMIT: the inserted rows become visible.
Commit(e) ==
    /\ eval[e].pool = "commit"
    /\ reward' = [r \in Pools \X Users |->
           IF \E row \in eval[e].rows : row.pool = r[1] /\ row.user = r[2]
           THEN [status |-> "pending", amount |->
                    (CHOOSE row \in eval[e].rows : row.pool = r[1] /\ row.user = r[2]).amount]
           ELSE reward[r]]
    /\ eval' = [eval EXCEPT ![e] = IdleEval]
    /\ UNCHANGED <<rank, banned, revenue, overlapped>>

\* A crash, or the victim of a deadlock between two runs: ROLLBACK.
Abort(e) ==
    /\ eval[e].pool # "idle"
    /\ eval' = [eval EXCEPT ![e] = IdleEval]
    /\ UNCHANGED <<rank, banned, revenue, reward, overlapped>>

-----------------------------------------------------------------------------
(* The admin, and the rest of the application.                             *)

\* _reward_status_transition: one guarded UPDATE.
Decide(r, to) ==
    /\ \/ to = "approved" /\ reward[r].status = "pending"
       \/ to = "rejected" /\ reward[r].status \in {"pending", "approved"}
       \/ to = "paid" /\ reward[r].status = "approved"
    /\ reward' = [reward EXCEPT ![r] = [@ EXCEPT !.status = to]]
    /\ UNCHANGED <<rank, banned, revenue, eval, overlapped>>

\* recompute_all_ranks (module RankSystem): any change of the cached ranks.
Recompute ==
    /\ rank' \in [Users -> CachedRanks]
    /\ UNCHANGED <<banned, revenue, reward, eval, overlapped>>

Ban(u) ==
    /\ \/ banned' = banned \cup {u}
       \/ banned' = banned \ {u}
    /\ UNCHANGED <<rank, revenue, reward, eval, overlapped>>

Earn(amount) ==
    /\ revenue + amount <= MaxRevenue
    /\ revenue' = revenue + amount
    /\ UNCHANGED <<rank, banned, reward, eval, overlapped>>

EvalStep(e) ==
    Start(e) \/ NextPool(e) \/ (\E u \in Users : HandleUser(e, u)) \/ Commit(e) \/ Abort(e)

RewardNext ==
    \/ \E e \in Evals : EvalStep(e)
    \/ \E r \in Decided \X Users, to \in {"approved", "rejected", "paid"} : Decide(r, to)
    \/ Recompute
    \/ \E u \in Users : Ban(u)
    \/ \E amount \in Payments : Earn(amount)

RewardSpec == RewardInit /\ [][RewardNext]_rewardVars

-----------------------------------------------------------------------------
(* Properties *)

RewardStatuses == {"none", "pending", "approved", "paid", "rejected"}
Rows == [pool : Pools, user : Users, amount : Nat]

RewardTypeOK ==
    /\ rank \in [Users -> CachedRanks]
    /\ banned \subseteq Users
    /\ revenue \in 0..MaxRevenue
    /\ reward \in [Pools \X Users -> [status : RewardStatuses, amount : Nat]]
    /\ overlapped \in BOOLEAN
    /\ eval \in [Evals -> [pool : Pools \cup {"idle", "commit"}, listed : SUBSET Users,
                           rangers : SUBSET Users, amount : Nat, allocated : Nat,
                           rows : SUBSET Rows]]

\* The total of the leader rewards of a period respects a configured cap over
\* any number of runs, demotions, promotions and decisions, as long as no two
\* runs overlap ("total Leader Growth Reward allocated for a period never
\* exceeds a configured cap").
LeaderPoolCapped == (LeaderCap > 0 /\ ~overlapped) => Allocated("leader") <= LeaderCap

\* What runs, demotions and re-promotions do later in the period leaves the
\* amount of a reward alone, and a paid or rejected one is not reopened.
RewardsAreKept ==
    [][\A r \in Pools \X Users : reward[r].status # "none" =>
          /\ reward'[r].amount = reward[r].amount
          /\ reward'[r].status # reward[r].status =>
                <<reward[r].status, reward'[r].status>> \in
                    {<<"pending", "approved">>, <<"pending", "rejected">>,
                     <<"approved", "rejected">>, <<"approved", "paid">>}]_rewardVars

\* Two runs never insert the reward of one user in one pool twice: a row that a
\* run will commit is not there yet, and no other run has it.
RowsAreNew ==
    \A e \in Evals : \A row \in eval[e].rows :
        /\ reward[<<row.pool, row.user>>].status = "none"
        /\ \A f \in Evals : \A other \in eval[f].rows :
              (other.pool = row.pool /\ other.user = row.user) => (e = f /\ other = row)
=============================================================================
