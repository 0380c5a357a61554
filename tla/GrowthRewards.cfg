\* Two users, two runs that can overlap, a cap that one leader reward fills.
SPECIFICATION RewardSpec
CONSTANTS
    u1 = u1  u2 = u2  e1 = e1  e2 = e2
    Users = {u1, u2}
    CachedRanks = {"leader", "member"}
    Evals = {e1, e2}
    LeaderReward = 1
    LeaderCap = 1
    Percentage = 100
    UserCap = 1
    Payments = {2}
    MaxRevenue = 2
    Decided = {"member"}
SYMMETRY Symmetry
INVARIANTS LeaderPoolCapped RowsAreNew
PROPERTIES RewardsAreKept
