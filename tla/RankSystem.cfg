\* Two trees of five users, every mix of accounts, two recomputations.
SPECIFICATION Spec
CONSTANTS
    Users = {1, 2, 3, 4, 5}
    NoUser = 0
    Trees <- MCTrees
    MaxDepth = 6
    Need <- MCNeed
    MaxRuns = 2
INVARIANTS OnePassPerTier RankHasBadge
PROPERTIES RanksAreTiered RanksOnlyRise
CHECK_DEADLOCK FALSE
