\* One user, two withdrawals, two request threads, every property.
SPECIFICATION FairSpec
CONSTANTS
    u1 = u1  w1 = w1  w2 = w2  k1 = k1  h1 = h1  h2 = h2
    Users = {u1}
    Wids = {w1, w2}
    Keys = {k1}
    NoKey = NoKey
    NoUser = NoUser
    NoHandler = NoHandler
    Handlers = {h1, h2}
    MinWithdraw = 1
    MaxWithdraw = 2
    FirstMinBalance = 2
    Amounts = {1}
    MaxBalance = 3
INVARIANTS KeyReservesOnce RefundedIffRejected
PROPERTIES ImplementsLedger NobodyWaitsForever
