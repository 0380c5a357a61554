\* Two plan orders and an extra slot of one referred buyer; two batches, two
\* payouts, refunds of one payment.
SPECIFICATION Spec
CONSTANTS
    u1 = u1  a1 = a1  o1 = o1  o2 = o2  x1 = x1  p1 = p1  p2 = p2  p3 = p3  q1 = q1
    k1 = k1  k2 = k2  s1 = s1  s2 = s2
    Users = {u1, a1}
    NoUser = NoUser
    Orders = {o1, o2, x1}
    ExtraOrders = {x1}
    Pids = {p1, p2, q1}
    NoPid = NoPid
    NoOrder = NoOrder
    Buyer <- MCBuyer
    OrderOf <- MCOrderOf
    Referrer <- MCReferrer
    Workers = {k1, k2}
    Payouts = {s1, s2}
    Refundable = {p1}
SYMMETRY Symmetry
INVARIANTS OneFirstBonus PaidOutOnce RefundStopsCommission OutboxMatchesActivations
PROPERTIES ImplementsPayments ImplementsCommissionLedger
