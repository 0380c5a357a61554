\* A refund in full that is handled before the payment is finalized.
SPECIFICATION Spec
CONSTANTS
    u1 = u1  a1 = a1  o1 = o1  o2 = o2  x1 = x1  p1 = p1  p2 = p2  p3 = p3  q1 = q1
    k1 = k1  k2 = k2  s1 = s1  s2 = s2
    Users = {u1, a1}
    NoUser = NoUser
    Orders = {o1}
    ExtraOrders = {}
    Pids = {p1}
    NoPid = NoPid
    NoOrder = NoOrder
    Buyer <- MCBuyer1
    OrderOf <- MCOrderOf0
    Referrer <- MCReferrer
    Workers = {k1}
    Payouts = {s1}
    Refundable = {p1}
INVARIANTS EveryRefundStops
