\* Liveness: one order, paid twice; the second capture leaves a job that never pays.
SPECIFICATION FairSpec
CONSTANTS
    u1 = u1  a1 = a1  o1 = o1  o2 = o2  x1 = x1  p1 = p1  p2 = p2  p3 = p3  q1 = q1
    k1 = k1  k2 = k2  s1 = s1  s2 = s2
    Users = {u1, a1}
    NoUser = NoUser
    Orders = {o1}
    ExtraOrders = {}
    Pids = {p1, p3}
    NoPid = NoPid
    NoOrder = NoOrder
    Buyer <- MCBuyer1
    OrderOf <- MCOrderOf1
    Referrer <- MCReferrer
    Workers = {k1, k2}
    Payouts = {s1}
    Refundable = {p1}
INVARIANTS AppliedOnce CommissionIsEarned
PROPERTIES CommissionIsSettled
