\* Two growth orders and a starter order of one owner, periods of three ticks.
SPECIFICATION BillingSpec
CONSTANTS
    u1 = u1  o1 = o1  o2 = o2  o3 = o3  p1 = p1  p2 = p2  p3 = p3  p4 = p4
    Owners = {u1}
    Orders = {o1, o2, o3}
    Pids = {p1, p2, p3, p4}
    NoPid = NoPid
    OwnerOf <- MCOwnerOf
    PlanOf <- MCPlanOf
    OrderOf <- MCOrderOf
    Month = 3
    Wait = 1
    MaxTime = 5
INVARIANTS NoFreeTime NoTimeLost
PROPERTIES GrowthIsKept ImplementsSubscription
