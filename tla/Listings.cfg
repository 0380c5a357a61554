\* Two users, two listings, two requests; limits 0 and 1, one star.
SPECIFICATION Spec
CONSTANTS
    u1 = u1  u2 = u2  l1 = l1  l2 = l2  t1 = t1  t2 = t2
    Users = {u1, u2}
    Ids = {l1, l2}
    Threads = {t1, t2}
    MaxStars = 1
    MaxLimit = 1
    MaxApproved = 1
    NoUser = NoUser
    NoListing = NoListing
SYMMETRY Symmetry
INVARIANTS RatingIsCurrent GrantIsShown
PROPERTIES LimitHolds
