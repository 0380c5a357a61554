\* Two users, two organizations, one invitation, one business, two requests.
SPECIFICATION Spec
CONSTANTS
    u1 = u1  u2 = u2  t1 = t1  t2 = t2
    Users = {u1, u2}
    Orgs = {1, 2}
    Invitations = {1}
    Rows = {1, 2, 3}
    Businesses = {1}
    Threads = {t1, t2}
    NoUser = NoUser
SYMMETRY Symmetry
INVARIANTS OwnerStays MembershipIsInvited SingleOrganization
PROPERTIES ManagedByOwner
