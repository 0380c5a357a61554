--------------------------- MODULE Organizations ---------------------------
(***************************************************************************)
(* Business Power organizations: provisioning by the admin                 *)
(* (activate_business_power_v2), members, invitations and businesses       *)
(* (services/organization_service.py), and the one gateway that authorizes *)
(* them (services/organization_authz.py).                                  *)
(*                                                                         *)
(* Every request reads its authority in one query and writes in another,   *)
(* with no lock in between: a member may be removed, a role changed or the *)
(* plan of the owner lapse after the check.  The writes are guarded        *)
(* statements in one transaction with the unique indexes behind them.      *)
(* A phone number stands for the user who registered with it.              *)
(***************************************************************************)
EXTENDS Naturals, FiniteSets

CONSTANTS
    Users,
    Orgs,           \* ids of organizations
    Invitations,    \* ids of invitations, one secret token each
    Rows,           \* ids of organization_members
    Businesses,     \* ids of listings with an organization
    Threads,        \* requests under way at one time
    NoUser

VARIABLES
    owner,          \* [Orgs -> owner_user_id], NoUser while the id is unused
    member,         \* [Rows -> organization_members]
    invitation,     \* [Invitations -> organization_invitations]
    business,       \* [Businesses -> listings]
    paying,         \* users whose Business Power subscription is active
    req,            \* [Threads -> the request between its queries]
    via,            \* history: [Rows -> the invitation that made the row]
    crossed         \* history: users with overlapping activations

records == <<owner, member, invitation, business, paying>>
vars == <<owner, member, invitation, business, paying, req, via, crossed>>

ASSUME OrganizationAssumption ==
    /\ NoUser \notin Users
    /\ Orgs \cup Invitations \cup Rows \cup Businesses \subseteq Nat \ {0}

NoOrg == 0
NoInvitation == 0
NoBusiness == 0

\* SERIAL: ids are given out in order.
NextId(id, free) == id \in free /\ \A other \in free : id <= other

Invitable == {"manager", "staff"}
Roles == Invitable \cup {"owner"}

\* The permission matrix of the operations that write.
MayManage == {"owner", "manager"}
AllowedRoles(op) == IF op \in {"role", "remove", "delete"} THEN {"owner"} ELSE MayManage

NoRow == [status |-> "none", org |-> NoOrg, user |-> NoUser, role |-> "none"]
NoLetter == [status |-> "none", org |-> NoOrg, phone |-> NoUser, role |-> "none", expired |-> FALSE]
NoListing == [org |-> NoOrg, creator |-> NoUser]
Idle == [op |-> "idle", actor |-> NoUser, org |-> NoOrg, letter |-> NoInvitation, listing |-> NoBusiness]

Ops == {"idle", "lookup", "provision", "invite", "accept", "role", "remove", "create",
        "update", "delete", "withdraw"}
Requests == [op : Ops, actor : Users \cup {NoUser}, org : Orgs \cup {NoOrg},
             letter : Invitations \cup {NoInvitation}, listing : Businesses \cup {NoBusiness}]

OrganizationsInit ==
    /\ owner = [o \in Orgs |-> NoUser]
    /\ member = [m \in Rows |-> NoRow]
    /\ invitation = [i \in Invitations |-> NoLetter]
    /\ business = [b \in Businesses |-> NoListing]
    /\ paying = {}
    /\ req = [t \in Threads |-> Idle]
    /\ via = [m \in Rows |-> NoInvitation]
    /\ crossed = {}

Exists(o) == owner[o] # NoUser

IsMember(m, u, o) == member[m].status = "active" /\ member[m].user = u /\ member[m].org = o

\* uq_org_members_active_person.
HasActiveRow(u, o) == \E m \in Rows : IsMember(m, u, o)

\* authorize_organization: an active row with an allowed role, and an owner who
\* pays.  Nothing in the code ever suspends an organization.
Authorized(u, o, op) ==
    /\ Exists(o)
    /\ owner[o] \in paying
    /\ \E m \in Rows : IsMember(m, u, o) /\ member[m].role \in AllowedRoles(op)

Begin(t, r) ==
    /\ req[t] = Idle
    /\ req' = [req EXCEPT ![t] = r]

\* The request is over: done, refused or rolled back.
End(t) == req' = [req EXCEPT ![t] = Idle]

InsertRow(m, o, u, role, i) ==
    /\ NextId(m, {n \in Rows : member[n].status = "none"})
    /\ member' = [member EXCEPT ![m] =
                    [status |-> "active", org |-> o, user |-> u, role |-> role]]
    /\ via' = [via EXCEPT ![m] = i]

-----------------------------------------------------------------------------
(* activate_business_power_v2: the plan, then the organization.            *)

Provisioning(u) == {t \in Threads : req[t].actor = u /\ req[t].op \in {"lookup", "provision"}}

ActivatePlan(t, u) ==
    /\ Begin(t, [Idle EXCEPT !.op = "lookup", !.actor = u])
    /\ paying' = paying \cup {u}
    /\ crossed' = IF Provisioning(u) = {} THEN crossed ELSE crossed \cup {u}
    /\ UNCHANGED <<owner, member, invitation, business, via>>

\* Slip: the organization is created without looking for one.
LookUp_Blind(t) ==
    /\ req[t].op = "lookup"
    /\ req' = [req EXCEPT ![t].op = "provision"]
    /\ UNCHANGED <<records, via, crossed>>

\* ensure_organization_for_user finds one, or goes on to create it.
LookUp(t) ==
    /\ req[t].op = "lookup"
    /\ IF \E o \in Orgs : owner[o] = req[t].actor
       THEN End(t)
       ELSE req' = [req EXCEPT ![t].op = "provision"]
    /\ UNCHANGED <<records, via, crossed>>

\* Both rows in one transaction.
Provision(t) ==
    /\ req[t].op = "provision"
    /\ \E o \in Orgs, m \in Rows :
         /\ NextId(o, {p \in Orgs : ~Exists(p)})
         /\ owner' = [owner EXCEPT ![o] = req[t].actor]
         /\ InsertRow(m, o, req[t].actor, "owner", NoInvitation)
    /\ End(t)
    /\ UNCHANGED <<invitation, business, paying, crossed>>

-----------------------------------------------------------------------------
(* Invitations.                                                            *)

Authorize(t, u, o, op) ==
    /\ Authorized(u, o, op)
    /\ Begin(t, [Idle EXCEPT !.op = op, !.actor = u, !.org = o])
    /\ UNCHANGED <<records, via, crossed>>

\* uq_org_invitations_pending: the row of an expired invitation is in the way too.
Invited(o, u) == \E i \in Invitations :
    invitation[i].status = "pending" /\ invitation[i].org = o /\ invitation[i].phone = u

\* invite_member.
Invite(t) ==
    /\ req[t].op = "invite"
    /\ \E i \in Invitations, u \in Users, role \in Invitable :
         /\ NextId(i, {j \in Invitations : invitation[j].status = "none"})
         /\ ~Invited(req[t].org, u)
         /\ invitation' = [invitation EXCEPT ![i] =
                [status |-> "pending", org |-> req[t].org, phone |-> u,
                 role |-> role, expired |-> FALSE]]
    /\ End(t)
    /\ UNCHANGED <<owner, member, business, paying, via, crossed>>

\* accept_invitation reads the user's own phone and the invitation.
ReadInvitation(t, u, i) ==
    /\ invitation[i].status = "pending" /\ ~invitation[i].expired
    /\ invitation[i].phone = u
    /\ Begin(t, [Idle EXCEPT !.op = "accept", !.actor = u, !.letter = i])
    /\ UNCHANGED <<records, via, crossed>>

\* Slip: the update trusts the status that was read.
Accept_Unguarded(t) ==
    LET i == req[t].letter
        o == invitation[i].org
    IN  /\ req[t].op = "accept"
        /\ ~HasActiveRow(req[t].actor, o)
        /\ \E m \in Rows : InsertRow(m, o, req[t].actor, invitation[i].role, i)
        /\ invitation' = [invitation EXCEPT ![i].status = "accepted"]
        /\ End(t)
        /\ UNCHANGED <<owner, business, paying, crossed>>

\* ... then takes it with a guarded update and inserts the member, in one
\* transaction; the expiry is not looked at again.
Accept(t) ==
    LET i == req[t].letter
        o == invitation[i].org
    IN  /\ req[t].op = "accept"
        /\ invitation[i].status = "pending"
        /\ ~HasActiveRow(req[t].actor, o)
        /\ \E m \in Rows : InsertRow(m, o, req[t].actor, invitation[i].role, i)
        /\ invitation' = [invitation EXCEPT ![i].status = "accepted"]
        /\ End(t)
        /\ UNCHANGED <<owner, business, paying, crossed>>

\* expires_at passes; the row stays pending.
Expire(i) ==
    /\ invitation[i].status = "pending"
    /\ ~invitation[i].expired
    /\ invitation' = [invitation EXCEPT ![i].expired = TRUE]
    /\ UNCHANGED <<owner, member, business, paying, req, via, crossed>>

-----------------------------------------------------------------------------
(* Members.                                                                *)

\* Slip: the row is found by its id alone.
Targets_ById(o) == {m \in Rows : member[m].status = "active" /\ member[m].role # "owner"}

\* Slip: the owner's row can be a target.
Targets_Owner(o) == {m \in Rows : member[m].status = "active" /\ member[m].org = o}

\* The WHERE of the two guarded updates.
Targets(o) == {m \in Rows : /\ member[m].status = "active"
                            /\ member[m].org = o
                            /\ member[m].role # "owner"}

ChangeMemberRole(t) ==
    /\ req[t].op = "role"
    /\ \E m \in Targets(req[t].org), role \in Invitable :
         member' = [member EXCEPT ![m].role = role]
    /\ End(t)
    /\ UNCHANGED <<owner, invitation, business, paying, via, crossed>>

RemoveMember(t) ==
    /\ req[t].op = "remove"
    /\ \E m \in Targets(req[t].org) : member' = [member EXCEPT ![m].status = "removed"]
    /\ End(t)
    /\ UNCHANGED <<owner, invitation, business, paying, via, crossed>>

-----------------------------------------------------------------------------
(* Businesses.                                                             *)

CreateBusiness(t) ==
    /\ req[t].op = "create"
    /\ \E b \in Businesses :
         /\ business[b] = NoListing
         /\ business' = [business EXCEPT ![b] =
                [org |-> req[t].org, creator |-> req[t].actor]]
    /\ End(t)
    /\ UNCHANGED <<owner, member, invitation, paying, via, crossed>>

\* authorize_organization_listing resolves the organization from the business;
\* another one in the URL is refused.
AuthorizeListing(t, u, b, op) ==
    /\ business[b] # NoListing
    /\ Authorized(u, business[b].org, op)
    /\ Begin(t, [op |-> op, actor |-> u, org |-> business[b].org,
                 letter |-> NoInvitation, listing |-> b])
    /\ UNCHANGED <<records, via, crossed>>

\* The statement matches nothing when the business was deleted meanwhile.
Present(t) == business[req[t].listing].org = req[t].org

\* Name, category, city, state and description, which are not modelled.
UpdateBusiness(t) ==
    /\ req[t].op = "update"
    /\ Present(t)
    /\ End(t)
    /\ UNCHANGED <<records, via, crossed>>

DeleteBusiness(t) ==
    /\ req[t].op = "delete"
    /\ Present(t)
    /\ business' = [business EXCEPT ![req[t].listing] = NoListing]
    /\ End(t)
    /\ UNCHANGED <<owner, member, invitation, paying, via, crossed>>

\* The marketplace's own delete_listing does not go through the gateway: it looks
\* for a listing of this user, and user_id names the member who created it ...
FindOwnListing(t, u, b) ==
    /\ business[b] # NoListing /\ business[b].creator = u
    /\ Begin(t, [Idle EXCEPT !.op = "withdraw", !.actor = u, !.listing = b])
    /\ UNCHANGED <<records, via, crossed>>

\* ... and deletes it by the same two columns.
WithdrawListing(t) ==
    /\ req[t].op = "withdraw"
    /\ business[req[t].listing].creator = req[t].actor
    /\ business' = [business EXCEPT ![req[t].listing] = NoListing]
    /\ End(t)
    /\ UNCHANGED <<owner, member, invitation, paying, via, crossed>>

\* delete_listing_admin, one statement by the id alone.
DeleteByAdmin(b) ==
    /\ business[b] # NoListing
    /\ business' = [business EXCEPT ![b] = NoListing]
    /\ UNCHANGED <<owner, member, invitation, paying, req, via, crossed>>

-----------------------------------------------------------------------------

\* No row matches, an index refuses the row, or the connection fails.
Abandon(t) ==
    /\ req[t] # Idle
    /\ End(t)
    /\ UNCHANGED <<records, via, crossed>>

\* subscription_expiry passes.
Lapse(u) ==
    /\ u \in paying
    /\ paying' = paying \ {u}
    /\ UNCHANGED <<owner, member, invitation, business, req, via, crossed>>

Request(t) ==
    \/ \E u \in Users : ActivatePlan(t, u)
    \/ LookUp(t)
    \/ Provision(t)
    \/ \E u \in Users, o \in Orgs, op \in {"invite", "role", "remove", "create"} :
         Authorize(t, u, o, op)
    \/ Invite(t)
    \/ \E u \in Users, i \in Invitations : ReadInvitation(t, u, i)
    \/ Accept(t)
    \/ ChangeMemberRole(t)
    \/ RemoveMember(t)
    \/ CreateBusiness(t)
    \/ \E u \in Users, b \in Businesses, op \in {"update", "delete"} :
         AuthorizeListing(t, u, b, op)
    \/ UpdateBusiness(t)
    \/ DeleteBusiness(t)
    \/ \E u \in Users, b \in Businesses : FindOwnListing(t, u, b)
    \/ WithdrawListing(t)
    \/ Abandon(t)

Next ==
    \/ \E t \in Threads : Request(t)
    \/ \E i \in Invitations : Expire(i)
    \/ \E b \in Businesses : DeleteByAdmin(b)
    \/ \E u \in Users : Lapse(u)

Spec == OrganizationsInit /\ [][Next]_vars

-----------------------------------------------------------------------------
(* What organizations promise.                                             *)

OrganizationTypeOK ==
    /\ owner \in [Orgs -> Users \cup {NoUser}]
    /\ member \in [Rows -> {NoRow} \cup
                     [status : {"active", "removed"}, org : Orgs, user : Users, role : Roles]]
    /\ invitation \in [Invitations -> {NoLetter} \cup
                         [status : {"pending", "accepted"}, org : Orgs, phone : Users,
                          role : Invitable, expired : BOOLEAN]]
    /\ business \in [Businesses -> {NoListing} \cup [org : Orgs, creator : Users]]
    /\ paying \subseteq Users
    /\ req \in [Threads -> Requests]
    /\ via \in [Rows -> Invitations \cup {NoInvitation}]
    /\ crossed \subseteq Users

\* Whoever is invited, promoted and removed, and by however many requests at a
\* time, an organization keeps exactly one active owner, the user it was created
\* for; nobody else ever gets the role.
OwnerStays ==
    \A o \in Orgs : Exists(o) =>
        \E m \in Rows : /\ IsMember(m, owner[o], o)
                        /\ \A n \in Rows : member[n].org = o /\ member[n].role = "owner" <=> n = m

\* Every other row of a member was made by an invitation of that organization to
\* that user's phone, and an invitation makes one row at most: a member who was
\* removed cannot come back with the old link, and two clicks make one row.
MembershipIsInvited ==
    /\ \A m \in Rows : member[m].status # "none" /\ member[m].role # "owner" =>
         /\ via[m] # NoInvitation
         /\ invitation[via[m]].status = "accepted"
         /\ invitation[via[m]].org = member[m].org
         /\ invitation[via[m]].phone = member[m].user
    /\ \A m, n \in Rows : via[m] = via[n] /\ via[m] # NoInvitation => m = n

\* A user has two organizations only when two activations of that user overlapped:
\* the lookup takes no lock and no index makes owner_user_id unique.
SingleOrganization ==
    \A o, p \in Orgs : Exists(o) /\ owner[o] = owner[p] => o = p \/ owner[o] \in crossed

\* A request of this user, one of these operations, ends in this step.
EndsFor(u, ops) == \E t \in Threads : req[t].actor = u /\ req[t].op \in ops /\ req'[t] = Idle

\* A member's row changes only by a request of the owner of its own organization,
\* whatever ids are put in the URL.  A business never changes hands, and goes only
\* by such a request or, as a listing of the marketplace, by one of the member who
\* created it, whatever became of that member, or by the admin, who has no request.
ManagedByOwner ==
    [][/\ \A m \in Rows : member[m].status = "active" /\ member'[m] # member[m] =>
            EndsFor(owner[member[m].org], {"role", "remove"})
       /\ \A b \in Businesses : business[b] # NoListing /\ business'[b] # business[b] =>
            /\ business'[b] = NoListing
            /\ \/ EndsFor(owner[business[b].org], {"delete"})
               \/ EndsFor(business[b].creator, {"withdraw"})
               \/ UNCHANGED req]_vars
=============================================================================
