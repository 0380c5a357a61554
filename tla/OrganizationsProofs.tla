------------------------ MODULE OrganizationsProofs ------------------------
(***************************************************************************)
(* Proofs about module Organizations, for any users, organizations,        *)
(* invitations, businesses and concurrent requests.                        *)
(***************************************************************************)
EXTENDS Organizations, TLAPS

USE OrganizationAssumption

Provisioners == {"lookup", "provision"}
Owners == {"role", "remove", "delete"}
Managers == Owners \cup {"invite", "create", "update"}

\* A member and an invitation belong to an organization that exists.
RowsBelong == \A m \in Rows : member[m].status # "none" => Exists(member[m].org)
LettersBelong == \A i \in Invitations : invitation[i].status # "none" => Exists(invitation[i].org)

\* Only an accepted invitation leaves its id in a row.
ViaUsed ==
    \A m \in Rows : via[m] # NoInvitation => member[m].status # "none" /\ member[m].role # "owner"

\* What a request has read and may rely on until it writes.
RequestHolds(t) ==
    /\ req[t].op # "idle" => req[t].actor \in Users
    /\ req[t].op = "accept" =>
         /\ req[t].letter \in Invitations
         /\ invitation[req[t].letter].status # "none"
         /\ invitation[req[t].letter].phone = req[t].actor
    /\ req[t].op \in Managers => req[t].org \in Orgs /\ Exists(req[t].org)
    /\ req[t].op \in Owners => req[t].actor = owner[req[t].org]
    /\ req[t].op \in {"update", "delete", "withdraw"} => req[t].listing \in Businesses
RequestsHold == \A t \in Threads : RequestHolds(t)

\* Without overlapping activations one request provisions a user, and one that
\* goes on to create an organization creates the first.
Alone ==
    \A s, t \in Threads :
        req[s].op \in Provisioners /\ req[t].op \in Provisioners /\ req[s].actor = req[t].actor
        => s = t \/ req[s].actor \in crossed
FirstOne ==
    \A t \in Threads : req[t].op = "provision" =>
        req[t].actor \in crossed \/ \A o \in Orgs : owner[o] # req[t].actor

OrganizationInv ==
    /\ OrganizationTypeOK
    /\ OwnerStays
    /\ MembershipIsInvited
    /\ SingleOrganization
    /\ RowsBelong
    /\ LettersBelong
    /\ ViaUsed
    /\ RequestsHold
    /\ Alone
    /\ FirstOne

LEMMA InitInv == OrganizationsInit => OrganizationInv
<1> SUFFICES ASSUME OrganizationsInit PROVE OrganizationInv
  OBVIOUS
<1> USE DEF OrganizationsInit, NoRow, NoLetter, NoListing, Idle, NoOrg, NoInvitation, NoBusiness
<1>1. OrganizationTypeOK
  BY DEF OrganizationTypeOK, Requests, Ops
<1>2. OwnerStays /\ MembershipIsInvited /\ SingleOrganization
  BY DEF OwnerStays, MembershipIsInvited, SingleOrganization, Exists
<1>3. RowsBelong /\ LettersBelong /\ ViaUsed
  BY DEF RowsBelong, LettersBelong, ViaUsed
<1>4. RequestsHold /\ Alone /\ FirstOne
  BY DEF RequestsHold, RequestHolds, Alone, FirstOne, Provisioners, Managers, Owners
<1> QED
  BY <1>1, <1>2, <1>3, <1>4 DEF OrganizationInv

\* A row of a member names an organization and a user.
LEMMA MemberRow ==
  ASSUME OrganizationTypeOK, NEW m \in Rows
  PROVE  /\ member[m].status # "none" =>
              member[m] \in [status : {"active", "removed"}, org : Orgs, user : Users, role : Roles]
         /\ member[m].org \in Orgs => member[m].status # "none"
  BY DEF OrganizationTypeOK, NoRow, NoOrg

LEMMA Letter ==
  ASSUME OrganizationTypeOK, NEW i \in Invitations, invitation[i].status # "none"
  PROVE  invitation[i] \in [status : {"pending", "accepted"}, org : Orgs, phone : Users,
                            role : Invitable, expired : BOOLEAN]
  BY DEF OrganizationTypeOK, NoLetter

\* A request ends or begins: the others keep what they rely on.
LEMMA RequestChanges ==
  ASSUME OrganizationInv, NEW t \in Threads, NEW r, req' = [req EXCEPT ![t] = r],
         r \in Requests,
         UNCHANGED <<owner, member, invitation, via>>,
         business' \in [Businesses -> {NoListing} \cup [org : Orgs, creator : Users]],
         paying' \subseteq Users, crossed' \subseteq Users, crossed \subseteq crossed',
         RequestHolds(t)',
         r.op \in Provisioners =>
            \A s \in Threads \ {t} : req[s].op \in Provisioners /\ req[s].actor = r.actor
                                     => r.actor \in crossed',
         r.op = "provision" => \A o \in Orgs : owner[o] # r.actor
  PROVE  OrganizationInv'
<1> USE DEF OrganizationInv
<1>1. /\ req'[t] = r
      /\ \A s \in Threads \ {t} : req'[s] = req[s]
  BY DEF OrganizationTypeOK
<1>2. OrganizationTypeOK'
  BY DEF OrganizationTypeOK
<1>3. OwnerStays' /\ MembershipIsInvited' /\ RowsBelong' /\ LettersBelong' /\ ViaUsed'
  BY DEF OwnerStays, MembershipIsInvited, RowsBelong, LettersBelong, ViaUsed, Exists, IsMember
<1>4. SingleOrganization'
  BY DEF SingleOrganization, Exists
<1>5. RequestsHold'
  BY <1>1 DEF RequestsHold, RequestHolds, Exists
<1>6. Alone'
  BY <1>1 DEF Alone
<1>7. FirstOne'
  BY <1>1 DEF FirstOne
<1> QED
  BY <1>2, <1>3, <1>4, <1>5, <1>6, <1>7

LEMMA IdleRequest ==
  /\ Idle \in Requests
  /\ Idle.op = "idle"
  BY DEF Idle, Requests, Ops

\* The end of a request that wrote no member, organization or invitation.
LEMMA EndKeeps ==
  ASSUME OrganizationInv, NEW t \in Threads, End(t),
         UNCHANGED <<owner, member, invitation, paying, via, crossed>>,
         business' \in [Businesses -> {NoListing} \cup [org : Orgs, creator : Users]]
  PROVE  OrganizationInv'
<1>1. req'[t] = Idle
  BY DEF End, OrganizationInv, OrganizationTypeOK
<1>2. RequestHolds(t)'
  BY <1>1, IdleRequest DEF RequestHolds, Managers, Owners
<1>3. paying' \subseteq Users /\ crossed' \subseteq Users
  BY DEF OrganizationInv, OrganizationTypeOK
<1> QED
  BY <1>2, <1>3, IdleRequest, RequestChanges DEF End, Provisioners

LEMMA ActivatePlanKeeps ==
  ASSUME OrganizationInv, NEW t \in Threads, NEW u \in Users, ActivatePlan(t, u)
  PROVE  OrganizationInv'
<1> DEFINE r == [Idle EXCEPT !.op = "lookup", !.actor = u]
<1>1. /\ r \in Requests
      /\ r.op = "lookup" /\ r.actor = u
  BY DEF Idle, Requests, Ops
<1>2. req' = [req EXCEPT ![t] = r]
  BY DEF ActivatePlan, Begin
<1> HIDE DEF r
<1>3. req'[t] = r
  BY <1>2 DEF OrganizationInv, OrganizationTypeOK
<1>4. RequestHolds(t)'
  BY <1>1, <1>3 DEF RequestHolds, Managers, Owners
<1>5. /\ UNCHANGED <<owner, member, invitation, business, via>>
      /\ paying' \subseteq Users /\ crossed' \subseteq Users /\ crossed \subseteq crossed'
      /\ business' \in [Businesses -> {NoListing} \cup [org : Orgs, creator : Users]]
  BY DEF ActivatePlan, OrganizationInv, OrganizationTypeOK
<1>6. \A s \in Threads \ {t} : req[s].op \in Provisioners /\ req[s].actor = u => u \in crossed'
  BY DEF ActivatePlan, Provisioning, Provisioners
<1> QED
  BY <1>1, <1>2, <1>4, <1>5, <1>6, RequestChanges

LEMMA LookUpKeeps ==
  ASSUME OrganizationInv, NEW t \in Threads, LookUp(t)
  PROVE  OrganizationInv'
<1>0. /\ paying' \subseteq Users /\ crossed' \subseteq Users /\ crossed' = crossed
      /\ UNCHANGED <<owner, member, invitation, business, via, paying>>
      /\ business' \in [Businesses -> {NoListing} \cup [org : Orgs, creator : Users]]
  BY DEF LookUp, records, OrganizationInv, OrganizationTypeOK
<1>1. CASE \E o \in Orgs : owner[o] = req[t].actor
  BY <1>0, <1>1, EndKeeps DEF LookUp
<1>2. CASE ~(\E o \in Orgs : owner[o] = req[t].actor)
  <2> DEFINE r == [req[t] EXCEPT !.op = "provision"]
  <2>1. /\ r \in Requests
        /\ r.op = "provision" /\ r.actor = req[t].actor
    BY DEF OrganizationInv, OrganizationTypeOK, Requests, Ops
  <2>2. req' = [req EXCEPT ![t] = r]
    BY <1>2 DEF LookUp, OrganizationInv, OrganizationTypeOK, Requests
  <2> HIDE DEF r
  <2>3. req'[t] = r /\ req[t].op = "lookup"
    BY <2>2 DEF LookUp, OrganizationInv, OrganizationTypeOK
  <2>4. RequestHolds(t)'
    BY <2>1, <2>3 DEF RequestHolds, Managers, Owners, OrganizationInv, RequestsHold
  <2>5. \A s \in Threads \ {t} : req[s].op \in Provisioners /\ req[s].actor = r.actor
                                 => r.actor \in crossed'
    BY <1>0, <2>1, <2>3 DEF OrganizationInv, Alone, Provisioners
  <2> QED
    BY <1>0, <1>2, <2>1, <2>2, <2>4, <2>5, RequestChanges
<1> QED
  BY <1>1, <1>2

\* Who is authorized for an owner's operation is the owner.
LEMMA OwnerAuthorized ==
  ASSUME OrganizationInv, NEW u \in Users, NEW o \in Orgs, NEW op, Authorized(u, o, op)
  PROVE  Exists(o) /\ (op \in Owners => u = owner[o])
<1>1. Exists(o)
  BY DEF Authorized
<1>2. ASSUME op \in Owners PROVE u = owner[o]
  <2>1. PICK m \in Rows : IsMember(m, u, o) /\ member[m].role = "owner"
    BY <1>2 DEF Authorized, AllowedRoles, Owners
  <2>2. PICK n \in Rows : /\ IsMember(n, owner[o], o)
                          /\ \A k \in Rows : member[k].org = o /\ member[k].role = "owner" <=> k = n
    BY <1>1 DEF OrganizationInv, OwnerStays
  <2> QED
    BY <2>1, <2>2 DEF IsMember
<1> QED
  BY <1>1, <1>2

LEMMA AuthorizeKeeps ==
  ASSUME OrganizationInv, NEW t \in Threads,
         \/ \E u \in Users, o \in Orgs, op \in {"invite", "role", "remove", "create"} :
              Authorize(t, u, o, op)
         \/ \E u \in Users, b \in Businesses, op \in {"update", "delete"} :
              AuthorizeListing(t, u, b, op)
  PROVE  OrganizationInv'
<1>1. PICK r : /\ req' = [req EXCEPT ![t] = r]
               /\ r \in [op : {"invite", "role", "remove", "create", "update", "delete"},
                         actor : Users, org : Orgs, letter : {NoInvitation},
                         listing : Businesses \cup {NoBusiness}]
               /\ Authorized(r.actor, r.org, r.op)
               /\ r.op \in {"update", "delete"} => r.listing \in Businesses
  <2>1. CASE \E u \in Users, o \in Orgs, op \in {"invite", "role", "remove", "create"} :
               Authorize(t, u, o, op)
    <3> PICK u \in Users, o \in Orgs, op \in {"invite", "role", "remove", "create"} :
               Authorize(t, u, o, op)
      BY <2>1
    <3> WITNESS [Idle EXCEPT !.op = op, !.actor = u, !.org = o]
    <3> QED
      BY DEF Authorize, Begin, Idle
  <2>2. CASE \E u \in Users, b \in Businesses, op \in {"update", "delete"} :
               AuthorizeListing(t, u, b, op)
    <3> PICK u \in Users, b \in Businesses, op \in {"update", "delete"} :
               AuthorizeListing(t, u, b, op)
      BY <2>2
    <3>1. business[b].org \in Orgs
      BY DEF AuthorizeListing, OrganizationInv, OrganizationTypeOK
    <3> WITNESS [op |-> op, actor |-> u, org |-> business[b].org,
                 letter |-> NoInvitation, listing |-> b]
    <3> QED
      BY <3>1 DEF AuthorizeListing, Begin
  <2> QED
    BY <2>1, <2>2
<1>2. /\ UNCHANGED <<owner, member, invitation, business, paying, via, crossed>>
      /\ paying' \subseteq Users /\ crossed' \subseteq Users
      /\ business' \in [Businesses -> {NoListing} \cup [org : Orgs, creator : Users]]
  BY DEF Authorize, AuthorizeListing, records, OrganizationInv, OrganizationTypeOK
<1>3. req'[t] = r
  BY <1>1 DEF OrganizationInv, OrganizationTypeOK
<1>4. RequestHolds(t)'
  BY <1>1, <1>2, <1>3, OwnerAuthorized DEF RequestHolds, Managers, Owners, Exists
<1> QED
  BY <1>1, <1>2, <1>4, RequestChanges DEF Provisioners, Requests, Ops

LEMMA ReadInvitationKeeps ==
  ASSUME OrganizationInv, NEW t \in Threads, NEW u \in Users, NEW i \in Invitations,
         ReadInvitation(t, u, i)
  PROVE  OrganizationInv'
<1> DEFINE r == [Idle EXCEPT !.op = "accept", !.actor = u, !.letter = i]
<1>1. /\ r \in Requests
      /\ r.op = "accept" /\ r.actor = u /\ r.letter = i
  BY DEF Idle, Requests, Ops
<1>2. req' = [req EXCEPT ![t] = r]
  BY DEF ReadInvitation, Begin
<1> HIDE DEF r
<1>3. req'[t] = r
  BY <1>2 DEF OrganizationInv, OrganizationTypeOK
<1>4. /\ UNCHANGED <<owner, member, invitation, business, paying, via, crossed>>
      /\ paying' \subseteq Users /\ crossed' \subseteq Users
      /\ business' \in [Businesses -> {NoListing} \cup [org : Orgs, creator : Users]]
  BY DEF ReadInvitation, records, OrganizationInv, OrganizationTypeOK
<1>5. RequestHolds(t)'
  BY <1>1, <1>3, <1>4 DEF RequestHolds, Managers, Owners, ReadInvitation
<1> QED
  BY <1>1, <1>2, <1>4, <1>5, RequestChanges DEF Provisioners

LEMMA FindOwnListingKeeps ==
  ASSUME OrganizationInv, NEW t \in Threads, NEW u \in Users, NEW b \in Businesses,
         FindOwnListing(t, u, b)
  PROVE  OrganizationInv'
<1> DEFINE r == [Idle EXCEPT !.op = "withdraw", !.actor = u, !.listing = b]
<1>1. r \in Requests /\ r.op = "withdraw" /\ r.actor = u /\ r.listing = b
  BY DEF Idle, Requests, Ops
<1>2. req' = [req EXCEPT ![t] = r]
  BY DEF FindOwnListing, Begin
<1> HIDE DEF r
<1>3. req'[t] = r
  BY <1>2 DEF OrganizationInv, OrganizationTypeOK
<1>4. /\ UNCHANGED <<owner, member, invitation, business, paying, via, crossed>>
      /\ paying' \subseteq Users /\ crossed' \subseteq Users
      /\ business' \in [Businesses -> {NoListing} \cup [org : Orgs, creator : Users]]
  BY DEF FindOwnListing, records, OrganizationInv, OrganizationTypeOK
<1>5. RequestHolds(t)'
  BY <1>1, <1>3 DEF RequestHolds, Managers, Owners
<1> QED
  BY <1>1, <1>2, <1>4, <1>5, RequestChanges DEF Provisioners

\* The requests that end without a new member or letter.
LEMMA FinishKeeps ==
  ASSUME OrganizationInv, NEW t \in Threads,
         \/ CreateBusiness(t) \/ UpdateBusiness(t) \/ DeleteBusiness(t)
         \/ WithdrawListing(t) \/ Abandon(t)
  PROVE  OrganizationInv'
<1>1. business' \in [Businesses -> {NoListing} \cup [org : Orgs, creator : Users]]
  <2>1. business \in [Businesses -> {NoListing} \cup [org : Orgs, creator : Users]]
    BY DEF OrganizationInv, OrganizationTypeOK
  <2>2. CASE CreateBusiness(t)
    <3>1. [org |-> req[t].org, creator |-> req[t].actor] \in [org : Orgs, creator : Users]
      BY <2>2 DEF CreateBusiness, OrganizationInv, RequestsHold, RequestHolds, Managers
    <3> QED
      BY <2>1, <2>2, <3>1 DEF CreateBusiness
  <2>3. CASE UpdateBusiness(t) \/ DeleteBusiness(t) \/ WithdrawListing(t) \/ Abandon(t)
    BY <2>1, <2>3 DEF UpdateBusiness, DeleteBusiness, WithdrawListing, Abandon, records
  <2> QED
    BY <2>2, <2>3
<1> QED
  BY <1>1, EndKeeps
     DEF CreateBusiness, UpdateBusiness, DeleteBusiness, WithdrawListing, Abandon, records

\* The end of a request, for the steps that write more.
LEMMA EndRequests ==
  ASSUME OrganizationInv, NEW t \in Threads, End(t)
  PROVE  /\ req' \in [Threads -> Requests]
         /\ req'[t].op = "idle"
         /\ \A s \in Threads \ {t} : req'[s] = req[s]
  BY IdleRequest DEF End, OrganizationInv, OrganizationTypeOK

\* New row m of the catalog of members.
LEMMA InsertedRow ==
  ASSUME OrganizationInv, NEW m \in Rows, NEW o \in Orgs, NEW u \in Users, NEW role \in Roles,
         NEW i \in Invitations \cup {NoInvitation}, InsertRow(m, o, u, role, i)
  PROVE  /\ member[m].status = "none" /\ via[m] = NoInvitation
         /\ member'[m] = [status |-> "active", org |-> o, user |-> u, role |-> role]
         /\ via'[m] = i
         /\ \A n \in Rows \ {m} : member'[n] = member[n] /\ via'[n] = via[n]
         /\ member' \in [Rows -> {NoRow} \cup
                          [status : {"active", "removed"}, org : Orgs, user : Users, role : Roles]]
         /\ via' \in [Rows -> Invitations \cup {NoInvitation}]
<1>1. member[m].status = "none" /\ via[m] = NoInvitation
  BY DEF InsertRow, NextId, OrganizationInv, ViaUsed
<1> QED
  BY <1>1 DEF InsertRow, OrganizationInv, OrganizationTypeOK

LEMMA ProvisionKeeps ==
  ASSUME OrganizationInv, NEW t \in Threads, Provision(t)
  PROVE  OrganizationInv'
<1> USE DEF OrganizationInv
<1> DEFINE u == req[t].actor
<1>1. PICK o \in Orgs, m \in Rows :
        /\ NextId(o, {p \in Orgs : ~Exists(p)})
        /\ owner' = [owner EXCEPT ![o] = u]
        /\ InsertRow(m, o, u, "owner", NoInvitation)
  BY DEF Provision
<1>2. u \in Users /\ req[t].op = "provision"
  BY DEF Provision, RequestsHold, RequestHolds
<1>3. /\ UNCHANGED <<invitation, business, paying, crossed>>
      /\ End(t)
  BY DEF Provision
<1>4. /\ ~Exists(o) /\ owner'[o] = u /\ u # NoUser
      /\ \A p \in Orgs \ {o} : owner'[p] = owner[p]
      /\ owner' \in [Orgs -> Users \cup {NoUser}]
  BY <1>1, <1>2 DEF NextId, OrganizationTypeOK
<1>5. /\ member[m].status = "none"
      /\ member'[m] = [status |-> "active", org |-> o, user |-> u, role |-> "owner"]
      /\ via[m] = NoInvitation /\ via'[m] = NoInvitation
      /\ \A n \in Rows \ {m} : member'[n] = member[n] /\ via'[n] = via[n]
      /\ member' \in [Rows -> {NoRow} \cup
                       [status : {"active", "removed"}, org : Orgs, user : Users, role : Roles]]
      /\ via' \in [Rows -> Invitations \cup {NoInvitation}]
  BY <1>1, <1>2, InsertedRow DEF Roles
<1> HIDE DEF u
<1>6. OrganizationTypeOK'
  BY <1>3, <1>4, <1>5, EndRequests DEF OrganizationTypeOK
<1>7. RowsBelong' /\ LettersBelong' /\ ViaUsed'
  BY <1>2, <1>3, <1>4, <1>5, MemberRow, Letter DEF RowsBelong, LettersBelong, ViaUsed, Exists
<1>8. OwnerStays'
  <2> SUFFICES ASSUME NEW p \in Orgs, Exists(p)'
               PROVE  \E k \in Rows : /\ IsMember(k, owner[p], p)'
                                      /\ \A n \in Rows : member'[n].org = p /\ member'[n].role = "owner" <=> n = k
    BY DEF OwnerStays
  <2>1. CASE p = o
    <3>1. \A n \in Rows \ {m} : member'[n].org # o
      BY <1>4, <1>5, MemberRow DEF RowsBelong
    <3> QED
      BY <1>4, <1>5, <2>1, <3>1 DEF IsMember
  <2>2. CASE p # o
    <3>1. Exists(p) /\ owner'[p] = owner[p]
      BY <1>4, <2>2 DEF Exists
    <3>2. PICK k \in Rows : /\ IsMember(k, owner[p], p)
                            /\ \A n \in Rows : member[n].org = p /\ member[n].role = "owner" <=> n = k
      BY <3>1 DEF OwnerStays
    <3>3. k # m /\ member[m].org # p
      BY <1>5, <3>2, MemberRow DEF IsMember
    <3> QED
      BY <1>5, <2>2, <3>1, <3>2, <3>3 DEF IsMember
  <2> QED
    BY <2>1, <2>2
<1>9. MembershipIsInvited'
  BY <1>3, <1>5 DEF MembershipIsInvited
<1>10. SingleOrganization' /\ FirstOne'
  <2>1. u \in crossed \/ \A p \in Orgs : owner[p] # u
    BY <1>2 DEF FirstOne, u
  <2>2. \A s \in Threads \ {t} : req[s].op = "provision" => u \in crossed \/ req[s].actor # u
    BY <1>2 DEF Alone, Provisioners, u
  <2>3. SingleOrganization'
    BY <1>3, <1>4, <2>1 DEF SingleOrganization, Exists
  <2>4. FirstOne'
    BY <1>3, <1>4, <2>2, EndRequests DEF FirstOne
  <2> QED
    BY <2>3, <2>4
<1>11. RequestsHold' /\ Alone'
  <2>1. RequestsHold'
    BY <1>3, <1>4, EndRequests DEF RequestsHold, RequestHolds, Exists, Managers, Owners
  <2>2. Alone'
    BY <1>3, EndRequests DEF Alone, Provisioners
  <2> QED
    BY <2>1, <2>2
<1> QED
  BY <1>6, <1>7, <1>8, <1>9, <1>10, <1>11

LEMMA InviteKeeps ==
  ASSUME OrganizationInv, NEW t \in Threads, Invite(t)
  PROVE  OrganizationInv'
<1> USE DEF OrganizationInv
<1> DEFINE o == req[t].org
<1>1. PICK i \in Invitations, u \in Users, role \in Invitable :
        /\ NextId(i, {j \in Invitations : invitation[j].status = "none"})
        /\ invitation' = [invitation EXCEPT ![i] =
              [status |-> "pending", org |-> o, phone |-> u, role |-> role, expired |-> FALSE]]
  BY DEF Invite
<1>2. o \in Orgs /\ Exists(o)
  BY DEF Invite, RequestsHold, RequestHolds, Managers
<1>3. UNCHANGED <<owner, member, business, paying, via, crossed>> /\ End(t)
  BY DEF Invite
<1> HIDE DEF o
<1>4. /\ invitation[i].status = "none"
      /\ invitation'[i] = [status |-> "pending", org |-> o, phone |-> u, role |-> role, expired |-> FALSE]
      /\ \A j \in Invitations \ {i} : invitation'[j] = invitation[j]
      /\ invitation' \in [Invitations -> {NoLetter} \cup
                           [status : {"pending", "accepted"}, org : Orgs, phone : Users,
                            role : Invitable, expired : BOOLEAN]]
  BY <1>1, <1>2 DEF NextId, OrganizationTypeOK
<1>5. OrganizationTypeOK'
  BY <1>3, <1>4, EndRequests DEF OrganizationTypeOK
<1>6. RowsBelong' /\ LettersBelong' /\ ViaUsed' /\ OwnerStays'
  BY <1>2, <1>3, <1>4 DEF RowsBelong, LettersBelong, ViaUsed, OwnerStays, Exists, IsMember
<1>7. MembershipIsInvited'
  BY <1>3, <1>4 DEF MembershipIsInvited, OrganizationTypeOK
<1>8. SingleOrganization' /\ Alone' /\ FirstOne'
  BY <1>3, EndRequests DEF SingleOrganization, Exists, Alone, FirstOne, Provisioners
<1>9. RequestsHold'
  BY <1>3, <1>4, EndRequests DEF RequestsHold, RequestHolds, Exists, Managers, Owners
<1> QED
  BY <1>5, <1>6, <1>7, <1>8, <1>9

LEMMA AcceptKeeps ==
  ASSUME OrganizationInv, NEW t \in Threads, Accept(t)
  PROVE  OrganizationInv'
<1> USE DEF OrganizationInv
<1> DEFINE i == req[t].letter
           o == invitation[i].org
           u == req[t].actor
<1>1. /\ i \in Invitations /\ u \in Users /\ invitation[i].phone = u
      /\ invitation[i].status = "pending"
  BY DEF Accept, RequestsHold, RequestHolds
<1>2. /\ o \in Orgs /\ Exists(o) /\ invitation[i].role \in Roles /\ invitation[i].role # "owner"
      /\ i # NoInvitation
  BY <1>1, Letter DEF LettersBelong, Roles, Invitable, NoInvitation
<1>3. PICK m \in Rows : InsertRow(m, o, u, invitation[i].role, i)
  BY DEF Accept
<1>4. /\ UNCHANGED <<owner, business, paying, crossed>> /\ End(t)
      /\ invitation' = [invitation EXCEPT ![i].status = "accepted"]
  BY DEF Accept
<1>5. /\ member[m].status = "none" /\ via[m] = NoInvitation
      /\ member'[m] = [status |-> "active", org |-> o, user |-> u, role |-> invitation[i].role]
      /\ via'[m] = i
      /\ \A n \in Rows \ {m} : member'[n] = member[n] /\ via'[n] = via[n]
      /\ member' \in [Rows -> {NoRow} \cup
                       [status : {"active", "removed"}, org : Orgs, user : Users, role : Roles]]
      /\ via' \in [Rows -> Invitations \cup {NoInvitation}]
  BY <1>1, <1>2, <1>3, InsertedRow
<1>6. /\ invitation'[i].status = "accepted"
      /\ invitation'[i].org = o /\ invitation'[i].phone = u
      /\ \A j \in Invitations \ {i} : invitation'[j] = invitation[j]
      /\ invitation' \in [Invitations -> {NoLetter} \cup
                           [status : {"pending", "accepted"}, org : Orgs, phone : Users,
                            role : Invitable, expired : BOOLEAN]]
  <2>1. invitation[i] \in [status : {"pending", "accepted"}, org : Orgs, phone : Users,
                           role : Invitable, expired : BOOLEAN]
    BY <1>1, Letter
  <2> DEFINE letter == [invitation[i] EXCEPT !.status = "accepted"]
  <2>2. /\ letter \in [status : {"pending", "accepted"}, org : Orgs, phone : Users,
                       role : Invitable, expired : BOOLEAN]
        /\ letter.status = "accepted" /\ letter.org = o /\ letter.phone = u
    BY <1>1, <2>1
  <2>3. invitation' = [invitation EXCEPT ![i] = letter]
    BY <1>1, <1>4 DEF OrganizationTypeOK
  <2> HIDE DEF letter
  <2> QED
    BY <1>1, <2>2, <2>3 DEF OrganizationTypeOK
<1> HIDE DEF i, o, u
<1>7. OrganizationTypeOK'
  BY <1>4, <1>5, <1>6, EndRequests DEF OrganizationTypeOK
<1>8. RowsBelong' /\ LettersBelong' /\ ViaUsed'
  BY <1>1, <1>2, <1>4, <1>5, <1>6 DEF RowsBelong, LettersBelong, ViaUsed, Exists
<1>9. OwnerStays'
  <2> SUFFICES ASSUME NEW p \in Orgs, Exists(p)
               PROVE  \E k \in Rows : /\ IsMember(k, owner[p], p)'
                                      /\ \A n \in Rows : member'[n].org = p /\ member'[n].role = "owner" <=> n = k
    BY <1>4 DEF OwnerStays, Exists
  <2>1. PICK k \in Rows : /\ IsMember(k, owner[p], p)
                          /\ \A n \in Rows : member[n].org = p /\ member[n].role = "owner" <=> n = k
    BY DEF OwnerStays
  <2>2. k # m
    BY <1>5, <2>1 DEF IsMember
  <2> QED
    BY <1>2, <1>4, <1>5, <2>1, <2>2 DEF IsMember
<1>10. MembershipIsInvited'
  <2>1. \A n \in Rows : via[n] # i
    BY <1>1, <1>2 DEF MembershipIsInvited, ViaUsed
  <2>2. \A j \in Invitations : invitation[j].status = "accepted" => invitation'[j] = invitation[j]
    BY <1>1, <1>6
  <2>3. \A n \in Rows : via[n] \in Invitations \cup {NoInvitation}
    BY DEF OrganizationTypeOK
  <2>4. \A n \in Rows : member'[n].status # "none" /\ member'[n].role # "owner" =>
          /\ via'[n] # NoInvitation
          /\ invitation'[via'[n]].status = "accepted"
          /\ invitation'[via'[n]].org = member'[n].org
          /\ invitation'[via'[n]].phone = member'[n].user
    BY <1>2, <1>5, <1>6, <2>2, <2>3 DEF MembershipIsInvited
  <2>5. \A n, k \in Rows : via'[n] = via'[k] /\ via'[n] # NoInvitation => n = k
    BY <1>5, <2>1 DEF MembershipIsInvited
  <2> QED
    BY <2>4, <2>5 DEF MembershipIsInvited
<1>11. SingleOrganization' /\ Alone' /\ FirstOne'
  BY <1>4, EndRequests DEF SingleOrganization, Exists, Alone, FirstOne, Provisioners
<1>12. RequestsHold'
  <2>1. \A j \in Invitations : invitation[j].status # "none" =>
          invitation'[j].status # "none" /\ invitation'[j].phone = invitation[j].phone
    BY <1>1, <1>6
  <2> QED
    BY <1>4, <2>1, EndRequests DEF RequestsHold, RequestHolds, Exists, Managers, Owners
<1> QED
  BY <1>7, <1>8, <1>9, <1>10, <1>11, <1>12

\* A row that is not the owner's gets another role or is removed.
LEMMA MemberChanges ==
  ASSUME OrganizationInv, NEW t \in Threads, ChangeMemberRole(t) \/ RemoveMember(t)
  PROVE  OrganizationInv'
<1> USE DEF OrganizationInv
<1>1. PICK m \in Targets(req[t].org) :
        \/ \E role \in Invitable : member' = [member EXCEPT ![m].role = role]
        \/ member' = [member EXCEPT ![m].status = "removed"]
  BY DEF ChangeMemberRole, RemoveMember
<1>2. UNCHANGED <<owner, invitation, business, paying, via, crossed>> /\ End(t)
  BY DEF ChangeMemberRole, RemoveMember
<1>3. m \in Rows /\ member[m].status = "active" /\ member[m].role # "owner"
  BY DEF Targets
<1>4. /\ member'[m] \in [status : {"active", "removed"}, org : Orgs, user : Users, role : Invitable \cup Roles]
      /\ member'[m].org = member[m].org /\ member'[m].user = member[m].user
      /\ member'[m].role # "owner" /\ member'[m].status # "none"
      /\ \A n \in Rows \ {m} : member'[n] = member[n]
      /\ member' \in [Rows -> {NoRow} \cup
                       [status : {"active", "removed"}, org : Orgs, user : Users, role : Roles]]
  <2>1. /\ member[m] \in [status : {"active", "removed"}, org : Orgs, user : Users, role : Roles]
        /\ member \in [Rows -> {NoRow} \cup
                        [status : {"active", "removed"}, org : Orgs, user : Users, role : Roles]]
    BY <1>3, MemberRow DEF OrganizationTypeOK
  <2>2. CASE \E role \in Invitable : member' = [member EXCEPT ![m].role = role]
    BY <1>3, <2>1, <2>2 DEF Roles, Invitable
  <2>3. CASE member' = [member EXCEPT ![m].status = "removed"]
    BY <1>3, <2>1, <2>3
  <2> QED
    BY <1>1, <2>2, <2>3
<1>5. OrganizationTypeOK'
  BY <1>2, <1>4, EndRequests DEF OrganizationTypeOK
<1>6. RowsBelong' /\ LettersBelong' /\ ViaUsed'
  BY <1>2, <1>3, <1>4 DEF RowsBelong, LettersBelong, ViaUsed, Exists
<1>7. OwnerStays'
  <2> SUFFICES ASSUME NEW p \in Orgs, Exists(p)
               PROVE  \E k \in Rows : /\ IsMember(k, owner[p], p)'
                                      /\ \A n \in Rows : member'[n].org = p /\ member'[n].role = "owner" <=> n = k
    BY <1>2 DEF OwnerStays, Exists
  <2>1. PICK k \in Rows : /\ IsMember(k, owner[p], p)
                          /\ \A n \in Rows : member[n].org = p /\ member[n].role = "owner" <=> n = k
    BY DEF OwnerStays
  <2>2. k # m
    BY <1>3, <2>1
  <2> QED
    BY <1>2, <1>3, <1>4, <2>1, <2>2 DEF IsMember
<1>8. MembershipIsInvited'
  BY <1>2, <1>3, <1>4 DEF MembershipIsInvited
<1>9. SingleOrganization' /\ Alone' /\ FirstOne'
  BY <1>2, EndRequests DEF SingleOrganization, Exists, Alone, FirstOne, Provisioners
<1>10. RequestsHold'
  BY <1>2, EndRequests DEF RequestsHold, RequestHolds, Exists, Managers, Owners
<1> QED
  BY <1>5, <1>6, <1>7, <1>8, <1>9, <1>10

\* Time passes, or the admin deletes a business.
LEMMA TimeKeeps ==
  ASSUME OrganizationInv,
         \/ \E i \in Invitations : Expire(i)
         \/ \E b \in Businesses : DeleteByAdmin(b)
         \/ \E u \in Users : Lapse(u)
  PROVE  OrganizationInv'
<1> USE DEF OrganizationInv
<1>1. CASE \E i \in Invitations : Expire(i)
  <2> PICK i \in Invitations : Expire(i)
    BY <1>1
  <2>1. UNCHANGED <<owner, member, business, paying, req, via, crossed>>
    BY DEF Expire
  <2>2. /\ invitation' \in [Invitations -> {NoLetter} \cup
                             [status : {"pending", "accepted"}, org : Orgs, phone : Users,
                              role : Invitable, expired : BOOLEAN]]
        /\ \A j \in Invitations : /\ invitation'[j].status = invitation[j].status
                                  /\ invitation'[j].org = invitation[j].org
                                  /\ invitation'[j].phone = invitation[j].phone
    BY Letter DEF Expire, OrganizationTypeOK
  <2>3. OrganizationTypeOK'
    BY <2>1, <2>2 DEF OrganizationTypeOK
  <2>4. RowsBelong' /\ LettersBelong' /\ ViaUsed' /\ OwnerStays' /\ SingleOrganization' /\ Alone' /\ FirstOne'
    BY <2>1, <2>2 DEF RowsBelong, LettersBelong, ViaUsed, OwnerStays, SingleOrganization, Alone,
                      FirstOne, Exists, IsMember
  <2>5. MembershipIsInvited'
    BY <2>1, <2>2 DEF MembershipIsInvited, OrganizationTypeOK
  <2>6. RequestsHold'
    BY <2>1, <2>2 DEF RequestsHold, RequestHolds, Exists
  <2> QED
    BY <2>3, <2>4, <2>5, <2>6
<1>2. CASE \E u \in Users : Lapse(u)
  <2>1. /\ UNCHANGED <<owner, member, invitation, business, req, via, crossed>>
        /\ paying' \subseteq Users
    BY <1>2 DEF Lapse, OrganizationTypeOK
  <2>2. OrganizationTypeOK'
    BY <2>1 DEF OrganizationTypeOK
  <2> QED
    BY <2>1, <2>2 DEF RowsBelong, LettersBelong, ViaUsed, OwnerStays, SingleOrganization, Alone, FirstOne,
                      Exists, IsMember, MembershipIsInvited, RequestsHold, RequestHolds
<1>3. CASE \E b \in Businesses : DeleteByAdmin(b)
  <2>1. /\ UNCHANGED <<owner, member, invitation, paying, req, via, crossed>>
        /\ business' \in [Businesses -> {NoListing} \cup [org : Orgs, creator : Users]]
    BY <1>3 DEF DeleteByAdmin, OrganizationTypeOK
  <2>2. OrganizationTypeOK'
    BY <2>1 DEF OrganizationTypeOK
  <2> QED
    BY <2>1, <2>2 DEF RowsBelong, LettersBelong, ViaUsed, OwnerStays, SingleOrganization, Alone, FirstOne,
                      Exists, IsMember, MembershipIsInvited, RequestsHold, RequestHolds
<1> QED
  BY <1>1, <1>2, <1>3

\* The inductive invariant of organizations.
THEOREM OrganizationInvariance == Spec => []OrganizationInv
<1>1. OrganizationInv /\ [Next]_vars => OrganizationInv'
  <2> SUFFICES ASSUME OrganizationInv, [Next]_vars PROVE OrganizationInv'
    OBVIOUS
  <2>1. CASE UNCHANGED vars
    BY <2>1 DEF vars, OrganizationInv, OrganizationTypeOK, RowsBelong, LettersBelong, ViaUsed, OwnerStays,
                SingleOrganization, Alone, FirstOne, Exists, IsMember, MembershipIsInvited,
                RequestsHold, RequestHolds
  <2>2. CASE \E t \in Threads : Request(t)
    BY <2>2, ActivatePlanKeeps, LookUpKeeps, ProvisionKeeps, AuthorizeKeeps, InviteKeeps,
       ReadInvitationKeeps, AcceptKeeps, MemberChanges, FindOwnListingKeeps, FinishKeeps DEF Request
  <2> QED
    BY <2>1, <2>2, TimeKeeps DEF Next
<1> QED
  BY <1>1, InitInv, PTL DEF Spec

\* Type correctness of organizations.
THEOREM OrganizationTypeCorrect == Spec => []OrganizationTypeOK
  BY OrganizationInvariance, PTL DEF OrganizationInv

\* An organization keeps exactly one active owner, the user it was created for
\* (change_member_role and remove_member never touch the owner's row).
THEOREM OwnerStaysAlways == Spec => []OwnerStays
  BY OrganizationInvariance, PTL DEF OrganizationInv

\* Every other member came by an invitation of that organization to that phone,
\* and an invitation makes one row at most (accept_invitation).
THEOREM MembershipIsInvitedAlways == Spec => []MembershipIsInvited
  BY OrganizationInvariance, PTL DEF OrganizationInv

\* A second organization of a user needs two overlapping activations
\* (ensure_organization_for_user).
THEOREM SingleOrganizationAlways == Spec => []SingleOrganization
  BY OrganizationInvariance, PTL DEF OrganizationInv

\* A step that changes an active row is a request of the owner.
LEMMA RowChangedByOwner ==
  ASSUME OrganizationInv, Next, NEW m \in Rows, member[m].status = "active", member'[m] # member[m]
  PROVE  EndsFor(owner[member[m].org], {"role", "remove"})
<1>1. PICK t \in Threads : Request(t)
  BY DEF Next, Expire, DeleteByAdmin, Lapse
<1>2. ~Provision(t) /\ ~Accept(t)
  BY DEF Provision, Accept, InsertRow, NextId, OrganizationInv, OrganizationTypeOK
<1>3. ChangeMemberRole(t) \/ RemoveMember(t)
  BY <1>1, <1>2 DEF Request, ActivatePlan, LookUp, Authorize, Invite, ReadInvitation, CreateBusiness,
                    AuthorizeListing, UpdateBusiness, DeleteBusiness, FindOwnListing, WithdrawListing,
                    Abandon, records
<1>4. member[m].org = req[t].org
  BY <1>3 DEF ChangeMemberRole, RemoveMember, Targets, OrganizationInv, OrganizationTypeOK
<1>5. req[t].op \in {"role", "remove"} /\ req'[t] = Idle
  BY <1>3 DEF ChangeMemberRole, RemoveMember, End, OrganizationInv, OrganizationTypeOK
<1>6. req[t].actor = owner[req[t].org]
  BY <1>5 DEF OrganizationInv, RequestsHold, RequestHolds, Owners
<1> QED
  BY <1>4, <1>5, <1>6 DEF EndsFor

\* A step that changes a business deletes it, for its owner, its creator or the admin.
LEMMA BusinessDeleted ==
  ASSUME OrganizationInv, Next, NEW b \in Businesses, business[b] # NoListing, business'[b] # business[b]
  PROVE  /\ business'[b] = NoListing
         /\ \/ EndsFor(owner[business[b].org], {"delete"})
            \/ EndsFor(business[b].creator, {"withdraw"})
            \/ UNCHANGED req
<1>1. CASE \E c \in Businesses : DeleteByAdmin(c)
  BY <1>1 DEF DeleteByAdmin, OrganizationInv, OrganizationTypeOK
<1>2. CASE \E t \in Threads : Request(t)
  <2> PICK t \in Threads : Request(t)
    BY <1>2
  <2>1. ~CreateBusiness(t)
    BY DEF CreateBusiness, OrganizationInv, OrganizationTypeOK
  <2>2. DeleteBusiness(t) \/ WithdrawListing(t)
    BY <2>1 DEF Request, ActivatePlan, LookUp, Provision, Authorize, Invite, ReadInvitation, Accept,
                ChangeMemberRole, RemoveMember, AuthorizeListing, UpdateBusiness, FindOwnListing,
                Abandon, records
  <2>3. req[t].listing = b /\ business'[b] = NoListing /\ req'[t] = Idle
    BY <2>2 DEF DeleteBusiness, WithdrawListing, End, OrganizationInv, OrganizationTypeOK
  <2>4. CASE DeleteBusiness(t)
    <3>1. req[t].op = "delete" /\ business[b].org = req[t].org
      BY <2>3, <2>4 DEF DeleteBusiness, Present
    <3>2. req[t].actor = owner[business[b].org]
      BY <3>1 DEF OrganizationInv, RequestsHold, RequestHolds, Owners
    <3> QED
      BY <2>3, <3>1, <3>2 DEF EndsFor
  <2>5. CASE WithdrawListing(t)
    BY <2>3, <2>5 DEF WithdrawListing, EndsFor
  <2> QED
    BY <2>2, <2>4, <2>5
<1> QED
  BY <1>1, <1>2 DEF Next, Expire, Lapse

\* Rows of members change only by requests of the owner of their own organization
\* (authorize_organization), and so do businesses, but for the two deletions that
\* do not ask the organization: by their creator (delete_listing) and by the admin
\* (delete_listing_admin).
THEOREM ManagedByOwnerAlways == Spec => ManagedByOwner
<1>1. OrganizationInv /\ [Next]_vars =>
        [/\ \A m \in Rows : member[m].status = "active" /\ member'[m] # member[m] =>
              EndsFor(owner[member[m].org], {"role", "remove"})
         /\ \A b \in Businesses : business[b] # NoListing /\ business'[b] # business[b] =>
              /\ business'[b] = NoListing
              /\ \/ EndsFor(owner[business[b].org], {"delete"})
                 \/ EndsFor(business[b].creator, {"withdraw"})
                 \/ UNCHANGED req]_vars
  BY RowChangedByOwner, BusinessDeleted
<1> QED
  BY <1>1, OrganizationInvariance, PTL DEF Spec, ManagedByOwner
=============================================================================
