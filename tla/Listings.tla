------------------------------ MODULE Listings ------------------------------
(***************************************************************************)
(* Marketplace listings: creation up to the limit of the plan              *)
(* (routes/listing_routes.py), moderation and sponsorship by the admin     *)
(* (services/admin_service.py, services/sponsorship.py), and reviews with  *)
(* the rating kept in the listing (services/listing_service.py).           *)
(*                                                                         *)
(* A transaction reads the committed state at the start of each of its     *)
(* statements (READ COMMITTED) and holds the rows it wrote until it        *)
(* commits.  PostgreSQL's rules are in the guards: a row in use, a unique  *)
(* index, a foreign key that refuses to lose its row.                      *)
(***************************************************************************)
EXTENDS Naturals, FiniteSets

CONSTANTS
    Users,
    Ids,            \* ids of listings
    Threads,        \* requests under way at one time
    MaxStars,       \* the best rating
    MaxLimit,       \* bound: the highest allowance, of a plan or free
    MaxApproved,    \* bound: listings approved at one time
    NoUser,
    NoListing

VARIABLES
    listing,        \* [Ids -> the row of listings]
    allowance,      \* [Users -> business_limit and the extra slots of the user]
    floor,          \* free_listing_limit of admin_settings
    review,         \* [Ids -> [Users -> stars]], 0 when there is no review
    shown,          \* [Ids -> the reviews its rating and counts are taken from]
    ad,             \* [Ids -> sponsored_ads: none, live or expired]
    sweep,          \* listings that a running cleanup has selected
    req,            \* [Threads -> the request between its statements]
    raced,          \* history: listings whose rating missed a review
    granted         \* history: listings granted a window during a cleanup

limitVars == <<allowance, floor>>
reviewVars == <<review, shown, raced>>
adVars == <<ad, sweep, granted>>
vars == <<listing, limitVars, req, reviewVars, adVars>>

ASSUME ListingAssumption ==
    /\ NoUser \notin Users
    /\ NoListing \notin Ids
    /\ MaxStars \in Nat \ {0}
    /\ {MaxLimit, MaxApproved} \subseteq Nat

Stars == 0 .. MaxStars
NoReviews == [u \in Users |-> 0]
Unused == [status |-> "unused", user |-> NoUser, active |-> FALSE, flag |-> FALSE]
\* floor: the free allowance a creation has read; seen: the reviews a rating has.
Idle == [step |-> "idle", user |-> NoUser, floor |-> 0, id |-> NoListing, stars |-> 0,
         seen |-> NoReviews, overlapped |-> FALSE]
Requests == [step : {"idle", "create", "review", "recalc", "store"}, user : Users \cup {NoUser}, floor : Nat,
             id : Ids \cup {NoListing}, stars : Stars, seen : [Users -> Stars], overlapped : BOOLEAN]

Init ==
    /\ listing = [l \in Ids |-> Unused]
    /\ allowance = [u \in Users |-> 0]
    /\ floor = 1
    /\ review = [l \in Ids |-> NoReviews]
    /\ shown = [l \in Ids |-> NoReviews]
    /\ ad = [l \in Ids |-> "none"]
    /\ sweep = {}
    /\ req = [t \in Threads |-> Idle]
    /\ raced = {}
    /\ granted = {}

Present(l) == listing[l].status \in {"pending", "approved"}
Open(l) == listing[l].status = "approved" /\ listing[l].active
Owned(u) == {l \in Ids : Present(l) /\ listing[l].user = u}

End(t) == req' = [req EXCEPT ![t] = Idle]

-----------------------------------------------------------------------------
(* Creation.                                                               *)

\* The row of the user is held FOR UPDATE.
UserLocked(u) == \E t \in Threads : req[t].step = "create" /\ req[t].user = u

Insert(u) ==
    \E l \in Ids :
        /\ listing[l] = Unused
        /\ listing' = [listing EXCEPT ![l] =
                [status |-> "pending", user |-> u, active |-> TRUE, flag |-> FALSE]]

\* get_business_limit_for_user, with a free allowance of f.
Ceiling(u, f) == IF allowance[u] > f THEN allowance[u] ELSE f

\* Slip: the user is read without FOR UPDATE.
CountListings_Unlocked(t, u) ==
    /\ req[t] = Idle
    /\ Cardinality(Owned(u)) < Ceiling(u, floor)
    /\ req' = [req EXCEPT ![t] = [Idle EXCEPT !.step = "create", !.user = u, !.floor = floor]]
    /\ UNCHANGED <<listing, limitVars, reviewVars, adVars>>

\* api_create_listing takes the user's row, counts, and reads the free allowance;
\* above the limit it answers and lets go.
CountListings(t, u) ==
    /\ req[t] = Idle
    /\ ~UserLocked(u)
    /\ Cardinality(Owned(u)) < Ceiling(u, floor)
    /\ req' = [req EXCEPT ![t] = [Idle EXCEPT !.step = "create", !.user = u, !.floor = floor]]
    /\ UNCHANGED <<listing, limitVars, reviewVars, adVars>>

CreateListing(t) ==
    /\ req[t].step = "create"
    /\ Insert(req[t].user)
    /\ End(t)
    /\ UNCHANGED <<limitVars, reviewVars, adVars>>

\* create_organization_business has no limit, but its row names the creator: the
\* foreign key waits for the creator's row, and the row counts from then on.
CreateForOrganization(u) ==
    /\ ~UserLocked(u)
    /\ Insert(u)
    /\ UNCHANGED <<limitVars, req, reviewVars, adVars>>

\* An activation, an extra slot or an expired plan updates the user's row.
ChangeAllowance(u) ==
    /\ ~UserLocked(u)
    /\ \E n \in (0 .. MaxLimit) \ {allowance[u]} : allowance' = [allowance EXCEPT ![u] = n]
    /\ UNCHANGED <<listing, floor, req, reviewVars, adVars>>

\* update_setting writes free_listing_limit, for every user and under no lock of
\* theirs.
ChangeFloor ==
    /\ floor' \in (0 .. MaxLimit) \ {floor}
    /\ UNCHANGED <<listing, allowance, req, reviewVars, adVars>>

-----------------------------------------------------------------------------
(* Moderation.                                                             *)

\* approve_listing_admin.
Approve(l) ==
    /\ listing[l].status = "pending" /\ listing[l].active
    /\ Cardinality({k \in Ids : listing[k].status = "approved"}) < MaxApproved
    /\ listing' = [listing EXCEPT ![l].status = "approved"]
    /\ UNCHANGED <<limitVars, req, reviewVars, adVars>>

\* disable_listing_admin: nothing in the code enables it again.
Disable(l) ==
    /\ Present(l) /\ listing[l].active
    /\ listing' = [listing EXCEPT ![l].active = FALSE]
    /\ UNCHANGED <<limitVars, req, reviewVars, adVars>>

Reviewing(l) == {t \in Threads : req[t].id = l /\ req[t].step \in {"recalc", "store"}}

\* delete_listing and delete_listing_admin: the foreign keys of reviews and
\* sponsored_ads refuse a listing that has any, or wait for a writer of one.
Delete(l) ==
    /\ Present(l)
    /\ review[l] = NoReviews
    /\ ad[l] = "none"
    /\ Reviewing(l) = {}
    /\ listing' = [listing EXCEPT ![l] = [Unused EXCEPT !.status = "deleted"]]
    /\ sweep' = sweep \ {l}
    /\ UNCHANGED <<limitVars, req, reviewVars, ad, granted>>

-----------------------------------------------------------------------------
(* Reviews: the row is written, the rating computed from a snapshot, and   *)
(* both are committed.                                                     *)

\* add_review_service looks at the listing and for an earlier review.
BeginReview(t, u, l, stars) ==
    /\ req[t] = Idle
    /\ Open(l)
    /\ review[l][u] = 0
    /\ req' = [req EXCEPT ![t] = [Idle EXCEPT !.step = "review", !.user = u, !.id = l, !.stars = stars]]
    /\ UNCHANGED <<listing, limitVars, reviewVars, adVars>>

\* The review of u is held by a transaction that has written it.
RowInUse(l, u) == \E t \in Reviewing(l) : req[t].user = u

\* The unique index waits for a rival, then refuses; the foreign key refuses a
\* listing deleted meanwhile.  A refused insert abandons the request.
InsertReview(t) ==
    /\ req[t].step = "review"
    /\ ~RowInUse(req[t].id, req[t].user)
    /\ review[req[t].id][req[t].user] = 0
    /\ Present(req[t].id)
    /\ req' = [req EXCEPT ![t].step = "recalc"]
    /\ UNCHANGED <<listing, limitVars, reviewVars, adVars>>

\* update_review_service, and with no stars delete_review_service.
ChangeReview(t, u, l, stars) ==
    /\ req[t] = Idle
    /\ review[l][u] # 0
    /\ ~RowInUse(l, u)
    /\ req' = [req EXCEPT ![t] = [Idle EXCEPT !.step = "recalc", !.user = u, !.id = l, !.stars = stars]]
    /\ UNCHANGED <<listing, limitVars, reviewVars, adVars>>

\* Slip: the rating is computed before the review is written.
Recalc_Before(t) ==
    /\ req[t].step = "recalc"
    /\ req' = [req EXCEPT ![t].step = "store", ![t].seen = review[req[t].id]]
    /\ UNCHANGED <<listing, limitVars, reviewVars, adVars>>

\* _recalc_listing_ratings starts: its subqueries see what is committed by now
\* and the transaction's own review, also when it must wait for the listing.
Recalc(t) ==
    /\ req[t].step = "recalc"
    /\ req' = [req EXCEPT ![t].step = "store",
                          ![t].seen = [review[req[t].id] EXCEPT ![req[t].user] = req[t].stars]]
    /\ UNCHANGED <<listing, limitVars, reviewVars, adVars>>

\* The listing is written and the transaction commits.
CommitReview(t) ==
    LET l == req[t].id IN
    /\ req[t].step = "store"
    /\ review' = [review EXCEPT ![l][req[t].user] = req[t].stars]
    /\ shown' = [shown EXCEPT ![l] = req[t].seen]
    /\ raced' = IF req[t].overlapped THEN raced \cup {l} ELSE raced \ {l}
    /\ req' = [s \in Threads |->
                 IF s = t THEN Idle
                 ELSE IF s \in Reviewing(l) THEN [req[s] EXCEPT !.overlapped = TRUE] ELSE req[s]]
    /\ UNCHANGED <<listing, limitVars, adVars>>

-----------------------------------------------------------------------------
(* Sponsorship.                                                            *)

\* sponsor_listing_admin: the flag and a window of 30 days in one transaction.
Sponsor(l) ==
    /\ Open(l)
    /\ listing' = [listing EXCEPT ![l].flag = TRUE]
    /\ ad' = [ad EXCEPT ![l] = "live"]
    /\ granted' = IF l \in sweep THEN granted \cup {l} ELSE granted \ {l}
    /\ UNCHANGED <<limitVars, sweep, req, reviewVars>>

\* The end_date of the last window passes.
WindowEnds(l) ==
    /\ ad[l] = "live"
    /\ ad' = [ad EXCEPT ![l] = "expired"]
    /\ UNCHANGED <<listing, limitVars, sweep, granted, req, reviewVars>>

\* Slip: the end of the window is not looked at.
Stale_Any(l) == Present(l) /\ listing[l].flag

\* CLEANUP_EXPIRED_SQL selects the listings with a flag and no window left ...
Stale(l) == Present(l) /\ listing[l].flag /\ ad[l] # "live"

BeginCleanup ==
    /\ sweep = {}
    /\ sweep' = {l \in Ids : Stale(l)}
    /\ UNCHANGED <<listing, limitVars, ad, granted, req, reviewVars>>

\* ... and clears those whose rows it gets (SKIP LOCKED), by what it saw.
FinishCleanup ==
    \E S \in SUBSET sweep :
        /\ sweep # {}
        /\ listing' = [l \in Ids |-> IF l \in S THEN [listing[l] EXCEPT !.flag = FALSE] ELSE listing[l]]
        /\ sweep' = {}
        /\ UNCHANGED <<limitVars, ad, granted, req, reviewVars>>

-----------------------------------------------------------------------------

\* Refused, failed or rolled back.
Abandon(t) ==
    /\ req[t] # Idle
    /\ End(t)
    /\ UNCHANGED <<listing, limitVars, reviewVars, adVars>>

Request(t) ==
    \/ \E u \in Users : CountListings(t, u)
    \/ CreateListing(t)
    \/ \E u \in Users, l \in Ids, stars \in Stars \ {0} : BeginReview(t, u, l, stars)
    \/ InsertReview(t)
    \/ \E u \in Users, l \in Ids, stars \in Stars : ChangeReview(t, u, l, stars)
    \/ Recalc(t)
    \/ CommitReview(t)
    \/ Abandon(t)

Next ==
    \/ \E t \in Threads : Request(t)
    \/ \E u \in Users : CreateForOrganization(u) \/ ChangeAllowance(u)
    \/ ChangeFloor
    \/ \E l \in Ids : Approve(l) \/ Disable(l) \/ Delete(l) \/ Sponsor(l) \/ WindowEnds(l)
    \/ BeginCleanup
    \/ FinishCleanup

Spec == Init /\ [][Next]_vars

-----------------------------------------------------------------------------
(* What listings promise.                                                  *)

ListingTypeOK ==
    /\ listing \in [Ids -> [status : {"unused", "pending", "approved", "deleted"},
                            user : Users \cup {NoUser}, active : BOOLEAN, flag : BOOLEAN]]
    /\ allowance \in [Users -> Nat]
    /\ floor \in Nat
    /\ review \in [Ids -> [Users -> Stars]]
    /\ shown \in [Ids -> [Users -> Stars]]
    /\ ad \in [Ids -> {"none", "live", "expired"}]
    /\ req \in [Threads -> Requests]
    /\ sweep \subseteq Ids
    /\ raced \subseteq Ids
    /\ granted \subseteq Ids

\* However many requests of one user create at a time, and whatever is activated,
\* deleted or created for an organization meanwhile, a personal listing appears only
\* while the user has less than the limit.  The plan, the extra slots and the
\* listings count as they are when it appears; only the free allowance is the one the
\* request has read, and the admin may have lowered it since.
LimitHolds ==
    [][\A t \in Threads : req[t].step = "create" /\ listing' # listing /\ req'[t] = Idle =>
         Cardinality(Owned(req[t].user)) < Ceiling(req[t].user, req[t].floor)]_vars

\* The rating and the counts of a listing are those of its reviews, whatever
\* reviews, changes and removals ran, unless two of them overlapped; the next one
\* that runs alone repairs them.
RatingIsCurrent == \A l \in Ids : shown[l] = review[l] \/ l \in raced

\* Through a whole window the listing keeps the flag that shows it, and it is never
\* lost to a cleanup, except to one that had selected the listing before the grant.
GrantIsShown == \A l \in Ids : ad[l] = "live" => listing[l].flag \/ l \in granted
=============================================================================
