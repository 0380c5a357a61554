--------------------------- MODULE ListingsProofs ---------------------------
(***************************************************************************)
(* Proofs about module Listings, for any users, listings, limits, ratings  *)
(* and concurrent requests.                                                *)
(***************************************************************************)
EXTENDS Listings, FiniteSetTheorems, TLAPS

USE ListingAssumption

\* The rows of listings.
ListingRows == [status : {"unused", "pending", "approved", "deleted"},
                user : Users \cup {NoUser}, active : BOOLEAN, flag : BOOLEAN]
USE DEF ListingRows

\* The listings of a user can be counted.
OwnedFinite == \A u \in Users : IsFiniteSet(Owned(u))

\* A request that creates holds its user's row, alone, and has room.
CreatorAlone ==
    \A s, t \in Threads :
        req[s].step = "create" /\ req[t].step = "create" /\ req[s].user = req[t].user => s = t
RoomLeft ==
    \A t \in Threads : req[t].step = "create" =>
        /\ req[t].user \in Users
        /\ Cardinality(Owned(req[t].user)) < Ceiling(req[t].user, req[t].floor)

\* A review is one of a user and a listing.
ReviewNamed ==
    \A t \in Threads : req[t].step \in {"review", "recalc", "store"} =>
        req[t].user \in Users /\ req[t].id \in Ids

\* A rating that is about to be stored is that of the reviews as they will be,
\* unless another review of the listing was committed meanwhile.
SeenIsCurrent ==
    \A t \in Threads : req[t].step = "store" =>
        \/ req[t].overlapped
        \/ req[t].seen = [review[req[t].id] EXCEPT ![req[t].user] = req[t].stars]

\* What a cleanup is about to clear has no window, except a grant it overlapped.
SweptIsStale == \A l \in sweep : ad[l] # "live" \/ l \in granted

ListingInv ==
    /\ ListingTypeOK
    /\ OwnedFinite
    /\ CreatorAlone
    /\ RoomLeft
    /\ ReviewNamed
    /\ SeenIsCurrent
    /\ RatingIsCurrent
    /\ SweptIsStale
    /\ GrantIsShown

LEMMA IdleRequest == Idle \in Requests /\ Idle.step = "idle" /\ ~Idle.overlapped
  BY DEF Idle, Requests, NoReviews, Stars

LEMMA ListingInitInv == Init => ListingInv
<1> SUFFICES ASSUME Init PROVE ListingInv
  OBVIOUS
<1> USE DEF Init
<1>1. NoReviews \in [Users -> Stars]
  BY DEF NoReviews, Stars
<1>2. ListingTypeOK
  BY <1>1, IdleRequest DEF ListingTypeOK, Unused
<1>3. \A u \in Users : Owned(u) = {}
  BY DEF Owned, Present, Unused
<1>4. OwnedFinite
  BY <1>3, FS_EmptySet DEF OwnedFinite
<1>5. CreatorAlone /\ RoomLeft /\ ReviewNamed /\ SeenIsCurrent
  BY IdleRequest DEF CreatorAlone, RoomLeft, ReviewNamed, SeenIsCurrent
<1> QED
  BY <1>2, <1>4, <1>5 DEF ListingInv, RatingIsCurrent, SweptIsStale, GrantIsShown

-----------------------------------------------------------------------------
(* Steps of requests that leave the shared rows alone.                     *)

\* A request that goes on: what it may claim from now on.
LEMMA RequestKeeps ==
  ASSUME ListingInv, UNCHANGED <<listing, limitVars, reviewVars, adVars>>,
         NEW t \in Threads, NEW r \in Requests, req' = [req EXCEPT ![t] = r],
         r.step = "create" =>
            /\ r.user \in Users /\ ~UserLocked(r.user)
            /\ Cardinality(Owned(r.user)) < Ceiling(r.user, r.floor),
         r.step \in {"review", "recalc", "store"} => r.user \in Users /\ r.id \in Ids,
         r.step = "store" => r.seen = [review[r.id] EXCEPT ![r.user] = r.stars]
  PROVE  ListingInv'
<1> USE DEF ListingInv, limitVars, reviewVars, adVars
<1>1. ListingTypeOK'
  BY DEF ListingTypeOK
<1>2. \A s \in Threads : req'[s] = IF s = t THEN r ELSE req[s]
  BY DEF ListingTypeOK
<1>3. \A u : Owned(u)' = Owned(u)
  BY DEF Owned, Present
<1>4. OwnedFinite' /\ RoomLeft'
  BY <1>2, <1>3 DEF OwnedFinite, RoomLeft, Ceiling
<1>5. CreatorAlone'
  BY <1>2 DEF CreatorAlone, UserLocked
<1>6. ReviewNamed' /\ SeenIsCurrent'
  BY <1>2 DEF ReviewNamed, SeenIsCurrent
<1>7. RatingIsCurrent' /\ SweptIsStale' /\ GrantIsShown'
  BY DEF RatingIsCurrent, SweptIsStale, GrantIsShown
<1> QED
  BY <1>1, <1>4, <1>5, <1>6, <1>7

LEMMA CountListingsInv ==
  ASSUME ListingInv, NEW t \in Threads, NEW u \in Users, CountListings(t, u)
  PROVE  ListingInv'
<1> DEFINE r == [Idle EXCEPT !.step = "create", !.user = u, !.floor = floor]
<1>1. r \in Requests /\ r.step = "create" /\ r.user = u /\ r.floor = floor
  BY IdleRequest DEF Requests, ListingInv, ListingTypeOK
<1>2. req' = [req EXCEPT ![t] = r]
  BY DEF CountListings
<1> HIDE DEF r
<1>3. UNCHANGED <<listing, limitVars, reviewVars, adVars>>
  BY DEF CountListings
<1>4. ~UserLocked(r.user) /\ Cardinality(Owned(r.user)) < Ceiling(r.user, r.floor)
  BY <1>1 DEF CountListings
<1> QED
  BY <1>1, <1>2, <1>3, <1>4, RequestKeeps

LEMMA ReviewStepsInv ==
  ASSUME ListingInv, NEW t \in Threads,
         \/ \E u \in Users, l \in Ids, stars \in Stars \ {0} : BeginReview(t, u, l, stars)
         \/ InsertReview(t)
         \/ \E u \in Users, l \in Ids, stars \in Stars : ChangeReview(t, u, l, stars)
         \/ Recalc(t)
         \/ Abandon(t)
  PROVE  ListingInv'
<1> USE DEF ListingInv
<1>0. req[t] \in Requests /\ review \in [Ids -> [Users -> Stars]]
  BY DEF ListingTypeOK
<1>1. CASE \E u \in Users, l \in Ids, stars \in Stars \ {0} : BeginReview(t, u, l, stars)
  <2> PICK u \in Users, l \in Ids, stars \in Stars \ {0} : BeginReview(t, u, l, stars)
    BY <1>1
  <2> DEFINE r == [Idle EXCEPT !.step = "review", !.user = u, !.id = l, !.stars = stars]
  <2>1. r \in Requests /\ r.step = "review" /\ r.user = u /\ r.id = l
    BY IdleRequest DEF Requests
  <2>2. req' = [req EXCEPT ![t] = r]
    BY DEF BeginReview
  <2>3. UNCHANGED <<listing, limitVars, reviewVars, adVars>>
    BY DEF BeginReview
  <2> HIDE DEF r
  <2> QED
    BY <2>1, <2>2, <2>3, RequestKeeps
<1>2. CASE InsertReview(t)
  <2> DEFINE r == [req[t] EXCEPT !.step = "recalc"]
  <2>1. r \in Requests /\ r.step = "recalc" /\ r.user = req[t].user /\ r.id = req[t].id
    BY <1>0 DEF Requests
  <2>2. req' = [req EXCEPT ![t] = r]
    BY <1>2 DEF InsertReview, ListingTypeOK
  <2>3. r.user \in Users /\ r.id \in Ids
    BY <1>2, <2>1 DEF InsertReview, ReviewNamed
  <2> HIDE DEF r
  <2> QED
    BY <1>2, <2>1, <2>2, <2>3, RequestKeeps DEF InsertReview
<1>3. CASE \E u \in Users, l \in Ids, stars \in Stars : ChangeReview(t, u, l, stars)
  <2> PICK u \in Users, l \in Ids, stars \in Stars : ChangeReview(t, u, l, stars)
    BY <1>3
  <2> DEFINE r == [Idle EXCEPT !.step = "recalc", !.user = u, !.id = l, !.stars = stars]
  <2>1. r \in Requests /\ r.step = "recalc" /\ r.user = u /\ r.id = l
    BY IdleRequest DEF Requests
  <2>2. req' = [req EXCEPT ![t] = r]
    BY DEF ChangeReview
  <2>3. UNCHANGED <<listing, limitVars, reviewVars, adVars>>
    BY DEF ChangeReview
  <2> HIDE DEF r
  <2> QED
    BY <2>1, <2>2, <2>3, RequestKeeps
<1>4. CASE Recalc(t)
  <2> DEFINE seen == [review[req[t].id] EXCEPT ![req[t].user] = req[t].stars]
             r == [req[t] EXCEPT !.step = "store", !.seen = seen]
  <2>1. req[t].user \in Users /\ req[t].id \in Ids
    BY <1>4 DEF Recalc, ReviewNamed
  <2>2. seen \in [Users -> Stars]
    BY <1>0, <2>1 DEF Requests
  <2> HIDE DEF seen
  <2>3. /\ r \in Requests /\ r.step = "store" /\ r.user = req[t].user /\ r.id = req[t].id
        /\ r.seen = seen /\ r.stars = req[t].stars
    BY <1>0, <2>2 DEF Requests
  <2>4. req' = [req EXCEPT ![t] = r]
    BY <1>4 DEF Recalc, ListingTypeOK, seen
  <2>5. r.seen = [review[r.id] EXCEPT ![r.user] = r.stars]
    BY <2>3 DEF seen
  <2> HIDE DEF r
  <2> QED
    BY <1>4, <2>1, <2>3, <2>4, <2>5, RequestKeeps DEF Recalc
<1>5. CASE Abandon(t)
  BY <1>5, IdleRequest, RequestKeeps DEF Abandon, End
<1> QED
  BY <1>1, <1>2, <1>3, <1>4, <1>5

-----------------------------------------------------------------------------
(* Steps that write a listing, an allowance or a window.                   *)

\* What is left to show when the reviews and ratings are not touched and no
\* request but one that ends changes.
LEMMA ListingStepKeeps ==
  ASSUME ListingInv, UNCHANGED reviewVars, req' \in [Threads -> Requests],
         \A t \in Threads : req'[t] = req[t] \/ req'[t] = Idle,
         listing' \in [Ids -> ListingRows],
         allowance' \in [Users -> Nat], floor' \in Nat,
         ad' \in [Ids -> {"none", "live", "expired"}],
         sweep' \subseteq Ids, granted' \subseteq Ids,
         OwnedFinite', RoomLeft', SweptIsStale', GrantIsShown'
  PROVE  ListingInv'
<1> USE DEF ListingInv, reviewVars
<1>1. ListingTypeOK'
  BY DEF ListingTypeOK
<1>2. CreatorAlone' /\ ReviewNamed' /\ SeenIsCurrent'
  BY IdleRequest DEF CreatorAlone, ReviewNamed, SeenIsCurrent
<1>3. RatingIsCurrent'
  BY DEF RatingIsCurrent
<1> QED
  BY <1>1, <1>2, <1>3

\* A listing of u appears.
LEMMA InsertAdds ==
  ASSUME ListingInv, NEW u \in Users, Insert(u)
  PROVE  /\ listing' \in [Ids -> ListingRows]
         /\ OwnedFinite'
         /\ \A v \in Users \ {u} : Owned(v)' = Owned(v)
         /\ \A l \in Ids : listing'[l].flag = listing[l].flag
<1> USE DEF ListingInv
<1>1. PICK l \in Ids :
        /\ listing[l] = Unused
        /\ listing' = [listing EXCEPT ![l] =
              [status |-> "pending", user |-> u, active |-> TRUE, flag |-> FALSE]]
  BY DEF Insert
<1>2. /\ listing' \in [Ids -> ListingRows]
      /\ \A k \in Ids : k # l => listing'[k] = listing[k]
      /\ listing'[l] = [status |-> "pending", user |-> u, active |-> TRUE, flag |-> FALSE]
  BY <1>1 DEF ListingTypeOK
<1>3. \A v \in Users \ {u} : Owned(v)' = Owned(v)
  BY <1>1, <1>2 DEF Owned, Present, Unused
<1>4. Owned(u)' = Owned(u) \cup {l}
  BY <1>1, <1>2 DEF Owned, Present, Unused
<1>5. OwnedFinite'
  BY <1>3, <1>4, FS_AddElement DEF OwnedFinite
<1>6. \A k \in Ids : listing'[k].flag = listing[k].flag
  <2>1. listing[l].flag = FALSE /\ listing'[l].flag = FALSE
    BY <1>1, <1>2 DEF Unused
  <2> QED
    BY <1>2, <2>1
<1> QED
  BY <1>2, <1>3, <1>5, <1>6

LEMMA CreateInv ==
  ASSUME ListingInv,
         \/ \E t \in Threads : CreateListing(t)
         \/ \E u \in Users : CreateForOrganization(u)
  PROVE  ListingInv'
<1> USE DEF ListingInv
<1>1. CASE \E t \in Threads : CreateListing(t)
  <2> PICK t \in Threads : CreateListing(t)
    BY <1>1
  <2>1. /\ req[t].step = "create" /\ Insert(req[t].user) /\ req[t].user \in Users
        /\ UNCHANGED <<limitVars, reviewVars, adVars>>
    BY DEF CreateListing, RoomLeft
  <2>2. /\ req' \in [Threads -> Requests]
        /\ req'[t] = Idle /\ \A s \in Threads \ {t} : req'[s] = req[s]
    BY IdleRequest DEF CreateListing, End, ListingTypeOK
  <2>3. \A s \in Threads \ {t} : req[s].step = "create" => req[s].user # req[t].user
    BY <2>1 DEF CreatorAlone
  <2>4. RoomLeft'
    BY <2>1, <2>2, <2>3, InsertAdds, IdleRequest DEF RoomLeft, Ceiling, limitVars
  <2>5. SweptIsStale' /\ GrantIsShown'
    BY <2>1, InsertAdds DEF SweptIsStale, GrantIsShown, adVars
  <2> QED
    BY <2>1, <2>2, <2>4, <2>5, InsertAdds, ListingStepKeeps DEF limitVars, adVars, ListingTypeOK
<1>2. CASE \E u \in Users : CreateForOrganization(u)
  <2> PICK u \in Users : CreateForOrganization(u)
    BY <1>2
  <2>1. Insert(u) /\ ~UserLocked(u) /\ UNCHANGED <<limitVars, req, reviewVars, adVars>>
    BY DEF CreateForOrganization
  <2>2. RoomLeft'
    BY <2>1, InsertAdds DEF RoomLeft, UserLocked, Ceiling, limitVars
  <2>3. SweptIsStale' /\ GrantIsShown'
    BY <2>1, InsertAdds DEF SweptIsStale, GrantIsShown, adVars
  <2> QED
    BY <2>1, <2>2, <2>3, InsertAdds, ListingStepKeeps DEF limitVars, adVars, ListingTypeOK
<1> QED
  BY <1>1, <1>2

\* Nobody's allowance changes while a creation holds the row of the user.
LEMMA ChangeAllowanceInv ==
  ASSUME ListingInv, NEW u \in Users, ChangeAllowance(u)
  PROVE  ListingInv'
<1> USE DEF ListingInv
<1>1. PICK n \in 0 .. MaxLimit : allowance' = [allowance EXCEPT ![u] = n]
  BY DEF ChangeAllowance
<1>2. /\ allowance' \in [Users -> Nat]
      /\ \A v \in Users \ {u} : allowance'[v] = allowance[v]
  BY <1>1 DEF ListingTypeOK
<1>3. ~UserLocked(u) /\ UNCHANGED <<listing, floor, req, reviewVars, adVars>>
  BY DEF ChangeAllowance
<1>4. \A v : Owned(v)' = Owned(v)
  BY <1>3 DEF Owned, Present
<1>5. OwnedFinite' /\ RoomLeft'
  BY <1>2, <1>3, <1>4 DEF OwnedFinite, RoomLeft, UserLocked, Ceiling
<1>6. SweptIsStale' /\ GrantIsShown'
  BY <1>3 DEF SweptIsStale, GrantIsShown, adVars
<1> QED
  BY <1>2, <1>3, <1>5, <1>6, ListingStepKeeps DEF adVars, ListingTypeOK

\* The free allowance may change: a creation goes by the one it has read.
LEMMA ChangeFloorInv ==
  ASSUME ListingInv, ChangeFloor
  PROVE  ListingInv'
<1> USE DEF ListingInv
<1>1. UNCHANGED <<listing, allowance, req, reviewVars, adVars>> /\ floor' \in Nat
  BY DEF ChangeFloor
<1>2. \A v : Owned(v)' = Owned(v)
  BY <1>1 DEF Owned, Present
<1>3. OwnedFinite' /\ RoomLeft'
  BY <1>1, <1>2 DEF OwnedFinite, RoomLeft, Ceiling
<1>4. SweptIsStale' /\ GrantIsShown'
  BY <1>1 DEF SweptIsStale, GrantIsShown, adVars
<1> QED
  BY <1>1, <1>3, <1>4, ListingStepKeeps DEF adVars, ListingTypeOK

\* Listings that stay in the marketplace with their owners count as before.
LEMMA SameOwners ==
  ASSUME ListingInv, UNCHANGED <<limitVars, req>>,
         \A l \in Ids : (Present(l)' <=> Present(l)) /\ listing'[l].user = listing[l].user
  PROVE  OwnedFinite' /\ RoomLeft'
<1> USE DEF ListingInv
<1>1. \A u : Owned(u)' = Owned(u)
  BY DEF Owned
<1> QED
  BY <1>1 DEF OwnedFinite, RoomLeft, Ceiling, limitVars

LEMMA ModerationInv ==
  ASSUME ListingInv, NEW l \in Ids, Approve(l) \/ Disable(l)
  PROVE  ListingInv'
<1> USE DEF ListingInv
<1>1. UNCHANGED <<limitVars, req, reviewVars, adVars>>
  BY DEF Approve, Disable
<1>2. /\ listing' \in [Ids -> ListingRows]
      /\ \A k \in Ids : /\ (Present(k)' <=> Present(k))
                        /\ listing'[k].user = listing[k].user
                        /\ listing'[k].flag = listing[k].flag
  <2>1. CASE Approve(l)
    <3>1. /\ listing[l] \in ListingRows
          /\ listing[l].status = "pending"
          /\ listing' = [listing EXCEPT ![l] = [listing[l] EXCEPT !.status = "approved"]]
      BY <2>1 DEF Approve, ListingTypeOK
    <3>2. \A k \in Ids : listing'[k] = IF k = l THEN [listing[l] EXCEPT !.status = "approved"] ELSE listing[k]
      BY <3>1 DEF ListingTypeOK
    <3> QED
      BY <3>1, <3>2 DEF Present, ListingTypeOK
  <2>2. CASE Disable(l)
    <3>1. /\ listing[l] \in ListingRows
          /\ listing' = [listing EXCEPT ![l] = [listing[l] EXCEPT !.active = FALSE]]
      BY <2>2 DEF Disable, ListingTypeOK
    <3>2. \A k \in Ids : listing'[k] = IF k = l THEN [listing[l] EXCEPT !.active = FALSE] ELSE listing[k]
      BY <3>1 DEF ListingTypeOK
    <3> QED
      BY <3>1, <3>2 DEF Present, ListingTypeOK
  <2> QED
    BY <2>1, <2>2
<1>3. SweptIsStale' /\ GrantIsShown'
  BY <1>1, <1>2 DEF SweptIsStale, GrantIsShown, adVars
<1> QED
  BY <1>1, <1>2, <1>3, SameOwners, ListingStepKeeps DEF limitVars, adVars, ListingTypeOK

LEMMA DeleteInv ==
  ASSUME ListingInv, NEW l \in Ids, Delete(l)
  PROVE  ListingInv'
<1> USE DEF ListingInv
<1>1. UNCHANGED <<limitVars, req, reviewVars, ad, granted>> /\ ad[l] = "none" /\ sweep' = sweep \ {l}
  BY DEF Delete
<1>2. /\ listing' \in [Ids -> ListingRows]
      /\ listing'[l].status = "deleted"
      /\ \A k \in Ids \ {l} : listing'[k] = listing[k]
  BY DEF Delete, Unused, ListingTypeOK
<1>3. \A u : Owned(u)' \subseteq Owned(u)
  BY <1>2 DEF Owned, Present
<1>4. \A u \in Users : IsFiniteSet(Owned(u)') /\ Cardinality(Owned(u)') <= Cardinality(Owned(u))
  BY <1>3, FS_Subset DEF OwnedFinite
<1>5. \A u \in Users : Cardinality(Owned(u)) \in Nat /\ Cardinality(Owned(u)') \in Nat
  BY <1>4, FS_CardinalityType DEF OwnedFinite
<1>6. OwnedFinite'
  BY <1>4 DEF OwnedFinite
<1>7. RoomLeft'
  <2> SUFFICES ASSUME NEW t \in Threads, req[t].step = "create", NEW u \in Users, req[t].user = u
               PROVE  Cardinality(Owned(u)') < Ceiling(u, req[t].floor)
    BY <1>1 DEF RoomLeft, Ceiling, limitVars
  <2>1. Ceiling(u, req[t].floor) \in Nat
    BY DEF Ceiling, ListingTypeOK, Requests
  <2>2. Cardinality(Owned(u)) < Ceiling(u, req[t].floor)
    BY DEF RoomLeft
  <2> QED
    BY <1>4, <1>5, <2>1, <2>2
<1>8. SweptIsStale' /\ GrantIsShown'
  BY <1>1, <1>2 DEF SweptIsStale, GrantIsShown
<1> QED
  BY <1>1, <1>2, <1>6, <1>7, <1>8, ListingStepKeeps DEF limitVars, ListingTypeOK

LEMMA SponsorInv ==
  ASSUME ListingInv, NEW l \in Ids, Sponsor(l) \/ WindowEnds(l)
  PROVE  ListingInv'
<1> USE DEF ListingInv
<1>1. UNCHANGED <<limitVars, req, reviewVars, sweep>>
  BY DEF Sponsor, WindowEnds
<1>2. /\ listing' \in [Ids -> ListingRows]
      /\ ad' \in [Ids -> {"none", "live", "expired"}]
      /\ granted' \subseteq Ids
      /\ \A k \in Ids : (Present(k)' <=> Present(k)) /\ listing'[k].user = listing[k].user
  <2>1. CASE Sponsor(l)
    <3>1. /\ listing[l] \in ListingRows
          /\ listing' = [listing EXCEPT ![l] = [listing[l] EXCEPT !.flag = TRUE]]
          /\ ad' = [ad EXCEPT ![l] = "live"]
          /\ granted' \in {granted \cup {l}, granted \ {l}}
      BY <2>1 DEF Sponsor, ListingTypeOK
    <3>2. \A k \in Ids : listing'[k] = IF k = l THEN [listing[l] EXCEPT !.flag = TRUE] ELSE listing[k]
      BY <3>1 DEF ListingTypeOK
    <3> QED
      BY <3>1, <3>2 DEF Present, ListingTypeOK
  <2>2. CASE WindowEnds(l)
    BY <2>2 DEF WindowEnds, Present, ListingTypeOK
  <2> QED
    BY <2>1, <2>2
<1>3. SweptIsStale' /\ GrantIsShown'
  <2>1. CASE Sponsor(l)
    BY <2>1 DEF Sponsor, SweptIsStale, GrantIsShown, ListingTypeOK
  <2>2. CASE WindowEnds(l)
    BY <2>2 DEF WindowEnds, SweptIsStale, GrantIsShown, ListingTypeOK
  <2> QED
    BY <2>1, <2>2
<1> QED
  BY <1>1, <1>2, <1>3, SameOwners, ListingStepKeeps DEF limitVars, ListingTypeOK

LEMMA CleanupInv ==
  ASSUME ListingInv, BeginCleanup \/ FinishCleanup
  PROVE  ListingInv'
<1> USE DEF ListingInv
<1>1. UNCHANGED <<limitVars, ad, granted, req, reviewVars>>
  BY DEF BeginCleanup, FinishCleanup
<1>2. /\ listing' \in [Ids -> ListingRows]
      /\ sweep' \subseteq Ids
      /\ \A k \in Ids : (Present(k)' <=> Present(k)) /\ listing'[k].user = listing[k].user
  <2>1. CASE BeginCleanup
    BY <2>1 DEF BeginCleanup, Present, ListingTypeOK
  <2>2. CASE FinishCleanup
    <3>1. PICK S \in SUBSET sweep :
            /\ listing' = [k \in Ids |-> IF k \in S THEN [listing[k] EXCEPT !.flag = FALSE] ELSE listing[k]]
            /\ sweep' = {}
      BY <2>2 DEF FinishCleanup
    <3>2. \A k \in Ids : listing[k] \in ListingRows
      BY DEF ListingTypeOK
    <3>3. \A k \in Ids : listing'[k] = listing[k] \/ listing'[k] = [listing[k] EXCEPT !.flag = FALSE]
      BY <3>1
    <3>4. \A k \in Ids : /\ listing'[k] \in ListingRows
                         /\ listing'[k].status = listing[k].status
                         /\ listing'[k].user = listing[k].user
      BY <3>2, <3>3
    <3>5. /\ listing' \in [Ids -> ListingRows]
          /\ sweep' \subseteq Ids
      BY <3>1, <3>4
    <3> QED
      BY <3>4, <3>5 DEF Present
  <2> QED
    BY <2>1, <2>2
<1>3. SweptIsStale' /\ GrantIsShown'
  <2>1. CASE BeginCleanup
    BY <2>1 DEF BeginCleanup, Stale, SweptIsStale, GrantIsShown
  <2>2. CASE FinishCleanup
    BY <2>2 DEF FinishCleanup, SweptIsStale, GrantIsShown, ListingTypeOK
  <2> QED
    BY <2>1, <2>2
<1> QED
  BY <1>1, <1>2, <1>3, SameOwners, ListingStepKeeps DEF limitVars, ListingTypeOK

-----------------------------------------------------------------------------
(* The commit of a review.                                                 *)

LEMMA CommitReviewInv ==
  ASSUME ListingInv, NEW t \in Threads, CommitReview(t)
  PROVE  ListingInv'
<1> USE DEF ListingInv
<1> DEFINE l == req[t].id
           u == req[t].user
<1>1. /\ l \in Ids /\ u \in Users /\ req[t].step = "store" /\ req[t] \in Requests
      /\ review' = [review EXCEPT ![l][u] = req[t].stars]
      /\ shown' = [shown EXCEPT ![l] = req[t].seen]
      /\ raced' = IF req[t].overlapped THEN raced \cup {l} ELSE raced \ {l}
      /\ UNCHANGED <<listing, limitVars, adVars>>
  BY DEF CommitReview, ReviewNamed, ListingTypeOK
<1>2. req' = [s \in Threads |->
                IF s = t THEN Idle
                ELSE IF s \in Reviewing(l) THEN [req[s] EXCEPT !.overlapped = TRUE] ELSE req[s]]
  BY DEF CommitReview
<1>3. \A s \in Threads \ {t} :
        /\ req[s] \in Requests /\ req'[s] \in Requests
        /\ req'[s].step = req[s].step /\ req'[s].user = req[s].user /\ req'[s].id = req[s].id
        /\ req'[s].stars = req[s].stars /\ req'[s].seen = req[s].seen
        /\ req[s].overlapped => req'[s].overlapped
        /\ req[s].step = "store" /\ req[s].id = l => req'[s].overlapped
  <2> TAKE s \in Threads \ {t}
  <2>1. req[s] \in Requests
    BY DEF ListingTypeOK
  <2>2. req'[s] = IF s \in Reviewing(l) THEN [req[s] EXCEPT !.overlapped = TRUE] ELSE req[s]
    BY <1>2
  <2>3. req[s].step = "store" /\ req[s].id = l => s \in Reviewing(l)
    BY DEF Reviewing
  <2> HIDE DEF l
  <2> QED
    BY <2>1, <2>2, <2>3 DEF Requests
<1>4. req'[t] = Idle /\ req' \in [Threads -> Requests]
  BY <1>2, <1>3, IdleRequest
<1> HIDE DEF l, u
<1>5. /\ review \in [Ids -> [Users -> Stars]] /\ shown \in [Ids -> [Users -> Stars]]
      /\ req[t].seen \in [Users -> Stars] /\ req[t].stars \in Stars
  BY <1>1 DEF ListingTypeOK, Requests
<1>6. /\ review' \in [Ids -> [Users -> Stars]] /\ shown' \in [Ids -> [Users -> Stars]]
      /\ review'[l] = [review[l] EXCEPT ![u] = req[t].stars]
      /\ \A k \in Ids \ {l} : review'[k] = review[k] /\ shown'[k] = shown[k]
      /\ shown'[l] = req[t].seen
  BY <1>1, <1>5
<1>7. ListingTypeOK'
  BY <1>1, <1>4, <1>6 DEF ListingTypeOK, limitVars, adVars
<1>8. \A v : Owned(v)' = Owned(v)
  BY <1>1 DEF Owned, Present
<1>9. OwnedFinite' /\ RoomLeft'
  <2>1. \A s \in Threads \ {t} : req'[s].floor = req[s].floor
    BY <1>2
  <2> QED
    BY <1>1, <1>3, <1>4, <1>8, <2>1, IdleRequest DEF OwnedFinite, RoomLeft, Ceiling, limitVars
<1>10. CreatorAlone' /\ ReviewNamed'
  BY <1>3, <1>4, IdleRequest DEF CreatorAlone, ReviewNamed
<1>11. SeenIsCurrent'
  <2> SUFFICES ASSUME NEW s \in Threads, req'[s].step = "store"
               PROVE  \/ req'[s].overlapped
                      \/ req'[s].seen = [review'[req'[s].id] EXCEPT ![req'[s].user] = req'[s].stars]
    BY DEF SeenIsCurrent
  <2>1. s # t /\ req[s].step = "store" /\ req[s].id \in Ids
    BY <1>3, <1>4, IdleRequest DEF ReviewNamed
  <2>2. CASE req[s].id = l
    BY <1>3, <2>1, <2>2
  <2>3. CASE req[s].id # l
    <3>1. review'[req[s].id] = review[req[s].id]
      BY <1>6, <2>1, <2>3
    <3> QED
      BY <1>3, <2>1, <3>1 DEF SeenIsCurrent
  <2> QED
    BY <2>2, <2>3
<1>12. RatingIsCurrent'
  BY <1>1, <1>6 DEF RatingIsCurrent, SeenIsCurrent, l, u
<1>13. SweptIsStale' /\ GrantIsShown'
  BY <1>1 DEF SweptIsStale, GrantIsShown, adVars
<1> QED
  BY <1>7, <1>9, <1>10, <1>11, <1>12, <1>13

-----------------------------------------------------------------------------

\* No step of any request, the admin, the cleanup or time breaks the invariant.
LEMMA ListingNextInv == ListingInv /\ [Next]_vars => ListingInv'
<1> SUFFICES ASSUME ListingInv, [Next]_vars PROVE ListingInv'
  OBVIOUS
<1>1. ASSUME NEW t \in Threads, Request(t) PROVE ListingInv'
  BY <1>1, CountListingsInv, CreateInv, ReviewStepsInv, CommitReviewInv DEF Request
<1>2. ASSUME NEW u \in Users, CreateForOrganization(u) \/ ChangeAllowance(u) PROVE ListingInv'
  BY <1>2, CreateInv, ChangeAllowanceInv
<1>3. ASSUME NEW l \in Ids, Approve(l) \/ Disable(l) \/ Delete(l) \/ Sponsor(l) \/ WindowEnds(l)
      PROVE  ListingInv'
  BY <1>3, ModerationInv, DeleteInv, SponsorInv
<1>4. CASE BeginCleanup \/ FinishCleanup \/ ChangeFloor
  BY <1>4, CleanupInv, ChangeFloorInv
<1>5. CASE UNCHANGED vars
  <2>1. UNCHANGED <<listing, limitVars, req, reviewVars, ad, sweep, granted>>
    BY <1>5 DEF vars, adVars
  <2>2. OwnedFinite' /\ RoomLeft'
    BY <2>1, SameOwners DEF Present
  <2>3. SweptIsStale' /\ GrantIsShown'
    BY <2>1 DEF ListingInv, SweptIsStale, GrantIsShown
  <2> QED
    BY <2>1, <2>2, <2>3, ListingStepKeeps DEF limitVars, ListingInv, ListingTypeOK
<1> QED
  BY <1>1, <1>2, <1>3, <1>4, <1>5 DEF Next

\* The inductive invariant holds in every reachable state.
THEOREM ListingInvariance == Spec => []ListingInv
<1>1. Init => ListingInv
  BY ListingInitInv
<1>2. ListingInv /\ [Next]_vars => ListingInv'
  BY ListingNextInv
<1> QED
  BY <1>1, <1>2, PTL DEF Spec

\* The rating of a listing is that of its reviews, unless two of them overlapped
\* (_recalc_listing_ratings).
THEOREM RatingIsCurrentAlways == Spec => []RatingIsCurrent
<1>1. ListingInv => RatingIsCurrent
  BY DEF ListingInv
<1> QED
  BY <1>1, ListingInvariance, PTL

\* A sponsored listing keeps its flag through its window, except a grant that a
\* running cleanup overlapped (sponsor_listing_admin, cleanup_expired_sponsorships).
THEOREM GrantIsShownAlways == Spec => []GrantIsShown
<1>1. ListingInv => GrantIsShown
  BY DEF ListingInv
<1> QED
  BY <1>1, ListingInvariance, PTL

\* No number of concurrent requests passes the limit that the plan and the listings
\* give when the listing appears, with the free allowance as the request has read it
\* (api_create_listing, get_business_limit_for_user).
THEOREM LimitHoldsAlways == Spec => LimitHolds
<1>1. ListingInv /\ [Next]_vars =>
        [\A t \in Threads : req[t].step = "create" /\ listing' # listing /\ req'[t] = Idle =>
           Cardinality(Owned(req[t].user)) < Ceiling(req[t].user, req[t].floor)]_vars
  BY DEF ListingInv, RoomLeft
<1> QED
  BY <1>1, ListingInvariance, PTL DEF Spec, LimitHolds
=============================================================================
