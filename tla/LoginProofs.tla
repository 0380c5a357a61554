---------------------------- MODULE LoginProofs ----------------------------
(***************************************************************************)
(* Proofs about module Login, for any threads, referrers, attempts and     *)
(* codes.                                                                  *)
(***************************************************************************)
EXTENDS Login, TLAPS

USE LoginAssumption

Holding == {"guess", "persist", "lookup", "select", "insert", "finish", "clear"}
Deciding == {"finish", "clear"}

\* A stored or claimed code was issued by the provider.
CodesIssued ==
    /\ row.id <= issued
    /\ row.live => row.id # 0
    /\ \A t \in Threads :
         /\ req[t].id <= issued
         /\ pc[t] \in {"store", "guess"} => req[t].id # 0

\* The counter of the row covers every guess made with its code, and there are no
\* guesses of a code without a row, except of the codes whose count is lost.
GuessesCounted ==
    \A id \in Ids \ dropped : guesses[id] <= IF row.live /\ row.id = id THEN row.attempts ELSE 0

\* A request that created the account bound its referrer.
NewIsBound ==
    \A t \in Threads :
        /\ req[t].status # "unknown" => pc[t] \in Deciding
        /\ req[t].status = "new" => account.exists /\ account.referrer = req[t].referrer

\* A send that goes on although the row is fresh or locked, and a login that
\* holds another code, ran already when the row was stored or locked.
SendersOverlap ==
    row.live /\ (row.fresh \/ IsLocked) =>
        \A t \in Threads : pc[t] \in {"ask", "store"} => t \in overlap
HoldersOverlap ==
    row.live => \A t \in Threads : pc[t] \in Holding => req[t].id = row.id \/ t \in overlap

LoginInv ==
    /\ LoginTypeOK
    /\ pc \in [Threads -> LoginStages]
    /\ CodesIssued
    /\ GuessesCounted
    /\ NewIsBound
    /\ SendersOverlap
    /\ HoldersOverlap

LEMMA LoginInitInv == LoginInit => LoginInv
<1> SUFFICES ASSUME LoginInit PROVE LoginInv
  OBVIOUS
<1> USE DEF LoginInit, NoRow, NoAccount, NoRequest
<1>1. /\ account \in [exists : BOOLEAN, referrer : Refs, usable : BOOLEAN]
      /\ req \in [Threads -> Request]
      /\ pc \in [Threads -> LoginStages]
  BY DEF Refs, Request, LoginStages
<1>2. row \in [id : Ids \cup {0}, attempts : 0 .. MaxAttempts, fresh : BOOLEAN, live : BOOLEAN]
  OBVIOUS
<1>3. LoginTypeOK
  <2>1. guesses \in [Ids -> 0 .. MaxGuesses] /\ dropped \subseteq Ids
    BY DEF MaxGuesses
  <2>2. /\ issued \in Ids \cup {0} /\ spent \subseteq 1 .. issued
        /\ pending \in Refs /\ overlap \subseteq Busy
    BY DEF Refs
  <2> HIDE DEF LoginInit, NoRow, NoAccount, NoRequest
  <2> QED
    BY <1>1, <1>2, <2>1, <2>2 DEF LoginTypeOK
<1> QED
  BY <1>1, <1>3 DEF LoginInv, CodesIssued, GuessesCounted, NewIsBound, SendersOverlap, HoldersOverlap

\* What the end of a request leaves behind.
LEMMA EndRequestKeeps ==
  ASSUME LoginInv, NEW t \in Threads, EndRequest(t)
  PROVE  /\ pc' \in [Threads -> LoginStages]
         /\ req' \in [Threads -> Request]
         /\ overlap' \subseteq Busy'
         /\ pc'[t] = "idle" /\ req'[t] = NoRequest
         /\ \A u \in Threads \ {t} : pc'[u] = pc[u] /\ req'[u] = req[u]
         /\ overlap' = overlap \ {t}
<1>1. NoRequest \in Request
  BY DEF NoRequest, Request, Refs
<1> QED
  BY <1>1 DEF LoginInv, LoginTypeOK, EndRequest, GoTo, LoginStages, Busy

\* A code that is used up has no guesses any more.
LEMMA SpendCounts ==
  ASSUME LoginInv, NEW id \in 1 .. issued, Spend(id), UNCHANGED row
  PROVE  /\ guesses' \in [Ids -> 0 .. MaxGuesses] /\ dropped' \subseteq Ids
         /\ GuessesCounted'
         /\ spent' \subseteq 1 .. issued
<1>1. /\ id \in Ids /\ guesses \in [Ids -> 0 .. MaxGuesses] /\ dropped \subseteq Ids
      /\ spent \subseteq 1 .. issued /\ MaxGuesses \in Nat
      /\ row.attempts \in Nat
  BY DEF LoginInv, LoginTypeOK, Ids, MaxGuesses
<1> QED
  BY <1>1 DEF Spend, GuessesCounted, LoginInv

\* Codes that lose their row are no longer counted, the others have no guesses.
LEMMA LetGoCounts ==
  ASSUME LoginInv, LetGo, UNCHANGED guesses
  PROVE  /\ dropped' \subseteq Ids
         /\ \A id \in Ids \ dropped' : guesses'[id] = 0
<1>1. guesses \in [Ids -> 0 .. MaxGuesses] /\ dropped \subseteq Ids /\ MaxGuesses \in Nat
  BY DEF LoginInv, LoginTypeOK, MaxGuesses
<1> QED
  BY <1>1 DEF LetGo, GuessesCounted, LoginInv

\* A request that ends and leaves the row alone.
LEMMA GiveUpKeeps ==
  ASSUME LoginInv, NEW t \in Threads, EndRequest(t), UNCHANGED <<row, issued, account>>,
         \/ UNCHANGED <<guesses, dropped, spent>>
         \/ \E id \in 1 .. issued : Spend(id),
         pending' \in Refs
  PROVE  LoginInv'
<1> USE DEF LoginInv
<1>1. /\ guesses' \in [Ids -> 0 .. MaxGuesses] /\ dropped' \subseteq Ids
      /\ GuessesCounted'
      /\ spent' \subseteq 1 .. issued
  <2>1. CASE UNCHANGED <<guesses, dropped, spent>>
    BY <2>1 DEF LoginTypeOK, GuessesCounted
  <2>2. CASE \E id \in 1 .. issued : Spend(id)
    BY <2>2, SpendCounts
  <2> QED
    BY <2>1, <2>2
<1>2. LoginTypeOK'
  BY <1>1, EndRequestKeeps DEF LoginTypeOK
<1>3. CodesIssued' /\ NewIsBound'
  <2>1. issued \in Nat
    BY DEF LoginTypeOK, Ids
  <2> QED
    BY <2>1, EndRequestKeeps DEF CodesIssued, NewIsBound, NoRequest
<1>4. SendersOverlap' /\ HoldersOverlap'
  BY EndRequestKeeps DEF SendersOverlap, HoldersOverlap, IsLocked, Holding
<1> QED
  BY <1>1, <1>2, <1>3, <1>4, EndRequestKeeps

\* A request that goes on to a stage which reads no code, and leaves the row alone.
LEMMA GoOnKeeps ==
  ASSUME LoginInv, NEW t \in Threads, NEW stage \in LoginStages \ {"idle"}, GoTo(t, stage),
         UNCHANGED <<otpVars, providerVars, account>>, pending' \in Refs, req' \in [Threads -> Request],
         \A u \in Threads \ {t} : req'[u] = req[u],
         req'[t].id <= issued,
         stage = "guess" => req'[t].id # 0,
         stage = "store" => req'[t].id # 0 /\ pc[t] = "ask",
         stage = "ask" => MaySend,
         stage \in Holding => pc[t] \in Holding /\ req'[t].id = req[t].id,
         req'[t].status # "unknown" =>
            /\ stage \in Deciding
            /\ req'[t].status = "new" => account.exists /\ account.referrer = req'[t].referrer
  PROVE  LoginInv'
<1> USE DEF LoginInv, otpVars, providerVars
<1>1. /\ pc' \in [Threads -> LoginStages]
      /\ pc'[t] = stage
      /\ \A u \in Threads \ {t} : pc'[u] = pc[u] /\ req'[u] = req[u]
  BY DEF GoTo
<1>2. LoginTypeOK'
  BY <1>1 DEF LoginTypeOK, Busy
<1>3. CodesIssued' /\ NewIsBound'
  BY <1>1 DEF CodesIssued, NewIsBound
<1>4. SendersOverlap'
  BY <1>1 DEF SendersOverlap, IsLocked, MaySend
<1>5. HoldersOverlap' /\ GuessesCounted'
  BY <1>1 DEF HoldersOverlap, GuessesCounted
<1> QED
  BY <1>1, <1>2, <1>3, <1>4, <1>5

\* The row is gone: nothing is promised of it until another code is stored.
LEMMA RowGone ==
  ASSUME LoginInv, NEW t \in Threads, EndRequest(t), DeleteRow,
         UNCHANGED <<providerVars, pending, account>>
  PROVE  LoginInv'
<1> USE DEF LoginInv, providerVars, NoRow, DeleteRow
<1>1. dropped' \subseteq Ids /\ GuessesCounted'
  BY LetGoCounts DEF GuessesCounted
<1>2. LoginTypeOK'
  BY <1>1, EndRequestKeeps DEF LoginTypeOK
<1>3. CodesIssued' /\ NewIsBound'
  <2>1. issued \in Nat
    BY DEF LoginTypeOK, Ids
  <2> QED
    BY <2>1, EndRequestKeeps DEF CodesIssued, NewIsBound, NoRequest
<1> QED
  BY <1>1, <1>2, <1>3, EndRequestKeeps DEF SendersOverlap, HoldersOverlap

LEMMA BeginKeeps ==
  ASSUME LoginInv, NEW t \in Threads,
         \/ \E ref \in Refs, resend \in BOOLEAN : BeginSend(t, ref, resend)
         \/ \E explicit, cached \in Refs : BeginVerify(t, explicit, cached)
  PROVE  LoginInv'
<1>0. /\ req \in [Threads -> Request] /\ pending \in Refs /\ issued \in Nat
  BY DEF LoginInv, LoginTypeOK, Ids
<1>1. CASE \E ref \in Refs, resend \in BOOLEAN : BeginSend(t, ref, resend)
  <2> PICK ref \in Refs, resend \in BOOLEAN : BeginSend(t, ref, resend)
    BY <1>1
  <2> DEFINE r == [NoRequest EXCEPT !.ref = ref, !.resend = resend]
  <2>1. r \in Request /\ r.id = 0 /\ r.status = "unknown"
    BY DEF NoRequest, Request, Refs
  <2>2. /\ GoTo(t, "check") /\ req' = [req EXCEPT ![t] = r] /\ pending' \in Refs
        /\ UNCHANGED <<otpVars, providerVars, account>>
    BY <1>0 DEF BeginSend, PersistReferral
  <2> HIDE DEF r
  <2> QED
    BY <1>0, <2>1, <2>2, GoOnKeeps DEF LoginStages, SendStages, Holding
<1>2. CASE \E explicit, cached \in Refs : BeginVerify(t, explicit, cached)
  <2> PICK explicit \in Refs, cached \in Refs : BeginVerify(t, explicit, cached)
    BY <1>2
  <2> DEFINE r == [NoRequest EXCEPT !.ref = IF explicit # NoRef THEN explicit ELSE cached]
  <2>1. r \in Request /\ r.id = 0 /\ r.status = "unknown"
    BY DEF NoRequest, Request, Refs
  <2>2. /\ GoTo(t, "claim") /\ req' = [req EXCEPT ![t] = r] /\ pending' \in Refs
        /\ UNCHANGED <<otpVars, providerVars, account>>
    BY <1>0 DEF BeginVerify, PersistReferral
  <2> HIDE DEF r
  <2> QED
    BY <1>0, <2>1, <2>2, GoOnKeeps DEF LoginStages, VerifyStages, Holding
<1> QED
  BY <1>1, <1>2

LEMMA SendKeeps ==
  ASSUME LoginInv, NEW t \in Threads, NEW id \in Ids, Send(t, id)
  PROVE  LoginInv'
<1> USE DEF LoginInv, Send, otpVars, GoTo
<1>1. /\ issued \in Nat /\ issued' \in Ids \cup {0} /\ issued <= issued'
      /\ 1 .. issued \subseteq 1 .. issued'
      /\ id <= issued' /\ id # 0 /\ id \in Nat
  BY DEF LoginTypeOK, Ids
<1>2. /\ pc'[t] = "store" /\ req'[t].id = id
      /\ req'[t].status = req[t].status /\ req'[t].referrer = req[t].referrer
      /\ \A u \in Threads \ {t} : pc'[u] = pc[u] /\ req'[u] = req[u]
      /\ pc' \in [Threads -> LoginStages] /\ req' \in [Threads -> Request]
  BY DEF LoginTypeOK, Request, LoginStages, SendStages
<1>3. LoginTypeOK'
  BY <1>1, <1>2 DEF LoginTypeOK, Busy
<1>4. CodesIssued'
  BY <1>1, <1>2 DEF CodesIssued, LoginTypeOK, Request, Ids
<1>5. NewIsBound'
  BY <1>2 DEF NewIsBound, Deciding
<1>6. GuessesCounted' /\ SendersOverlap' /\ HoldersOverlap'
  BY <1>2 DEF GuessesCounted, SendersOverlap, HoldersOverlap, Holding, IsLocked
<1> QED
  BY <1>2, <1>3, <1>4, <1>5, <1>6

LEMMA StoreCodeKeeps ==
  ASSUME LoginInv, NEW t \in Threads, StoreCode(t)
  PROVE  LoginInv'
<1> USE DEF LoginInv, StoreCode, providerVars
<1>1. /\ pc'[t] = "idle" /\ req'[t] = NoRequest
      /\ \A u \in Threads \ {t} : pc'[u] = pc[u] /\ req'[u] = req[u]
      /\ pc' \in [Threads -> LoginStages] /\ req' \in [Threads -> Request]
  BY DEF LoginTypeOK, GoTo, NoRequest, Request, Refs, LoginStages
<1>2. /\ row'.id = req[t].id /\ row'.attempts = Kept(req[t].id) /\ row'.fresh /\ row'.live
      /\ row' \in [id : Ids \cup {0}, attempts : 0 .. MaxAttempts, fresh : BOOLEAN, live : BOOLEAN]
  <2>1. req[t].id \in Ids \cup {0} /\ Kept(req[t].id) \in 0 .. MaxAttempts
    BY DEF LoginTypeOK, Kept, Request
  <2>2. row' \in [id : Ids \cup {0}, attempts : 0 .. MaxAttempts, fresh : BOOLEAN, live : BOOLEAN]
    BY <2>1
  <2> QED
    BY <2>2, <2>1
<1>3. overlap' = Busy \ {t} /\ Busy' = Busy \ {t}
  BY <1>1 DEF Busy
<1>4. dropped' \subseteq Ids /\ GuessesCounted'
  <2>1. row'.attempts \in Nat /\ row.attempts \in Nat /\ UNCHANGED guesses
    BY <1>2 DEF LoginTypeOK
  <2>2. CASE row.id = req[t].id
    BY <1>2, <2>1, <2>2 DEF GuessesCounted, LoginTypeOK, Kept
  <2>3. CASE row.id # req[t].id
    BY <2>1, <2>3, LetGoCounts DEF GuessesCounted
  <2> QED
    BY <2>2, <2>3
<1>5. LoginTypeOK'
  BY <1>1, <1>2, <1>3, <1>4 DEF LoginTypeOK
<1>6. CodesIssued' /\ NewIsBound'
  BY <1>1, <1>2 DEF CodesIssued, NewIsBound, Deciding, NoRequest, LoginTypeOK, Ids
<1>7. SendersOverlap' /\ HoldersOverlap'
  BY <1>1, <1>3 DEF SendersOverlap, HoldersOverlap, Holding, Busy
<1> QED
  BY <1>1, <1>4, <1>5, <1>6, <1>7

LEMMA ClaimKeeps ==
  ASSUME LoginInv, NEW t \in Threads, ClaimAttempt(t)
  PROVE  LoginInv'
<1> USE DEF LoginInv, ClaimAttempt, Claimable, providerVars
<1>1. /\ pc[t] = "claim" /\ pc'[t] = "guess" /\ req'[t].id = row.id
      /\ req'[t].status = req[t].status /\ req'[t].referrer = req[t].referrer
      /\ \A u \in Threads \ {t} : pc'[u] = pc[u] /\ req'[u] = req[u]
      /\ pc' \in [Threads -> LoginStages] /\ req' \in [Threads -> Request]
  BY DEF LoginTypeOK, GoTo, Request, LoginStages, VerifyStages
<1>2. /\ row'.id = row.id /\ row'.live = row.live /\ row'.fresh = row.fresh
      /\ row'.attempts = row.attempts + 1
      /\ row' \in [id : Ids \cup {0}, attempts : 0 .. MaxAttempts, fresh : BOOLEAN, live : BOOLEAN]
      /\ row.attempts \in Nat /\ row.attempts < MaxAttempts
  <2>1. /\ row \in [id : Ids \cup {0}, attempts : 0 .. MaxAttempts, fresh : BOOLEAN, live : BOOLEAN]
        /\ row.attempts \in Nat /\ row.attempts + 1 \in 0 .. MaxAttempts
    BY DEF LoginTypeOK
  <2>2. row' = [row EXCEPT !.attempts = row.attempts + 1]
    OBVIOUS
  <2> HIDE DEF ClaimAttempt
  <2> QED
    BY <2>1, <2>2
<1>3. Busy' = Busy /\ t \in Busy
  BY <1>1 DEF Busy
<1>9. guesses' \in [Ids -> 0 .. MaxGuesses] /\ GuessesCounted'
  <2>1. row.id \in Ids /\ guesses \in [Ids -> 0 .. MaxGuesses] /\ MaxGuesses \in Nat
    BY DEF LoginTypeOK, CodesIssued, MaxGuesses
  <2> DEFINE g == guesses[row.id]
             n == IF row.id \in spent \/ g = MaxGuesses THEN g ELSE g + 1
  <2>2. n \in 0 .. MaxGuesses /\ n <= g + 1 /\ g \in Nat
    BY <2>1
  <2>3. guesses' = [guesses EXCEPT ![row.id] = n] /\ UNCHANGED dropped
    OBVIOUS
  <2> HIDE DEF n, ClaimAttempt
  <2>4. guesses'[row.id] = n /\ \A id \in Ids \ {row.id} : guesses'[id] = guesses[id]
    BY <2>1, <2>3
  <2>5. row.live /\ row'.live
    BY <1>2 DEF ClaimAttempt
  <2>6. guesses' \in [Ids -> 0 .. MaxGuesses]
    BY <2>1, <2>2, <2>3
  <2>7. ASSUME NEW id \in Ids \ dropped'
        PROVE  guesses'[id] <= IF row'.live /\ row'.id = id THEN row'.attempts ELSE 0
    <3>1. id \in Ids \ dropped /\ guesses[id] <= IF row.live /\ row.id = id THEN row.attempts ELSE 0
      BY <2>3 DEF GuessesCounted
    <3>2. CASE id = row.id
      BY <1>2, <2>2, <2>4, <2>5, <3>1, <3>2
    <3>3. CASE id # row.id
      BY <1>2, <2>4, <3>1, <3>3
    <3> QED
      BY <3>2, <3>3
  <2> QED
    BY <2>6, <2>7 DEF GuessesCounted
<1>4. LoginTypeOK'
  <2>1. overlap' \subseteq Busy'
    BY <1>3 DEF LoginTypeOK
  <2> QED
    BY <1>1, <1>2, <1>9, <2>1 DEF LoginTypeOK
<1>5. CodesIssued'
  BY <1>1, <1>2 DEF CodesIssued
<1>6. NewIsBound'
  BY <1>1, <1>2 DEF NewIsBound, Deciding, LoginTypeOK
<1>7. SendersOverlap'
  BY <1>1, <1>2 DEF SendersOverlap, IsLocked, Busy
<1>8. HoldersOverlap'
  BY <1>1, <1>2 DEF HoldersOverlap, Holding, Busy
<1> QED
  BY <1>1, <1>4, <1>5, <1>6, <1>7, <1>8, <1>9

\* The last of the row does not stop a login that has what it needs.
LEMMA DeleteCodeKeeps ==
  ASSUME LoginInv, NEW t \in Threads, DeleteCode(t)
  PROVE  LoginInv'
<1> USE DEF LoginInv, DeleteCode, DeleteRow, NoRow, providerVars
<1>1. /\ pc[t] = "finish" /\ pc'[t] = "clear"
      /\ \A u \in Threads \ {t} : pc'[u] = pc[u]
      /\ pc' \in [Threads -> LoginStages]
  BY DEF GoTo, LoginStages, VerifyStages
<1>2. dropped' \subseteq Ids /\ GuessesCounted'
  BY LetGoCounts DEF GuessesCounted
<1>3. LoginTypeOK'
  BY <1>1, <1>2 DEF LoginTypeOK, Busy
<1>4. CodesIssued' /\ NewIsBound'
  BY <1>1 DEF CodesIssued, NewIsBound, Deciding, LoginTypeOK, Ids
<1> QED
  BY <1>1, <1>2, <1>3, <1>4 DEF SendersOverlap, HoldersOverlap

LEMMA InsertUserKeeps ==
  ASSUME LoginInv, NEW t \in Threads, InsertUser(t)
  PROVE  LoginInv'
<1> USE DEF LoginInv, InsertUser, GoTo, otpVars, providerVars
<1>1. CASE account.exists
  <2>1. /\ req' = Found(t) /\ req' \in [Threads -> Request]
        /\ req'[t].status = "existing" /\ req'[t].id = req[t].id
        /\ \A u \in Threads \ {t} : req'[u] = req[u]
    BY <1>1 DEF Found, LoginTypeOK, Request
  <2>2. /\ req[t].id <= issued /\ pending' \in Refs
        /\ pc[t] = "insert" /\ pc' = [pc EXCEPT ![t] = "finish"]
        /\ UNCHANGED <<otpVars, providerVars, account>>
    BY <1>1 DEF CodesIssued, LoginTypeOK
  <2> HIDE DEF InsertUser, LoginInv
  <2> QED
    BY <2>1, <2>2, GoOnKeeps DEF LoginStages, VerifyStages, Holding, Deciding
<1>2. CASE ~account.exists
  <2>1. /\ req' \in [Threads -> Request]
        /\ req'[t].status = "new" /\ req'[t].id = req[t].id /\ req'[t].referrer = req[t].referrer
        /\ \A u \in Threads \ {t} : req'[u] = req[u]
        /\ pc'[t] = "finish" /\ \A u \in Threads \ {t} : pc'[u] = pc[u]
        /\ pc' \in [Threads -> LoginStages]
    BY <1>2 DEF LoginTypeOK, Request, LoginStages, VerifyStages
  <2>2. /\ account' \in [exists : BOOLEAN, referrer : Refs, usable : BOOLEAN]
        /\ account'.exists /\ account'.referrer = req[t].referrer
    <3>1. req[t].referrer \in Refs
      BY DEF LoginTypeOK, Request
    <3> QED
      BY <1>2, <3>1 DEF NoAccount
  <2>3. LoginTypeOK'
    BY <2>1, <2>2 DEF LoginTypeOK, Busy
  <2>4. CodesIssued'
    BY <2>1 DEF CodesIssued
  <2>5. NewIsBound'
    BY <1>2, <2>1, <2>2 DEF NewIsBound, Deciding
  <2>6. GuessesCounted' /\ SendersOverlap' /\ HoldersOverlap'
    BY <2>1 DEF GuessesCounted, SendersOverlap, HoldersOverlap, Holding, IsLocked
  <2> QED
    BY <2>1, <2>3, <2>4, <2>5, <2>6
<1> QED
  BY <1>1, <1>2

\* The fallback after the INSERT finds nothing to do.
LEMMA NothingToRebind == ASSUME LoginInv, NEW t \in Threads PROVE ~Rebinds(t)
  BY DEF LoginInv, NewIsBound, Rebinds

\* The steps that only move their request on.
LEMMA MoveOnKeeps ==
  ASSUME LoginInv, NEW t \in Threads,
         \/ PassCheck(t) \/ RightCode(t) \/ PersistAgain(t) \/ LookupReferrer(t) \/ SelectUser(t)
  PROVE  LoginInv'
<1>1. /\ req \in [Threads -> Request] /\ req[t].id <= issued
      /\ pending \in Refs /\ req[t].ref \in Refs
      /\ req[t].status # "unknown" => pc[t] \in Deciding
  BY DEF LoginInv, LoginTypeOK, CodesIssued, NewIsBound, Request
<1>2. CASE PassCheck(t)
  BY <1>1, <1>2, GoOnKeeps DEF PassCheck, LoginStages, SendStages, Holding, Deciding
<1>3. CASE RightCode(t)
  <2>1. /\ pc[t] = "guess" /\ GoTo(t, "persist")
        /\ UNCHANGED <<row, overlap, issued, pending, account, req>>
        /\ spent' \subseteq 1 .. issued
        /\ guesses' \in [Ids -> 0 .. MaxGuesses] /\ dropped' \subseteq Ids
        /\ GuessesCounted'
    <3>1. pc[t] = "guess" => req[t].id \in 1 .. issued
      BY DEF LoginInv, LoginTypeOK, CodesIssued, Ids, Request
    <3> QED
      BY <1>3, <3>1, SpendCounts DEF RightCode
  <2>2. /\ pc'[t] = "persist" /\ \A u \in Threads \ {t} : pc'[u] = pc[u]
        /\ pc' \in [Threads -> LoginStages]
    BY <2>1 DEF GoTo, LoginInv, LoginStages, VerifyStages
  <2>3. LoginTypeOK'
    BY <2>1, <2>2 DEF LoginInv, LoginTypeOK, Busy
  <2>4. CodesIssued' /\ NewIsBound'
    BY <2>1, <2>2 DEF LoginInv, CodesIssued, NewIsBound, Deciding
  <2>5. SendersOverlap' /\ HoldersOverlap'
    BY <2>1, <2>2 DEF LoginInv, SendersOverlap, HoldersOverlap, Holding, IsLocked
  <2> QED
    BY <2>1, <2>2, <2>3, <2>4, <2>5 DEF LoginInv
<1>4. CASE PersistAgain(t)
  <2>1. PICK ref \in Refs : req' = [req EXCEPT ![t].ref = ref]
    BY <1>1, <1>4 DEF PersistAgain
  <2> DEFINE r == [req[t] EXCEPT !.ref = ref]
  <2>2. /\ r \in Request /\ r.id = req[t].id /\ r.status = req[t].status
        /\ req' = [req EXCEPT ![t] = r]
    BY <1>1, <2>1 DEF Request
  <2>3. /\ pc[t] = "persist" /\ GoTo(t, "lookup") /\ pending' \in Refs
        /\ UNCHANGED <<otpVars, providerVars, account>>
    BY <1>1, <1>4 DEF PersistAgain, PersistReferral
  <2> HIDE DEF r
  <2>4. /\ req' \in [Threads -> Request] /\ req'[t] = r /\ \A u \in Threads \ {t} : req'[u] = req[u]
    BY <1>1, <2>2
  <2> QED
    BY <1>1, <2>2, <2>3, <2>4, GoOnKeeps DEF LoginStages, VerifyStages, Holding, Deciding
<1>5. CASE LookupReferrer(t)
  <2> DEFINE r == [req[t] EXCEPT !.referrer = IF pending # NoRef THEN pending ELSE req[t].ref,
                                 !.ref = NoRef]
  <2>1. r \in Request /\ r.id = req[t].id /\ r.status = req[t].status
    BY <1>1 DEF Request, Refs
  <2>2. req' = [req EXCEPT ![t] = r]
    BY <1>1, <1>5 DEF LookupReferrer, Request
  <2>3. /\ pc[t] = "lookup" /\ GoTo(t, "select")
        /\ UNCHANGED <<otpVars, providerVars, pending, account>>
    BY <1>5 DEF LookupReferrer
  <2> HIDE DEF r
  <2>4. /\ req' \in [Threads -> Request] /\ req'[t] = r /\ \A u \in Threads \ {t} : req'[u] = req[u]
    BY <1>1, <2>1, <2>2
  <2> QED
    BY <1>1, <2>1, <2>3, <2>4, GoOnKeeps DEF LoginStages, VerifyStages, Holding, Deciding
<1>6. CASE SelectUser(t)
  <2>1. CASE account.exists
    <3>1. /\ req' = Found(t) /\ GoTo(t, "finish") /\ pc[t] = "select"
          /\ UNCHANGED <<otpVars, providerVars, pending, account>>
      BY <1>6, <2>1 DEF SelectUser
    <3>2. /\ req' \in [Threads -> Request]
          /\ req'[t].status = "existing" /\ req'[t].id = req[t].id
          /\ \A u \in Threads \ {t} : req'[u] = req[u]
      <4>1. account.usable \in BOOLEAN
        BY DEF LoginInv, LoginTypeOK
      <4>2. req[t] \in Request
        BY <1>1
      <4>3. [req[t] EXCEPT !.status = "existing", !.usable = account.usable] \in Request
        BY <4>1, <4>2 DEF Request
      <4>4. req' = [req EXCEPT ![t] = [req[t] EXCEPT !.status = "existing", !.usable = account.usable]]
        BY <1>1, <4>2, <3>1 DEF Found
      <4> QED
        BY <1>1, <4>2, <4>3, <4>4 DEF Request
    <3>3. req'[t].id <= issued /\ pending' \in Refs /\ "finish" \in LoginStages \ {"idle"}
      BY <1>1, <3>1, <3>2 DEF LoginStages, VerifyStages
    <3> QED
      BY <3>1, <3>2, <3>3, GoOnKeeps DEF Holding, Deciding
  <2>2. CASE ~account.exists
    BY <1>1, <1>6, <2>2, GoOnKeeps DEF SelectUser, LoginStages, VerifyStages, Holding, Deciding
  <2> QED
    BY <2>1, <2>2
<1> QED
  BY <1>2, <1>3, <1>4, <1>5, <1>6

\* The steps that end their request.
LEMMA EndKeeps ==
  ASSUME LoginInv, NEW t \in Threads,
         \/ FailCheck(t) \/ SendFails(t) \/ RefuseClaim(t) \/ WrongCode(t) \/ ResolveFails(t)
         \/ RefuseSuspended(t) \/ ClearPending(t) \/ RequestFails(t)
  PROVE  LoginInv'
<1>1. /\ spent \subseteq 1 .. issued /\ pending \in Refs /\ NoRef \in Refs
      /\ pc[t] = "guess" => req[t].id \in 1 .. issued
  BY DEF LoginInv, LoginTypeOK, CodesIssued, Refs, Request, Ids
<1>2. CASE FailCheck(t) \/ RefuseClaim(t) \/ RequestFails(t)
  BY <1>1, <1>2, GiveUpKeeps DEF FailCheck, RefuseClaim, RequestFails, providerVars
<1>3. CASE WrongCode(t)
  BY <1>1, <1>3, GiveUpKeeps DEF WrongCode
<1>4. CASE SendFails(t)
  BY <1>1, <1>4, GiveUpKeeps, RowGone DEF SendFails, providerVars
<1>5. CASE ResolveFails(t) \/ RefuseSuspended(t)
  BY <1>5, RowGone DEF ResolveFails, RefuseSuspended
<1>6. CASE ClearPending(t)
  BY <1>1, <1>6, NothingToRebind, GiveUpKeeps DEF ClearPending, providerVars
<1> QED
  BY <1>2, <1>3, <1>4, <1>5, <1>6

LEMMA WorldKeeps == LoginInv /\ WorldStep => LoginInv'
<1> SUFFICES ASSUME LoginInv, WorldStep PROVE LoginInv'
  OBVIOUS
<1> USE DEF LoginInv, otpVars, providerVars
<1>1. CASE CooldownEnds
  <2>1. /\ row' \in [id : Ids \cup {0}, attempts : 0 .. MaxAttempts, fresh : BOOLEAN, live : BOOLEAN]
        /\ row'.id = row.id /\ row'.attempts = row.attempts /\ row'.live = row.live /\ ~row'.fresh
    BY <1>1 DEF CooldownEnds, LoginTypeOK
  <2>2. UNCHANGED <<guesses, dropped, overlap, providerVars, pending, account, pc, req>>
    BY <1>1 DEF CooldownEnds
  <2>3. LoginTypeOK'
    BY <2>1, <2>2 DEF LoginTypeOK, Busy
  <2>4. CodesIssued' /\ NewIsBound' /\ GuessesCounted' /\ SendersOverlap' /\ HoldersOverlap'
    BY <1>1, <2>1, <2>2 DEF CooldownEnds, CodesIssued, NewIsBound, GuessesCounted, SendersOverlap,
                            HoldersOverlap, IsLocked
  <2> QED
    BY <2>2, <2>3, <2>4
<1>2. CASE RowExpires
  <2>1. /\ row' \in [id : Ids \cup {0}, attempts : 0 .. MaxAttempts, fresh : BOOLEAN, live : BOOLEAN]
        /\ row'.id = row.id /\ ~row'.live
    BY <1>2 DEF RowExpires, LoginTypeOK
  <2>2. /\ UNCHANGED <<overlap, providerVars, pending, account, pc, req>>
        /\ guesses' = [guesses EXCEPT ![row.id] = 0]
        /\ dropped' = dropped \ {row.id}
        /\ row.live
    BY <1>2 DEF RowExpires
  <2>3. /\ row.id \in Ids /\ guesses \in [Ids -> 0 .. MaxGuesses] /\ dropped \subseteq Ids
        /\ MaxGuesses \in Nat
    BY <2>2 DEF LoginTypeOK, CodesIssued, MaxGuesses
  <2>4. LoginTypeOK'
    BY <2>1, <2>2, <2>3 DEF LoginTypeOK, Busy
  <2>5. GuessesCounted'
    BY <2>1, <2>2, <2>3 DEF GuessesCounted
  <2>6. CodesIssued' /\ NewIsBound' /\ SendersOverlap' /\ HoldersOverlap'
    BY <2>1, <2>2 DEF CodesIssued, NewIsBound, SendersOverlap, HoldersOverlap
  <2> QED
    BY <2>2, <2>4, <2>5, <2>6
<1>3. CASE PendingExpires
  <2>1. LoginTypeOK'
    BY <1>3 DEF PendingExpires, LoginTypeOK, Busy, Refs
  <2> QED
    BY <1>3, <2>1 DEF PendingExpires, CodesIssued, NewIsBound, GuessesCounted, SendersOverlap,
                      HoldersOverlap, IsLocked
<1>4. CASE \E usable \in BOOLEAN : SetUsable(usable)
  <2>1. /\ account' \in [exists : BOOLEAN, referrer : Refs, usable : BOOLEAN]
        /\ account'.exists = account.exists /\ account'.referrer = account.referrer
        /\ UNCHANGED <<otpVars, providerVars, pending, pc, req>>
    BY <1>4 DEF SetUsable, LoginTypeOK
  <2>2. LoginTypeOK'
    BY <2>1 DEF LoginTypeOK, Busy
  <2>3. CodesIssued' /\ NewIsBound' /\ GuessesCounted' /\ SendersOverlap' /\ HoldersOverlap'
    BY <2>1 DEF CodesIssued, NewIsBound, GuessesCounted, SendersOverlap, HoldersOverlap, IsLocked
  <2> QED
    BY <2>1, <2>2, <2>3
<1> QED
  BY <1>1, <1>2, <1>3, <1>4 DEF WorldStep

\* The inductive invariant of login.
THEOREM LoginInvariance == LoginSpec => []LoginInv
<1>1. LoginInv /\ [LoginNext]_loginVars => LoginInv'
  <2> SUFFICES ASSUME LoginInv, [LoginNext]_loginVars PROVE LoginInv'
    OBVIOUS
  <2>1. CASE UNCHANGED loginVars
    <3>1. LoginTypeOK'
      BY <2>1 DEF loginVars, otpVars, providerVars, LoginInv, LoginTypeOK, Busy
    <3> QED
      BY <2>1, <3>1 DEF loginVars, otpVars, providerVars, LoginInv, CodesIssued, GuessesCounted,
                        NewIsBound, SendersOverlap, HoldersOverlap, IsLocked
  <2>2. CASE \E t \in Threads : SendStep(t) \/ VerifyStep(t) \/ RequestFails(t)
    BY <2>2, BeginKeeps, MoveOnKeeps, SendKeeps, StoreCodeKeeps, ClaimKeeps, InsertUserKeeps,
       DeleteCodeKeeps, EndKeeps DEF SendStep, VerifyStep
  <2> QED
    BY <2>1, <2>2, WorldKeeps DEF LoginNext
<1> QED
  BY <1>1, LoginInitInv, PTL DEF LoginSpec

\* Type correctness of login.
THEOREM LoginTypeCorrect == LoginSpec => []LoginTypeOK
  BY LoginInvariance, PTL DEF LoginInv

\* However many requests send, resend and verify at once, no more than
\* MAX_OTP_ATTEMPTS guesses of one code are sent on until it is used or its time is
\* over (reserve_attempt, store_verification), as long as its row is not deleted or
\* overwritten before that; resending the same code starts no new count.
THEOREM GuessesBoundedAlways == LoginSpec => []GuessesBounded
<1>1. LoginInv => GuessesBounded
  <2> SUFFICES ASSUME LoginInv, NEW id \in Ids \ dropped PROVE guesses[id] <= MaxAttempts
    BY DEF GuessesBounded
  <2>1. row.attempts \in 0 .. MaxAttempts /\ guesses[id] \in Nat
    BY DEF LoginInv, LoginTypeOK, MaxGuesses
  <2> QED
    BY <2>1 DEF LoginInv, GuessesCounted
<1> QED
  BY <1>1, LoginInvariance, PTL

\* The referrer of an account is bound by its INSERT and never changes again
\* (get_or_create_user).
THEOREM ReferrerKeptAlways == LoginSpec => ReferrerKept
<1>1. LoginInv /\ [LoginNext]_loginVars =>
        [account.exists => account'.exists /\ account'.referrer = account.referrer]_loginVars
  <2> SUFFICES ASSUME LoginInv, LoginNext, account.exists
               PROVE  account'.exists /\ account'.referrer = account.referrer
    OBVIOUS
  <2>1. CASE \E t \in Threads : InsertUser(t) \/ ClearPending(t)
    BY <2>1, NothingToRebind DEF InsertUser, ClearPending
  <2>2. CASE \E usable \in BOOLEAN : SetUsable(usable)
    BY <2>2 DEF SetUsable, LoginInv, LoginTypeOK
  <2>3. CASE UNCHANGED account
    BY <2>3
  <2> QED
    BY <2>1, <2>2, <2>3
       DEF LoginNext, SendStep, VerifyStep, WorldStep, BeginSend, PassCheck, FailCheck, Send, SendFails,
           StoreCode, BeginVerify, ClaimAttempt, RefuseClaim, RightCode, WrongCode, PersistAgain,
           LookupReferrer, SelectUser, ResolveFails, RefuseSuspended, DeleteCode, RequestFails,
           CooldownEnds, RowExpires, PendingExpires
<1> QED
  BY <1>1, LoginInvariance, PTL DEF LoginSpec, ReferrerKept

\* A request that takes the row away is one of those RowIsStable allows.
LEMMA RowTaken ==
  ASSUME LoginInv, LoginNext, NEW t \in Threads, row.live, row.fresh \/ IsLocked,
         row'.id # row.id \/ row'.attempts < row.attempts, pc'[t] # pc[t]
  PROVE  t \in overlap \/ req[t].id = row.id
<1>1. pc \in [Threads -> LoginStages] /\ row.attempts \in Nat
  BY DEF LoginInv, LoginTypeOK
<1>0. row' # row
  BY <1>1
<1>2. ~WorldStep
  BY DEF WorldStep, CooldownEnds, RowExpires, PendingExpires, SetUsable
<1>3. PICK u \in Threads : SendStep(u) \/ VerifyStep(u) \/ RequestFails(u)
  BY <1>2 DEF LoginNext
<1>4. u = t
  BY <1>1, <1>3 DEF SendStep, VerifyStep, BeginSend, PassCheck, FailCheck, Send, SendFails, StoreCode,
           BeginVerify, ClaimAttempt, RefuseClaim, RightCode, WrongCode, PersistAgain, LookupReferrer,
           SelectUser, InsertUser, ResolveFails, RefuseSuspended, DeleteCode, ClearPending, RequestFails,
           GoTo, EndRequest
<1>5. CASE SendStep(t)
  <2>1. pc[t] \in {"ask", "store"}
    BY <1>0, <1>5 DEF SendStep, BeginSend, PassCheck, FailCheck, Send, SendFails, StoreCode, otpVars
  <2> QED
    BY <2>1 DEF LoginInv, SendersOverlap
<1>6. CASE VerifyStep(t) \/ RequestFails(t)
  <2>1. ~ClaimAttempt(t)
    BY <1>1 DEF ClaimAttempt, LoginInv, LoginTypeOK
  <2>2. pc[t] \in Holding
    BY <1>0, <1>6, <2>1 DEF VerifyStep, BeginVerify, RefuseClaim, RightCode, WrongCode, PersistAgain,
           LookupReferrer, SelectUser, InsertUser, ResolveFails, RefuseSuspended, DeleteCode, ClearPending,
           RequestFails, Holding, otpVars
  <2> QED
    BY <2>2 DEF LoginInv, HoldersOverlap
<1> QED
  BY <1>3, <1>4, <1>5, <1>6

\* A code that was just sent, and the lock of a number, are taken away only by
\* requests that ran before, or by a login with that code (send_otp, verify_otp).
THEOREM RowIsStableAlways == LoginSpec => RowIsStable
<1>1. LoginInv /\ [LoginNext]_loginVars =>
        [\A t \in Threads :
           /\ row.live /\ (row.fresh \/ IsLocked)
           /\ row'.id # row.id \/ row'.attempts < row.attempts
           /\ pc'[t] # pc[t]
           => t \in overlap \/ req[t].id = row.id]_loginVars
  BY RowTaken
<1> QED
  BY <1>1, LoginInvariance, PTL DEF LoginSpec, RowIsStable
=============================================================================
