------------------------------- MODULE Login -------------------------------
(***************************************************************************)
(* Login with a one-time password for one phone number: send_otp,          *)
(* resend_otp and verify_otp of routes/auth_routes.py, run by the request  *)
(* threads of the server.                                                  *)
(*                                                                         *)
(* A request is a chain of short transactions on otp_verifications,        *)
(* pending_referrals and users, with calls to the SMS provider in between, *)
(* and holds no lock from one to the next.  Clocks are abstracted: a row   *)
(* stops being fresh (the cooldown is over) and stops being live (the code *)
(* or the lock has expired) at any time.                                   *)
(***************************************************************************)
EXTENDS Integers, FiniteSets

CONSTANTS
    Threads,        \* request threads of the server
    Referrers,      \* other users whose referral code is known
    NoRef,          \* no code, an unknown one, or the number's own
    MaxAttempts,    \* MAX_OTP_ATTEMPTS
    MaxCodes        \* bound: codes the provider sends

VARIABLES
    row,            \* the row of otp_verifications, or NoRow
    issued,         \* how many codes the provider has sent; ids are 1, 2, ...
    spent,          \* ids the provider has verified
    pending,        \* the referrer of pending_referrals, NoRef when there is none
    account,        \* the row of users
    pc,             \* [Threads -> Stages], the next statement of a request
    req,            \* [Threads -> Request], what the request has read
    guesses,        \* history: [Ids -> claims of a code], until it is used or its time is over
    dropped,        \* history: codes whose row went away before that, with claims
    overlap         \* history: requests that ran when the row was stored or locked

otpVars == <<row, guesses, dropped, overlap>>
providerVars == <<issued, spent>>
loginVars == <<otpVars, providerVars, pending, account, pc, req>>

ASSUME LoginAssumption ==
    /\ NoRef \notin Referrers
    /\ MaxAttempts \in Nat \ {0}
    /\ MaxCodes \in Nat

Ids == 1 .. MaxCodes
MaxGuesses == MaxAttempts + 1   \* bound: the history counts up to one too many
Refs == Referrers \cup {NoRef}

SendStages == {"check", "ask", "store"}
VerifyStages == {"claim", "guess", "persist", "lookup", "select", "insert", "finish", "clear"}
LoginStages == {"idle"} \cup SendStages \cup VerifyStages

NoRow == [id |-> 0, attempts |-> 0, fresh |-> FALSE, live |-> FALSE]
NoAccount == [exists |-> FALSE, referrer |-> NoRef, usable |-> TRUE]

\* ref: the code the request or its session cookie carries; id: the code sent or
\* claimed; referrer: for a new account; status, usable: the account it found.
NoRequest == [ref |-> NoRef, resend |-> FALSE, id |-> 0,
              referrer |-> NoRef, status |-> "unknown", usable |-> TRUE]

LoginInit ==
    /\ row = NoRow
    /\ issued = 0
    /\ spent = {}
    /\ pending = NoRef
    /\ \E known \in BOOLEAN : account = [NoAccount EXCEPT !.exists = known]
    /\ pc = [t \in Threads |-> "idle"]
    /\ req = [t \in Threads |-> NoRequest]
    /\ guesses = [id \in Ids |-> 0]
    /\ dropped = {}
    /\ overlap = {}

Busy == {t \in Threads : pc[t] # "idle"}

\* get_verification finds the row, and it is locked.
IsLocked == row.live /\ row.attempts >= MaxAttempts

GoTo(t, stage) == pc' = [pc EXCEPT ![t] = stage]

\* The answer is on its way: nothing of the request is left.
EndRequest(t) ==
    /\ GoTo(t, "idle")
    /\ req' = [req EXCEPT ![t] = NoRequest]
    /\ overlap' = overlap \ {t}

\* The row lets go of its code, and with it of its count.
LetGo == dropped' = dropped \cup {id \in Ids : row.live /\ id = row.id /\ guesses[id] > 0}

\* delete_verification.
DeleteRow == row' = NoRow /\ LetGo /\ UNCHANGED guesses

\* upsert_pending_referral; a request without a usable code writes nothing.
PersistReferral(ref) == pending' = IF ref = NoRef THEN pending ELSE ref

-----------------------------------------------------------------------------
(* send_otp and resend_otp.                                                *)

BeginSend(t, ref, resend) ==
    /\ pc[t] = "idle"
    /\ PersistReferral(ref)
    /\ GoTo(t, "check")
    /\ req' = [req EXCEPT ![t] = [NoRequest EXCEPT !.ref = ref, !.resend = resend]]
    /\ UNCHANGED <<otpVars, providerVars, account>>

\* Slip: the lock is not looked at.
MaySend_Locked == row.live => ~row.fresh

\* get_verification: a live row must be neither locked nor fresh.
MaySend == row.live => ~IsLocked /\ ~row.fresh

PassCheck(t) ==
    /\ pc[t] = "check"
    /\ MaySend
    /\ GoTo(t, "ask")
    /\ UNCHANGED <<otpVars, providerVars, pending, account, req>>

FailCheck(t) ==
    /\ pc[t] = "check"
    /\ ~MaySend
    /\ EndRequest(t)
    /\ UNCHANGED <<row, guesses, dropped, providerVars, pending, account>>

\* The provider sends a new code, or names the one that is still in flight.
Send(t, id) ==
    /\ pc[t] = "ask"
    /\ \/ issued < MaxCodes /\ id = issued + 1 /\ issued' = id
       \/ id = issued /\ id # 0 /\ id \notin spent /\ UNCHANGED issued
    /\ GoTo(t, "store")
    /\ req' = [req EXCEPT ![t].id = id]
    /\ UNCHANGED <<otpVars, spent, pending, account>>

\* The provider failed: send_otp deletes the row, resend_otp leaves it.
SendFails(t) ==
    /\ pc[t] = "ask"
    /\ IF req[t].resend
       THEN UNCHANGED <<row, guesses, dropped>>
       ELSE DeleteRow
    /\ EndRequest(t)
    /\ UNCHANGED <<providerVars, pending, account>>

\* Slip: every send starts the count again.
Kept_Never(id) == 0

\* store_verification: the attempts survive only for the same live code.
Kept(id) == IF row.id = id /\ row.live THEN row.attempts ELSE 0

StoreCode(t) ==
    /\ pc[t] = "store"
    /\ row' = [id |-> req[t].id, attempts |-> Kept(req[t].id), fresh |-> TRUE, live |-> TRUE]
    /\ IF row.id = req[t].id THEN UNCHANGED dropped ELSE LetGo
    /\ overlap' = Busy \ {t}
    /\ GoTo(t, "idle")
    /\ req' = [req EXCEPT ![t] = NoRequest]
    /\ UNCHANGED <<guesses, providerVars, pending, account>>

-----------------------------------------------------------------------------
(* verify_otp: the code.                                                   *)

\* An explicit code is stored at once, one of the session cookie only later.
BeginVerify(t, explicit, cached) ==
    /\ pc[t] = "idle"
    /\ PersistReferral(explicit)
    /\ GoTo(t, "claim")
    /\ req' = [req EXCEPT ![t] =
                 [NoRequest EXCEPT !.ref = IF explicit # NoRef THEN explicit ELSE cached]]
    /\ UNCHANGED <<otpVars, providerVars, account>>

\* Slip: one attempt too many.
Claimable_OffByOne == row.live /\ row.attempts <= MaxAttempts

\* reserve_attempt: one UPDATE that counts the attempt, and locks with the last.
\* The unlocked get_verification before it only lets a request give up earlier.
Claimable == row.live /\ row.attempts < MaxAttempts

ClaimAttempt(t) ==
    /\ pc[t] = "claim"
    /\ Claimable
    /\ row' = [row EXCEPT !.attempts = @ + 1]
    /\ guesses' = [guesses EXCEPT ![row.id] =
                    IF row.id \in spent \/ @ = MaxGuesses THEN @ ELSE @ + 1]
    /\ overlap' = IF row.attempts + 1 = MaxAttempts THEN Busy \ {t} ELSE overlap
    /\ GoTo(t, "guess")
    /\ req' = [req EXCEPT ![t].id = row.id]
    /\ UNCHANGED <<dropped, providerVars, pending, account>>

RefuseClaim(t) ==
    /\ pc[t] = "claim"
    /\ ~Claimable
    /\ EndRequest(t)
    /\ UNCHANGED <<row, guesses, dropped, providerVars, pending, account>>

\* A used code has no guesses left to count.
Spend(id) ==
    /\ spent' = spent \cup {id}
    /\ guesses' = [guesses EXCEPT ![id] = 0]
    /\ dropped' = dropped \ {id}

RightCode(t) ==
    /\ pc[t] = "guess"
    /\ req[t].id \notin spent
    /\ Spend(req[t].id)
    /\ GoTo(t, "persist")
    /\ UNCHANGED <<row, overlap, issued, pending, account, req>>

\* A wrong code, or a right one whose answer was lost: the repeated call is then
\* told that the code was used.
WrongCode(t) ==
    /\ pc[t] = "guess"
    /\ Spend(req[t].id) \/ UNCHANGED <<spent, guesses, dropped>>
    /\ EndRequest(t)
    /\ UNCHANGED <<row, issued, pending, account>>

-----------------------------------------------------------------------------
(* verify_otp: the account.                                                *)

\* resolve_referrer_id_for_signup, first the code of this request; without any
\* (an unknown one is different) the session takes over the pending one ...
PersistAgain(t) ==
    /\ pc[t] = "persist"
    /\ PersistReferral(req[t].ref)
    /\ \E ref \in {req[t].ref, pending} :
         /\ req[t].ref # NoRef => ref = req[t].ref
         /\ req' = [req EXCEPT ![t].ref = ref]
    /\ GoTo(t, "lookup")
    /\ UNCHANGED <<otpVars, providerVars, account>>

\* ... then the pending referral, then the session cookie.
LookupReferrer(t) ==
    /\ pc[t] = "lookup"
    /\ req' = [req EXCEPT ![t].referrer = IF pending # NoRef THEN pending ELSE req[t].ref,
                          ![t].ref = NoRef]
    /\ GoTo(t, "select")
    /\ UNCHANGED <<otpVars, providerVars, pending, account>>

Found(t) == [req EXCEPT ![t].status = "existing", ![t].usable = account.usable]

\* get_or_create_user: the account as it is read, without a lock.
SelectUser(t) ==
    /\ pc[t] = "select"
    /\ IF account.exists
       THEN GoTo(t, "finish") /\ req' = Found(t)
       ELSE GoTo(t, "insert") /\ UNCHANGED req
    /\ UNCHANGED <<otpVars, providerVars, pending, account>>

\* Slip: an upsert on the number.
InsertUser_Upsert(t) ==
    /\ pc[t] = "insert"
    /\ account' = [NoAccount EXCEPT !.exists = TRUE, !.referrer = req[t].referrer]
    /\ req' = [req EXCEPT ![t].status = "new"]
    /\ GoTo(t, "finish")
    /\ UNCHANGED <<otpVars, providerVars, pending>>

\* The INSERT, or the unique index on the number refuses it and the account of
\* the request that was faster is read.
InsertUser(t) ==
    /\ pc[t] = "insert"
    /\ IF account.exists
       THEN /\ req' = Found(t)
            /\ UNCHANGED account
       ELSE /\ account' = [NoAccount EXCEPT !.exists = TRUE, !.referrer = req[t].referrer]
            /\ req' = [req EXCEPT ![t].status = "new"]
    /\ GoTo(t, "finish")
    /\ UNCHANGED <<otpVars, providerVars, pending>>

\* No referral code is free, or the database failed: the code is spent, so the
\* row is removed and the user is told to ask for a new one.
ResolveFails(t) ==
    /\ pc[t] \in {"persist", "lookup", "select", "insert"}
    /\ DeleteRow
    /\ EndRequest(t)
    /\ UNCHANGED <<providerVars, pending, account>>

\* account_is_usable, on what was read, decides before any cookie is set.
RefuseSuspended(t) ==
    /\ pc[t] = "finish" /\ ~req[t].usable
    /\ DeleteRow
    /\ EndRequest(t)
    /\ UNCHANGED <<providerVars, pending, account>>

DeleteCode(t) ==
    /\ pc[t] = "finish" /\ req[t].usable
    /\ DeleteRow
    /\ GoTo(t, "clear")
    /\ UNCHANGED <<overlap, providerVars, pending, account, req>>

\* The fallback for an INSERT that did not bind the referrer.
Rebinds(t) == req[t].status = "new" /\ account.referrer = NoRef /\ req[t].referrer # NoRef

\* The fallback and clear_pending_referral; the tokens are made next.
ClearPending(t) ==
    /\ pc[t] = "clear"
    /\ account' = IF Rebinds(t) THEN [account EXCEPT !.referrer = req[t].referrer] ELSE account
    /\ pending' = NoRef
    /\ EndRequest(t)
    /\ UNCHANGED <<row, guesses, dropped, providerVars>>

-----------------------------------------------------------------------------
(* Time, the admin and failures.                                           *)

CooldownEnds ==
    /\ row.fresh
    /\ row' = [row EXCEPT !.fresh = FALSE]
    /\ UNCHANGED <<guesses, dropped, overlap, providerVars, pending, account, pc, req>>

\* The code or the lock of the row runs out, and the count of its guesses with it.
RowExpires ==
    /\ row.live
    /\ row' = [row EXCEPT !.live = FALSE]
    /\ guesses' = [guesses EXCEPT ![row.id] = 0]
    /\ dropped' = dropped \ {row.id}
    /\ UNCHANGED <<overlap, providerVars, pending, account, pc, req>>

PendingExpires ==
    /\ pending # NoRef
    /\ pending' = NoRef
    /\ UNCHANGED <<otpVars, providerVars, account, pc, req>>

\* ban_user and unban_user.
SetUsable(usable) ==
    /\ account.exists /\ account.usable # usable
    /\ account' = [account EXCEPT !.usable = usable]
    /\ UNCHANGED <<otpVars, providerVars, pending, pc, req>>

\* A statement fails and the request is answered 500; what it committed stays.
RequestFails(t) ==
    /\ pc[t] \in LoginStages \ {"idle"}
    /\ EndRequest(t)
    /\ UNCHANGED <<row, guesses, dropped, providerVars, pending, account>>

SendStep(t) ==
    \/ \E ref \in Refs, resend \in BOOLEAN : BeginSend(t, ref, resend)
    \/ PassCheck(t)
    \/ FailCheck(t)
    \/ \E id \in Ids : Send(t, id)
    \/ SendFails(t)
    \/ StoreCode(t)

VerifyStep(t) ==
    \/ \E explicit, cached \in Refs : BeginVerify(t, explicit, cached)
    \/ ClaimAttempt(t)
    \/ RefuseClaim(t)
    \/ RightCode(t)
    \/ WrongCode(t)
    \/ PersistAgain(t)
    \/ LookupReferrer(t)
    \/ SelectUser(t)
    \/ InsertUser(t)
    \/ ResolveFails(t)
    \/ RefuseSuspended(t)
    \/ DeleteCode(t)
    \/ ClearPending(t)

WorldStep ==
    \/ CooldownEnds
    \/ RowExpires
    \/ PendingExpires
    \/ \E usable \in BOOLEAN : SetUsable(usable)

LoginNext ==
    \/ \E t \in Threads : SendStep(t) \/ VerifyStep(t) \/ RequestFails(t)
    \/ WorldStep

LoginSpec == LoginInit /\ [][LoginNext]_loginVars

-----------------------------------------------------------------------------
(* What login promises.                                                    *)

Request == [ref : Refs, resend : BOOLEAN, id : Ids \cup {0},
            referrer : Refs, status : {"unknown", "new", "existing"}, usable : BOOLEAN]

LoginTypeOK ==
    /\ row \in [id : Ids \cup {0}, attempts : 0 .. MaxAttempts, fresh : BOOLEAN, live : BOOLEAN]
    /\ issued \in Ids \cup {0}
    /\ spent \subseteq 1 .. issued
    /\ pending \in Refs
    /\ account \in [exists : BOOLEAN, referrer : Refs, usable : BOOLEAN]
    /\ req \in [Threads -> Request]
    /\ guesses \in [Ids -> 0 .. MaxGuesses]
    /\ dropped \subseteq Ids
    /\ overlap \subseteq Busy

\* The promise of reserve_attempt, for each code of the provider: until the code is
\* used or the time of its row is over, no more than MAX_OTP_ATTEMPTS guesses of it
\* are sent on, however many requests send, resend and verify at once, and although
\* a resend may bring back the same code.  The count is lost, and the promise with
\* it, only when the row goes first: a send whose provider call failed or a login
\* with another code deletes it, or another code is stored over it.
GuessesBounded == \A id \in Ids \ dropped : guesses[id] <= MaxAttempts

\* A code that was just sent, and the lock of a number, stay until their time is
\* over.  Only requests that ran already when the code was stored or the lock
\* was set, or a login that claimed this very code, can take the row away or
\* store another code over it.
RowIsStable ==
    [][\A t \in Threads :
         /\ row.live /\ (row.fresh \/ IsLocked)
         /\ row'.id # row.id \/ row'.attempts < row.attempts
         /\ pc'[t] # pc[t]
         => t \in overlap \/ req[t].id = row.id]_loginVars

\* The referrer of an account is bound by the INSERT and never again: no later
\* login, no pending referral and no concurrent first login changes it.
ReferrerKept ==
    [][account.exists => account'.exists /\ account'.referrer = account.referrer]_loginVars
=============================================================================
