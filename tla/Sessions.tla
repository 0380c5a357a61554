------------------------------ MODULE Sessions ------------------------------
(***************************************************************************)
(* The sessions of one account in one browser: the token pair of a login,  *)
(* the access tokens that app.py mints from the refresh token, the checks  *)
(* of every request and the logout (services/jwt_session.py), with the     *)
(* revocation list of services/jwt_blocklist.py, which is kept in Redis    *)
(* while Redis answers and in the memory of the process when it does not.  *)
(*                                                                         *)
(* One process serves all threads (gunicorn.conf.py).  A token runs out at *)
(* any time, and its entry in the list with it.                            *)
(***************************************************************************)
EXTENDS Integers, FiniteSets

CONSTANTS
    Threads,        \* request threads of the process
    MaxTokens       \* bound: tokens ever issued

VARIABLES
    issued,         \* tokens are 1 .. issued
    expired,        \* those past their exp claim
    access,         \* the access token cookie, 0 when there is none
    refresh,        \* the refresh token cookie
    redis,          \* tokens revoked in Redis
    memory,         \* tokens revoked in the memory of the process
    redisUp,        \* Redis answers
    usable,         \* the account is neither blocked nor inactive
    pc,             \* [Threads -> Stages], the next step of a request
    sent,           \* [Threads -> SUBSET Tokens], the tokens of the request
    signedOut,      \* history: tokens that a logout revoked
    forgotten,      \* history: tokens that only a stopped process knew revoked
    out,            \* history: the last login or logout answered was a logout
    late            \* history: refreshes under way when it was answered

tokenVars == <<issued, expired>>
cookieVars == <<access, refresh>>
listVars == <<redis, memory, redisUp>>
requestVars == <<pc, sent>>
historyVars == <<signedOut, forgotten, out, late>>
vars == <<tokenVars, cookieVars, listVars, usable, requestVars, historyVars>>

ASSUME SessionAssumption == MaxTokens \in Nat

Tokens == 1 .. MaxTokens
Stages == {"idle", "present", "refresh", "mint", "serve", "revoke"}

Init ==
    /\ issued = 0
    /\ expired = {}
    /\ access = 0
    /\ refresh = 0
    /\ redis = {}
    /\ memory = {}
    /\ redisUp \in BOOLEAN
    /\ usable = TRUE
    /\ pc = [t \in Threads |-> "idle"]
    /\ sent = [t \in Threads |-> {}]
    /\ signedOut = {}
    /\ forgotten = {}
    /\ out = FALSE
    /\ late = {}

EndRequest(t) ==
    /\ pc' = [pc EXCEPT ![t] = "idle"]
    /\ sent' = [sent EXCEPT ![t] = {}]

\* The request leaves the browser with the cookies of that moment.
BeginRequest(t, stage, tokens) ==
    /\ pc[t] = "idle"
    /\ pc' = [pc EXCEPT ![t] = stage]
    /\ sent' = [sent EXCEPT ![t] = tokens \ {0}]
    /\ UNCHANGED <<tokenVars, cookieVars, listVars, usable, historyVars>>

\* verify_otp has accepted a code: a new pair of tokens.
Login ==
    /\ usable
    /\ issued + 2 <= MaxTokens
    /\ issued' = issued + 2
    /\ access' = issued + 1
    /\ refresh' = issued + 2
    /\ out' = FALSE
    /\ late' = {}
    /\ UNCHANGED <<expired, listVars, usable, requestVars, signedOut, forgotten>>

-----------------------------------------------------------------------------
(* The check of a token, for a page and for a refresh.                     *)

\* Slip: the answer of Redis is final.
IsRevoked_First(k) == IF redisUp THEN k \in redis ELSE k \in memory

\* is_revoked: Redis if it answers, then the memory of the process.
IsRevoked(k) == (redisUp /\ k \in redis) \/ k \in memory

\* The signature, exp and the revocation list.
Accepted(k) == k \notin expired /\ ~IsRevoked(k)

\* Then lookup_jwt_user: a blocked or inactive account is refused, but one that
\* cannot be looked up, because the database failed, is let through.
Check(t, stage, next) ==
    /\ pc[t] = stage
    /\ \/ /\ \E k \in sent[t] : Accepted(k)
          /\ pc' = [pc EXCEPT ![t] = next]
          /\ UNCHANGED sent
       \/ /\ ~(usable /\ \E k \in sent[t] : Accepted(k))
          /\ EndRequest(t)
    /\ UNCHANGED <<tokenVars, listVars, usable, signedOut, forgotten, out, late>>

\* Any page or API call of the user.
CheckAccess(t) == Check(t, "present", "serve") /\ UNCHANGED cookieVars

Serve(t) ==
    /\ pc[t] = "serve"
    /\ EndRequest(t)
    /\ UNCHANGED <<tokenVars, cookieVars, listVars, usable, historyVars>>

\* /api/refresh and /api/refresh/silent; the latter clears the cookies when it
\* sends the browser to the login page.
CheckRefresh(t) ==
    /\ Check(t, "refresh", "mint")
    /\ \/ UNCHANGED cookieVars
       \/ /\ pc'[t] = "idle"
          /\ access' = 0 /\ refresh' = 0

\* Slip: the refresh token is rotated as well.
Mint_Rotates(t) ==
    /\ pc[t] = "mint"
    /\ usable
    /\ issued < MaxTokens
    /\ issued' = issued + 1
    /\ access' = issued + 1
    /\ refresh' = issued + 1
    /\ EndRequest(t)
    /\ UNCHANGED <<expired, listVars, usable, historyVars>>

\* _mint_access_token_for_refresh reads the account again; its answer sets the
\* access cookie, whatever the browser has done meanwhile.
Mint(t) ==
    /\ pc[t] = "mint"
    /\ usable
    /\ issued < MaxTokens
    /\ issued' = issued + 1
    /\ access' = issued + 1
    /\ EndRequest(t)
    /\ UNCHANGED <<expired, refresh, listVars, usable, historyVars>>

\* The account is not usable any more, or the database does not answer.
RefuseMint(t) ==
    /\ pc[t] = "mint"
    /\ EndRequest(t)
    /\ \/ UNCHANGED cookieVars
       \/ ~usable /\ access' = 0 /\ refresh' = 0
    /\ UNCHANGED <<tokenVars, listVars, usable, historyVars>>

-----------------------------------------------------------------------------
(* logout.                                                                 *)

\* revoke_jti for one token of the request.
Revoke(k) ==
    IF redisUp
    THEN redis' = redis \cup {k} /\ UNCHANGED memory
    ELSE memory' = memory \cup {k} /\ UNCHANGED redis

\* Tokens of the request that are not in the list yet, one after the other.
RevokeToken(t) ==
    /\ pc[t] = "revoke"
    /\ \E k \in sent[t] :
         /\ Revoke(k)
         /\ sent' = [sent EXCEPT ![t] = @ \ {k}]
         /\ signedOut' = signedOut \cup {k}
    /\ UNCHANGED <<tokenVars, cookieVars, redisUp, usable, pc, forgotten, out, late>>

\* clear_auth_cookies, in the answer.
AnswerLogout(t) ==
    /\ pc[t] = "revoke" /\ sent[t] = {}
    /\ EndRequest(t)
    /\ access' = 0
    /\ refresh' = 0
    /\ out' = TRUE
    /\ late' = {s \in Threads : pc[s] \in {"refresh", "mint"}}
    /\ UNCHANGED <<tokenVars, listVars, usable, signedOut, forgotten>>

-----------------------------------------------------------------------------
(* The world.                                                              *)

\* A token runs out, and with it its entries in the list.
Expire(k) ==
    /\ k <= issued /\ k \notin expired
    /\ expired' = expired \cup {k}
    /\ redis' = redis \ {k}
    /\ memory' = memory \ {k}
    /\ UNCHANGED <<issued, cookieVars, redisUp, usable, requestVars, historyVars>>

RedisChanges ==
    /\ redisUp' = ~redisUp
    /\ UNCHANGED <<tokenVars, cookieVars, redis, memory, usable, requestVars, historyVars>>

\* ban_user and unban_user.
AccountChanges ==
    /\ usable' = ~usable
    /\ UNCHANGED <<tokenVars, cookieVars, listVars, requestVars, historyVars>>

\* The process is stopped and started: its memory and its requests are gone.
Restart ==
    /\ memory' = {}
    /\ forgotten' = forgotten \cup (memory \ redis)
    /\ pc' = [t \in Threads |-> "idle"]
    /\ sent' = [t \in Threads |-> {}]
    /\ UNCHANGED <<tokenVars, cookieVars, redis, redisUp, usable, signedOut, out, late>>

RequestStep(t) ==
    \/ access # 0 /\ BeginRequest(t, "present", {access})
    \/ refresh # 0 /\ BeginRequest(t, "refresh", {refresh})
    \/ BeginRequest(t, "revoke", {access, refresh})
    \/ CheckAccess(t)
    \/ Serve(t)
    \/ CheckRefresh(t)
    \/ Mint(t)
    \/ RefuseMint(t)
    \/ RevokeToken(t)
    \/ AnswerLogout(t)

Next ==
    \/ Login
    \/ \E t \in Threads : RequestStep(t)
    \/ \E k \in Tokens : Expire(k)
    \/ RedisChanges
    \/ AccountChanges
    \/ Restart

Spec == Init /\ [][Next]_vars

-----------------------------------------------------------------------------
(* What sessions promise.                                                  *)

SessionTypeOK ==
    /\ issued \in Tokens \cup {0}
    /\ expired \subseteq 1 .. issued
    /\ access \in 0 .. issued
    /\ refresh \in 0 .. issued
    /\ redis \cup memory \subseteq signedOut
    /\ redisUp \in BOOLEAN
    /\ usable \in BOOLEAN
    /\ pc \in [Threads -> Stages]
    /\ sent \in [Threads -> SUBSET (1 .. issued)]
    /\ signedOut \subseteq 1 .. issued
    /\ forgotten \subseteq signedOut
    /\ out \in BOOLEAN
    /\ late \subseteq Threads

\* A token that a logout revoked opens no page and mints no token any more,
\* whichever of Redis and the memory took the revocation and however Redis comes
\* and goes.  Two cases are left, and the code accepts both: Redis has the entry
\* and does not answer, or only a process had it that was restarted.
LogoutHolds ==
    [][\A t \in Threads : \A k \in sent[t] \cap signedOut :
         pc[t] \in {"present", "refresh"} /\ pc'[t] \in {"serve", "mint"}
         => k \in forgotten \/ (k \in redis /\ ~redisUp)]_vars

\* After a logout, and until the next login, the browser has no refresh token: a
\* refresh that was under way can at most bring back an access token, which runs
\* out by itself.
SignedOutBrowser == out => refresh = 0 /\ (access # 0 => late # {})
=============================================================================
