--------------------------- MODULE SessionsProofs ---------------------------
(***************************************************************************)
(* Proofs about module Sessions, for any threads and any number of tokens. *)
(***************************************************************************)
EXTENDS Sessions, TLAPS

USE SessionAssumption

\* A token that a logout revoked is in a list, or its time is over, or it was
\* only in the memory of a process that is gone.
Listed == signedOut \subseteq redis \cup memory \cup forgotten \cup expired

\* A page and a refresh come with one token; an idle thread has none.
OneToken ==
    \A t \in Threads : pc[t] \in {"present", "refresh"} => \A j, k \in sent[t] : j = k

\* After a logout a refresh can only be one that was under way before it.
LateRefresh == out => \A t \in Threads : pc[t] \in {"refresh", "mint"} => t \in late

SessionInv ==
    /\ SessionTypeOK
    /\ Listed
    /\ OneToken
    /\ LateRefresh
    /\ SignedOutBrowser

LEMMA SessionInitInv == Init => SessionInv
<1> SUFFICES ASSUME Init PROVE SessionInv
  OBVIOUS
<1>1. redisUp \in BOOLEAN /\ usable \in BOOLEAN /\ out \in BOOLEAN
  BY DEF Init
<1>2. SessionTypeOK
  BY <1>1 DEF Init, SessionTypeOK, Stages
<1> QED
  BY <1>2 DEF Init, SessionInv, Listed, OneToken, LateRefresh, SignedOutBrowser

LEMMA EndRequestKeeps ==
  ASSUME SessionTypeOK, NEW t \in Threads, EndRequest(t)
  PROVE  /\ pc' \in [Threads -> Stages]
         /\ sent' \in [Threads -> SUBSET (1 .. issued)]
         /\ pc'[t] = "idle" /\ sent'[t] = {}
         /\ \A u \in Threads \ {t} : pc'[u] = pc[u] /\ sent'[u] = sent[u]
  BY DEF SessionTypeOK, EndRequest, Stages

LEMMA BeginRequestKeeps ==
  ASSUME SessionInv, NEW t \in Threads, NEW stage \in {"present", "refresh", "revoke"},
         NEW tokens \in SUBSET (0 .. issued), BeginRequest(t, stage, tokens),
         stage # "revoke" => \A j, k \in tokens : j = k,
         stage = "refresh" => ~out
  PROVE  SessionInv'
<1> USE DEF SessionInv, BeginRequest, tokenVars, cookieVars, listVars, historyVars
<1>1. SessionTypeOK'
  BY DEF SessionTypeOK, Stages, Tokens
<1>2. /\ pc'[t] = stage /\ sent'[t] = tokens \ {0}
      /\ \A u \in Threads \ {t} : pc'[u] = pc[u] /\ sent'[u] = sent[u]
  BY DEF SessionTypeOK
<1>3. OneToken'
  BY <1>2 DEF OneToken
<1>4. Listed' /\ SignedOutBrowser' /\ LateRefresh'
  BY <1>2 DEF Listed, LateRefresh, SignedOutBrowser
<1> QED
  BY <1>1, <1>3, <1>4

LEMMA LoginKeeps == SessionInv /\ Login => SessionInv'
<1> SUFFICES ASSUME SessionInv, Login PROVE SessionInv'
  OBVIOUS
<1> USE DEF SessionInv, Login, listVars, requestVars
<1>1. /\ issued' \in Tokens \cup {0}
      /\ access' \in 0 .. issued' /\ refresh' \in 0 .. issued'
      /\ 1 .. issued \subseteq 1 .. issued'
  BY DEF SessionTypeOK, Tokens
<1>2. SessionTypeOK'
  BY <1>1 DEF SessionTypeOK
<1> QED
  BY <1>2 DEF Listed, OneToken, LateRefresh, SignedOutBrowser

\* A check moves its own thread only, to the stage behind it or to the end.
LEMMA CheckKeeps ==
  ASSUME SessionInv, NEW t \in Threads, NEW stage \in {"present", "refresh"},
         NEW next \in {"serve", "mint"}, Check(t, stage, next),
         next = "mint" => stage = "refresh",
         \/ UNCHANGED cookieVars
         \/ access' = 0 /\ refresh' = 0
  PROVE  SessionInv'
<1> USE DEF SessionInv, Check, tokenVars, listVars, cookieVars
<1>1. /\ pc' \in [Threads -> Stages]
      /\ sent' \in [Threads -> SUBSET (1 .. issued)]
      /\ pc'[t] \in {"idle", next}
      /\ \A u \in Threads \ {t} : pc'[u] = pc[u] /\ sent'[u] = sent[u]
  BY EndRequestKeeps DEF SessionTypeOK, Stages
<1>2. SessionTypeOK'
  BY <1>1 DEF SessionTypeOK, Tokens
<1>3. Listed' /\ OneToken' /\ LateRefresh' /\ SignedOutBrowser'
  BY <1>1 DEF Listed, OneToken, LateRefresh, SignedOutBrowser
<1> QED
  BY <1>2, <1>3

LEMMA MintKeeps ==
  ASSUME SessionInv, NEW t \in Threads, Mint(t)
  PROVE  SessionInv'
<1> USE DEF SessionInv, Mint, listVars, historyVars
<1>0. /\ issued' \in Tokens \cup {0}
      /\ access' \in 0 .. issued' /\ refresh' \in 0 .. issued'
      /\ 1 .. issued \subseteq 1 .. issued'
  BY DEF SessionTypeOK, Tokens
<1>1. SessionTypeOK'
  BY <1>0, EndRequestKeeps DEF SessionTypeOK
<1>2. /\ pc'[t] = "idle" /\ sent'[t] = {}
      /\ \A u \in Threads \ {t} : pc'[u] = pc[u] /\ sent'[u] = sent[u]
  BY EndRequestKeeps
<1>3. out => late # {}
  BY DEF LateRefresh
<1> QED
  BY <1>1, <1>2, <1>3 DEF Listed, OneToken, LateRefresh, SignedOutBrowser

LEMMA ServeKeeps ==
  ASSUME SessionInv, NEW t \in Threads, Serve(t) \/ RefuseMint(t)
  PROVE  SessionInv'
<1> USE DEF SessionInv, Serve, RefuseMint, tokenVars, cookieVars, listVars, historyVars
<1>0. /\ access' \in {0, access} /\ refresh' \in {0, refresh}
      /\ UNCHANGED <<tokenVars, listVars, usable, historyVars>>
      /\ EndRequest(t)
  OBVIOUS
<1>1. SessionTypeOK'
  BY <1>0, EndRequestKeeps DEF SessionTypeOK, Tokens
<1>2. /\ pc'[t] = "idle" /\ sent'[t] = {}
      /\ \A u \in Threads \ {t} : pc'[u] = pc[u] /\ sent'[u] = sent[u]
  BY EndRequestKeeps
<1> QED
  BY <1>0, <1>1, <1>2 DEF Listed, OneToken, LateRefresh, SignedOutBrowser

LEMMA RevokeTokenKeeps ==
  ASSUME SessionInv, NEW t \in Threads, RevokeToken(t)
  PROVE  SessionInv'
<1> USE DEF SessionInv, RevokeToken, tokenVars, cookieVars
<1> PICK k \in sent[t] :
      /\ Revoke(k)
      /\ sent' = [sent EXCEPT ![t] = @ \ {k}]
      /\ signedOut' = signedOut \cup {k}
  OBVIOUS
<1>1. SessionTypeOK'
  BY DEF SessionTypeOK, Revoke
<1>2. Listed'
  BY DEF Listed, Revoke
<1>3. OneToken'
  BY DEF OneToken, SessionTypeOK
<1> QED
  BY <1>1, <1>2, <1>3 DEF LateRefresh, SignedOutBrowser

LEMMA AnswerLogoutKeeps ==
  ASSUME SessionInv, NEW t \in Threads, AnswerLogout(t)
  PROVE  SessionInv'
<1> USE DEF SessionInv, AnswerLogout, tokenVars, listVars
<1>1. SessionTypeOK'
  BY EndRequestKeeps DEF SessionTypeOK, Tokens
<1>2. /\ pc'[t] = "idle" /\ sent'[t] = {}
      /\ \A u \in Threads \ {t} : pc'[u] = pc[u] /\ sent'[u] = sent[u]
  BY EndRequestKeeps
<1> QED
  BY <1>1, <1>2 DEF Listed, OneToken, LateRefresh, SignedOutBrowser

LEMMA RequestStepKeeps ==
  ASSUME SessionInv, NEW t \in Threads, RequestStep(t)
  PROVE  SessionInv'
<1>0. access \in 0 .. issued /\ refresh \in 0 .. issued /\ (out => refresh = 0)
  BY DEF SessionInv, SessionTypeOK, SignedOutBrowser
<1>1. CASE access # 0 /\ BeginRequest(t, "present", {access})
  BY <1>0, <1>1, BeginRequestKeeps
<1>2. CASE refresh # 0 /\ BeginRequest(t, "refresh", {refresh})
  BY <1>0, <1>2, BeginRequestKeeps
<1>3. CASE BeginRequest(t, "revoke", {access, refresh})
  BY <1>0, <1>3, BeginRequestKeeps
<1>4. CASE CheckAccess(t)
  BY <1>4, CheckKeeps DEF CheckAccess
<1>5. CASE CheckRefresh(t)
  BY <1>5, CheckKeeps DEF CheckRefresh
<1> QED
  BY <1>1, <1>2, <1>3, <1>4, <1>5, MintKeeps, ServeKeeps, RevokeTokenKeeps, AnswerLogoutKeeps
     DEF RequestStep

LEMMA WorldKeeps ==
  ASSUME SessionInv, (\E k \in Tokens : Expire(k)) \/ RedisChanges \/ AccountChanges \/ Restart
  PROVE  SessionInv'
<1> USE DEF SessionInv, tokenVars, cookieVars, listVars, requestVars, historyVars
<1>1. CASE \E k \in Tokens : Expire(k)
  <2> PICK k \in Tokens : Expire(k)
    BY <1>1
  <2>1. SessionTypeOK' /\ Listed'
    BY DEF SessionTypeOK, Listed, Expire, Tokens
  <2> QED
    BY <2>1 DEF OneToken, LateRefresh, SignedOutBrowser, Expire
<1>2. CASE RedisChanges
  BY <1>2 DEF RedisChanges, SessionTypeOK, Listed, OneToken, LateRefresh, SignedOutBrowser
<1>3. CASE AccountChanges
  BY <1>3 DEF AccountChanges, SessionTypeOK, Listed, OneToken, LateRefresh, SignedOutBrowser
<1>4. CASE Restart
  <2>1. SessionTypeOK' /\ Listed'
    BY <1>4 DEF SessionTypeOK, Listed, Restart, Stages
  <2> QED
    BY <1>4, <2>1 DEF OneToken, LateRefresh, SignedOutBrowser, Restart
<1> QED
  BY <1>1, <1>2, <1>3, <1>4

\* The inductive invariant of sessions: what the revocation list, the cookies
\* and the requests under way know of a logout.
THEOREM SessionInvariance == Spec => []SessionInv
<1>1. SessionInv /\ [Next]_vars => SessionInv'
  <2> SUFFICES ASSUME SessionInv, [Next]_vars PROVE SessionInv'
    OBVIOUS
  <2>1. CASE UNCHANGED vars
    BY <2>1 DEF vars, tokenVars, cookieVars, listVars, requestVars, historyVars, SessionInv,
                SessionTypeOK, Listed, OneToken, LateRefresh, SignedOutBrowser
  <2> QED
    BY <2>1, LoginKeeps, RequestStepKeeps, WorldKeeps DEF Next
<1> QED
  BY <1>1, SessionInitInv, PTL DEF Spec

\* After a logout no sequence of refreshes, logins refused and restarts brings the
\* refresh token back (routes/auth_routes.py, logout).
THEOREM SignedOutBrowserAlways == Spec => []SignedOutBrowser
  BY SessionInvariance, PTL DEF SessionInv

\* A step of a request that accepts a token finds it in no list it can read.
LEMMA AcceptingStep ==
  ASSUME SessionInv, Next, NEW t \in Threads, NEW k \in sent[t] \cap signedOut,
         pc[t] \in {"present", "refresh"}, pc'[t] \in {"serve", "mint"}
  PROVE  k \in forgotten \/ (k \in redis /\ ~redisUp)
<1>1. pc \in [Threads -> Stages] /\ sent \in [Threads -> SUBSET (1 .. issued)]
  BY DEF SessionInv, SessionTypeOK
<1>2. Check(t, "present", "serve") \/ Check(t, "refresh", "mint")
  <2>1. ~Login /\ ~RedisChanges /\ ~AccountChanges /\ ~(\E j \in Tokens : Expire(j)) /\ ~Restart
    BY <1>1 DEF Login, RedisChanges, AccountChanges, Expire, Restart, requestVars
  <2>2. PICK u \in Threads : RequestStep(u)
    BY <2>1 DEF Next
  <2>3. u = t
    BY <1>1, <2>2 DEF RequestStep, BeginRequest, CheckAccess, CheckRefresh, Check, Serve, Mint,
                     RefuseMint, RevokeToken, AnswerLogout, EndRequest
  <2>4. CheckAccess(t) \/ CheckRefresh(t)
    BY <1>1, <2>2, <2>3 DEF RequestStep, BeginRequest, Serve, Mint, RefuseMint, RevokeToken,
                           AnswerLogout, EndRequest
  <2> QED
    BY <2>4 DEF CheckAccess, CheckRefresh
<1>3. PICK j \in sent[t] : Accepted(j)
  BY <1>1, <1>2 DEF Check, EndRequest
<1>4. j = k
  BY <1>3 DEF SessionInv, OneToken
<1> QED
  BY <1>3, <1>4 DEF Accepted, IsRevoked, SessionInv, Listed

\* A token that a logout revoked opens nothing any more (services/jwt_blocklist.py),
\* except when only Redis has it and does not answer, or only a process that is gone.
THEOREM LogoutHoldsAlways == Spec => LogoutHolds
<1>1. SessionInv /\ [Next]_vars =>
        [\A t \in Threads : \A k \in sent[t] \cap signedOut :
           pc[t] \in {"present", "refresh"} /\ pc'[t] \in {"serve", "mint"}
           => k \in forgotten \/ (k \in redis /\ ~redisUp)]_vars
  BY AcceptingStep
<1> QED
  BY <1>1, SessionInvariance, PTL DEF Spec, LogoutHolds
=============================================================================
