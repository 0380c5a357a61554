---------------------------- MODULE WalletProofs ----------------------------
(***************************************************************************)
(* Proofs about module Wallet, for every number of users, withdrawals,     *)
(* request threads, keys and amounts.                                      *)
(***************************************************************************)
EXTENDS Wallet, TLAPS

USE WalletAssumption

LEMMA AmountNat == \A x \in Amounts \cup {0} : x \in Nat
  OBVIOUS

LEMMA InitTypeOK == Init => TypeOK
  BY DEF Init, TypeOK, Unused, Idle, Withdrawals, Requests, Statuses, Answers

\* Replacing the local state of one request by a well-typed one.
LEMMA HandlersType ==
  ASSUME TypeOK, NEW h \in Handlers, NEW r \in Requests, r.user \in Users,
         handlers' = [handlers EXCEPT ![h] = r]
  PROVE  /\ handlers' \in [Handlers -> Requests]
         /\ \A g \in Handlers : handlers'[g].pc # "idle" => handlers'[g].user \in Users
  BY DEF TypeOK

\* The end of a transaction keeps the types of what it writes.
LEMMA FinishType ==
  ASSUME TypeOK, NEW h \in Handlers, NEW answer \in Answers, Finish(h, answer),
         handlers[h].pc # "idle"
  PROVE  /\ handlers' \in [Handlers -> Requests]
         /\ \A g \in Handlers : handlers'[g].pc # "idle" => handlers'[g].user \in Users
         /\ walletLock' \in [Users -> Handlers \cup {NoHandler}]
<1> DEFINE r == [handlers[h] EXCEPT !.pc = answer, !.available = 0, !.later = FALSE]
<1>0. handlers[h] \in Requests /\ handlers[h].user \in Users
  BY DEF TypeOK
<1>1. r \in Requests /\ r.user \in Users
  BY <1>0 DEF Requests
<1>2. handlers' = [handlers EXCEPT ![h] = r]
  BY DEF Finish
<1>3. walletLock' \in [Users -> Handlers \cup {NoHandler}]
  BY DEF Finish, TypeOK
<1> HIDE DEF r
<1> QED
  BY <1>1, <1>2, <1>3, HandlersType

LEMMA StepTypeOK == TypeOK /\ [Next]_vars => TypeOK'
<1> SUFFICES ASSUME TypeOK, [Next]_vars PROVE TypeOK'
  OBVIOUS
<1>1. ASSUME NEW h \in Handlers, NEW u \in Users, NEW a \in Amounts,
             NEW k \in Keys \cup {NoKey}, Request(h, u, a, k)
      PROVE  TypeOK'
  <2> DEFINE r == [pc |-> IF KeyUsed(u, k) THEN "duplicate" ELSE "lock",
                   user |-> u, amount |-> a, key |-> k, available |-> 0, later |-> FALSE]
  <2>1. r \in Requests /\ r.user \in Users
    BY DEF Requests, Answers
  <2>2. handlers' = [handlers EXCEPT ![h] = r]
    BY <1>1 DEF Request
  <2> HIDE DEF r
  <2>3. handlers' \in [Handlers -> Requests]
        /\ \A g \in Handlers : handlers'[g].pc # "idle" => handlers'[g].user \in Users
    BY <2>1, <2>2, HandlersType
  <2> QED
    BY <1>1, <2>3 DEF TypeOK, Request
<1>2. ASSUME NEW h \in Handlers, LockWallet(h) PROVE TypeOK'
  <2> DEFINE r == [handlers[h] EXCEPT !.pc = "history", !.available = balance[handlers[h].user]]
  <2>0. handlers[h] \in Requests /\ handlers[h].user \in Users
        /\ balance[handlers[h].user] \in Nat
    BY <1>2 DEF TypeOK, LockWallet
  <2>1. r \in Requests /\ r.user \in Users
    BY <2>0 DEF Requests
  <2>2. handlers' = [handlers EXCEPT ![h] = r]
    BY <1>2 DEF LockWallet
  <2> HIDE DEF r
  <2>3. handlers' \in [Handlers -> Requests]
        /\ \A g \in Handlers : handlers'[g].pc # "idle" => handlers'[g].user \in Users
    BY <2>1, <2>2, HandlersType
  <2> QED
    BY <1>2, <2>3 DEF TypeOK, LockWallet
<1>3. ASSUME NEW h \in Handlers, ReadHistory(h) PROVE TypeOK'
  <2> DEFINE r == [handlers[h] EXCEPT !.pc = "check", !.later = HadFirst(handlers[h].user)]
  <2>1. HadFirst(handlers[h].user) \in BOOLEAN
    BY DEF HadFirst
  <2>0. handlers[h] \in Requests /\ handlers[h].user \in Users
    BY <1>3 DEF TypeOK, ReadHistory
  <2>2. r \in Requests /\ r.user \in Users
    BY <2>0, <2>1 DEF Requests
  <2>3. handlers' = [handlers EXCEPT ![h] = r]
    BY <1>3 DEF ReadHistory
  <2> HIDE DEF r
  <2>4. handlers' \in [Handlers -> Requests]
        /\ \A g \in Handlers : handlers'[g].pc # "idle" => handlers'[g].user \in Users
    BY <2>2, <2>3, HandlersType
  <2> QED
    BY <1>3, <2>4 DEF TypeOK, ReadHistory
<1>4. ASSUME NEW h \in Handlers, CheckRules(h) PROVE TypeOK'
  <2>1. CASE FirstRule(h)
    <3> DEFINE r == [handlers[h] EXCEPT !.pc = "debit"]
    <3>1. r \in Requests /\ r.user \in Users
      BY <1>4 DEF TypeOK, Requests, CheckRules
    <3>2. handlers' = [handlers EXCEPT ![h] = r] /\ walletLock' = walletLock
      BY <1>4, <2>1 DEF CheckRules
    <3> HIDE DEF r
    <3>3. handlers' \in [Handlers -> Requests]
          /\ \A g \in Handlers : handlers'[g].pc # "idle" => handlers'[g].user \in Users
      BY <3>1, <3>2, HandlersType
    <3> QED
      BY <1>4, <3>2, <3>3 DEF TypeOK, CheckRules
  <2>2. CASE ~FirstRule(h)
    BY <1>4, <2>2, FinishType DEF TypeOK, CheckRules, Answers
  <2> QED BY <2>1, <2>2
<1>5. ASSUME NEW h \in Handlers, NEW w \in Wids, CommitRequest(h, w) PROVE TypeOK'
  <2>0. handlers[h] \in Requests /\ handlers[h].user \in Users
    BY <1>5 DEF TypeOK, CommitRequest
  <2>1. /\ handlers[h].amount \in Amounts \cup {0}
        /\ handlers[h].key \in Keys \cup {NoKey}
    BY <2>0 DEF Requests
  <2>a. handlers[h].amount \in Nat
    BY <2>1, AmountNat, Zenon
  <2>2. balance' \in [Users -> Nat]
    BY <1>5, <2>0, <2>a DEF TypeOK, CommitRequest, Covered
  <2>3. wd' \in [Wids -> Withdrawals]
        /\ \A v \in Wids : wd'[v].status # "none" => wd'[v].user \in Users
    BY <1>5, <2>0, <2>1 DEF TypeOK, CommitRequest, Withdrawals, Statuses
  <2>4. w \notin rejecting /\ \A v \in Wids \ {w} : wd'[v] = wd[v]
    BY <1>5 DEF TypeOK, CommitRequest
  <2>5. handlers' \in [Handlers -> Requests]
        /\ (\A g \in Handlers : handlers'[g].pc # "idle" => handlers'[g].user \in Users)
        /\ walletLock' \in [Users -> Handlers \cup {NoHandler}]
    BY <1>5, FinishType DEF CommitRequest, Answers
  <2>6. rejecting' \subseteq {v \in Wids : wd'[v].status = "pending"}
    BY <1>5, <2>4 DEF TypeOK, CommitRequest
  <2> QED
    BY <1>5, <2>2, <2>3, <2>5, <2>6 DEF TypeOK, CommitRequest
<1>6. ASSUME NEW h \in Handlers, RollbackRequest(h) \/ Crash(h) PROVE TypeOK'
  BY <1>6, FinishType DEF TypeOK, RollbackRequest, Crash, Ready, Answers
<1>7. ASSUME NEW w \in Wids, AdminStep(w) PROVE TypeOK'
  <2>1. ASSUME NEW to \in {"approved", "paid", "rejected"}, wd[w].status # "none",
               wd' = [wd EXCEPT ![w].status = to]
        PROVE  wd' \in [Wids -> Withdrawals]
               /\ \A v \in Wids : wd'[v].status # "none" => wd'[v].user \in Users
    BY <2>1 DEF TypeOK, Withdrawals, Statuses
  <2>2. CASE Approve(w) \/ MarkPaid(w)
    <3>1. w \notin rejecting /\ wd[w].status # "none"
          /\ \E to \in {"approved", "paid"} : wd' = [wd EXCEPT ![w].status = to]
      BY <2>2 DEF Approve, MarkPaid, Transition
    <3>2. \A v \in Wids \ {w} : wd'[v] = wd[v]
      BY <3>1 DEF TypeOK
    <3> QED
      BY <2>1, <2>2, <3>1, <3>2 DEF TypeOK, Approve, MarkPaid
  <2>3. CASE BeginReject(w) \/ AbortReject(w)
    BY <2>3 DEF TypeOK, BeginReject, AbortReject
  <2>4. CASE CommitReject(w)
    <3>1. balance' \in [Users -> Nat]
      BY <2>4 DEF TypeOK, CommitReject, Withdrawals
    <3>2. wd[w].status # "none" /\ wd' = [wd EXCEPT ![w].status = "rejected"]
      BY <2>4 DEF TypeOK, CommitReject
    <3>3. \A v \in Wids \ {w} : wd'[v] = wd[v]
      BY <3>2 DEF TypeOK
    <3> QED
      BY <2>1, <2>4, <3>1, <3>2, <3>3 DEF TypeOK, CommitReject
  <2> QED
    BY <1>7, <2>2, <2>3, <2>4 DEF AdminStep
<1>8. ASSUME NEW u \in Users, NEW a \in Amounts, Credit(u, a) \/ Debit(u, a) PROVE TypeOK'
  <2>1. balance' \in [Users -> Nat]
    BY <1>8 DEF TypeOK, Credit, Debit
  <2> QED
    BY <1>8, <2>1 DEF TypeOK, Credit, Debit
<1>9. ASSUME NEW u \in Users, ReferralPlanChange(u) PROVE TypeOK'
  BY <1>9 DEF TypeOK, ReferralPlanChange
<1>10. CASE UNCHANGED vars
  BY <1>10 DEF TypeOK, vars
<1> QED
  BY <1>1, <1>2, <1>3, <1>4, <1>5, <1>6, <1>7, <1>8, <1>9, <1>10 DEF Next, HandlerStep

\* Types hold and no balance is ever negative, whatever the interleaving.
THEOREM TypeCorrect == Spec => []TypeOK
  BY InitTypeOK, StepTypeOK, PTL DEF Spec

-----------------------------------------------------------------------------
(* The inductive invariant.                                                *)

LEMMA InitIInv == Init => IInv
<1> SUFFICES ASSUME Init PROVE IInv
  OBVIOUS
<1>1. TypeOK
  BY InitTypeOK
<1>2. KeyReservesOnce /\ RefundedIffRejected /\ BlankRows
  BY DEF Init, Unused, KeyReservesOnce, RefundedIffRejected, BlankRows
<1>3. FreshUnderLock /\ WithinLimits /\ RuleHolds
  BY DEF Init, Idle, FreshUnderLock, HoldsLock, WithinLimits, Ready, RuleHolds
<1> QED
  BY <1>1, <1>2, <1>3 DEF IInv

\* What the end of a transaction leaves behind.
LEMMA FinishFrame ==
  ASSUME TypeOK, NEW h \in Handlers, NEW answer \in Answers, Finish(h, answer)
  PROVE  /\ handlers'[h].pc = answer
         /\ handlers'[h].user = handlers[h].user
         /\ handlers'[h].key = handlers[h].key
         /\ handlers'[h].amount = handlers[h].amount
         /\ \A g \in Handlers \ {h} : handlers'[g] = handlers[g]
         /\ \A u \in Users : walletLock'[u] = IF walletLock[u] = h THEN NoHandler ELSE walletLock[u]
<1>1. handlers[h] \in Requests
  BY DEF TypeOK
<1>2. handlers'[h] = [handlers[h] EXCEPT !.pc = answer, !.available = 0, !.later = FALSE]
  BY DEF Finish, TypeOK
<1>3. \A g \in Handlers \ {h} : handlers'[g] = handlers[g]
  BY DEF Finish, TypeOK
<1>4. \A u \in Users : walletLock'[u] = IF walletLock[u] = h THEN NoHandler ELSE walletLock[u]
  BY DEF Finish
<1> QED
  BY <1>1, <1>2, <1>3, <1>4 DEF Requests

\* A finished request holds no lock: nothing the invariant says of it is left.
LEMMA FinishFresh ==
  ASSUME TypeOK, FreshUnderLock, NEW h \in Handlers, NEW answer \in Answers,
         Finish(h, answer),
         \A u \in Users : u # handlers[h].user \/ walletLock[u] # h => balance'[u] = balance[u]
  PROVE  FreshUnderLock'
<1> SUFFICES ASSUME NEW g \in Handlers, HoldsLock(g)'
             PROVE  /\ walletLock'[handlers'[g].user] = g
                    /\ handlers'[g].available = balance'[handlers'[g].user]
  BY DEF FreshUnderLock
<1>1. g # h
  BY FinishFrame DEF HoldsLock, Answers
<1>2. handlers'[g] = handlers[g]
  BY <1>1, FinishFrame
<1>3. HoldsLock(g) /\ handlers[g].user \in Users
  BY <1>2 DEF HoldsLock, TypeOK
<1>4. walletLock[handlers[g].user] = g /\ handlers[g].available = balance[handlers[g].user]
  BY <1>3 DEF FreshUnderLock
<1>5. walletLock'[handlers[g].user] = g
  BY <1>1, <1>3, <1>4, FinishFrame
<1>6. balance'[handlers[g].user] = balance[handlers[g].user]
  BY <1>1, <1>3, <1>4
<1> QED
  BY <1>2, <1>4, <1>5, <1>6

\* The amount and user of a reservation, from the invariant.
LEMMA CommitFacts ==
  ASSUME IInv, NEW h \in Handlers, NEW w \in Wids, CommitRequest(h, w)
  PROVE  /\ handlers[h].user \in Users
         /\ handlers[h].amount \in Amounts /\ handlers[h].amount \in Nat
         /\ MinWithdraw <= handlers[h].amount /\ handlers[h].amount <= MaxWithdraw
         /\ handlers[h].key \in Keys \cup {NoKey}
         /\ walletLock[handlers[h].user] = h
         /\ handlers[h].available = balance[handlers[h].user]
         /\ balance[handlers[h].user] \in Nat
<1>1. handlers[h] \in Requests /\ handlers[h].user \in Users /\ handlers[h].pc = "debit"
  BY DEF IInv, TypeOK, CommitRequest
<1>2. handlers[h].amount \in Amounts \cap MinWithdraw..MaxWithdraw
  BY <1>1 DEF IInv, WithinLimits, Ready, Answers
<1>3. handlers[h].key \in Keys \cup {NoKey}
  BY <1>1 DEF Requests
<1>4. walletLock[handlers[h].user] = h /\ handlers[h].available = balance[handlers[h].user]
  BY <1>1 DEF IInv, FreshUnderLock, HoldsLock
<1>5. balance[handlers[h].user] \in Nat
  BY <1>1 DEF IInv, TypeOK
<1>6. handlers[h].amount \in Nat
  BY <1>2, AmountNat, Zenon
<1>7. MinWithdraw <= handlers[h].amount /\ handlers[h].amount <= MaxWithdraw
  BY <1>2
<1> QED
  BY <1>1, <1>2, <1>3, <1>4, <1>5, <1>6, <1>7

\* A step that moves the money of one user whose row nobody has locked.
LEMMA UnlockedBalance ==
  ASSUME IInv, NEW u \in Users, walletLock[u] = NoHandler,
         UNCHANGED <<handlers, walletLock>>,
         \A v \in Users \ {u} : balance'[v] = balance[v]
  PROVE  FreshUnderLock'
<1> SUFFICES ASSUME NEW g \in Handlers, HoldsLock(g)'
             PROVE  /\ walletLock'[handlers'[g].user] = g
                    /\ handlers'[g].available = balance'[handlers'[g].user]
  BY DEF FreshUnderLock
<1>1. HoldsLock(g) /\ handlers[g].user \in Users
  BY DEF HoldsLock, IInv, TypeOK
<1>2. walletLock[handlers[g].user] = g /\ handlers[g].available = balance[handlers[g].user]
  BY <1>1 DEF IInv, FreshUnderLock
<1>3. handlers[g].user # u
  BY <1>2
<1> QED
  BY <1>1, <1>2, <1>3

LEMMA StepFresh == IInv /\ [Next]_vars => FreshUnderLock'
<1> SUFFICES ASSUME IInv, [Next]_vars PROVE FreshUnderLock'
  OBVIOUS
<1> USE DEF IInv
<1>1. ASSUME NEW h \in Handlers, NEW u \in Users, NEW a \in Amounts,
             NEW k \in Keys \cup {NoKey}, Request(h, u, a, k)
      PROVE  FreshUnderLock'
  <2>1. ~HoldsLock(h)'
    BY <1>1 DEF Request, HoldsLock, TypeOK
  <2>2. \A g \in Handlers \ {h} : handlers'[g] = handlers[g]
    BY <1>1 DEF Request, TypeOK
  <2> QED
    BY <1>1, <2>1, <2>2 DEF Request, FreshUnderLock, HoldsLock
<1>2. ASSUME NEW h \in Handlers, LockWallet(h) PROVE FreshUnderLock'
  <2>0. handlers[h] \in Requests /\ handlers[h].user \in Users
    BY <1>2 DEF LockWallet, TypeOK
  <2>1. /\ handlers'[h].user = handlers[h].user
        /\ handlers'[h].available = balance[handlers[h].user]
        /\ walletLock'[handlers[h].user] = h
    BY <1>2, <2>0 DEF LockWallet, TypeOK, Requests
  <2>2. \A g \in Handlers \ {h} : handlers'[g] = handlers[g]
    BY <1>2 DEF LockWallet, TypeOK
  <2>3. ASSUME NEW g \in Handlers \ {h}, HoldsLock(g)
        PROVE  walletLock'[handlers[g].user] = g /\ handlers[g].available = balance[handlers[g].user]
    <3>1. walletLock[handlers[g].user] = g /\ handlers[g].available = balance[handlers[g].user]
      BY <2>3 DEF FreshUnderLock
    <3>2. handlers[g].user # handlers[h].user
      BY <1>2, <3>1 DEF LockWallet
    <3>3. handlers[g].user \in Users
      BY <2>3 DEF HoldsLock, TypeOK
    <3> QED
      BY <1>2, <3>1, <3>2, <3>3 DEF LockWallet, TypeOK
  <2> QED
    BY <1>2, <2>1, <2>2, <2>3 DEF LockWallet, FreshUnderLock, HoldsLock
<1>3. ASSUME NEW h \in Handlers, ReadHistory(h) \/ (CheckRules(h) /\ FirstRule(h))
      PROVE  FreshUnderLock'
  <2>0. handlers[h] \in Requests /\ handlers[h].pc \in {"history", "check"}
    BY <1>3 DEF ReadHistory, CheckRules, TypeOK
  <2>1. handlers'[h].user = handlers[h].user /\ handlers'[h].available = handlers[h].available
    <3>1. CASE ReadHistory(h)
      BY <2>0, <3>1 DEF ReadHistory, TypeOK, Requests
    <3>2. CASE CheckRules(h) /\ FirstRule(h)
      BY <2>0, <3>2 DEF CheckRules, TypeOK, Requests
    <3> QED
      BY <1>3, <3>1, <3>2
  <2>2. (\A g \in Handlers \ {h} : handlers'[g] = handlers[g])
        /\ UNCHANGED <<balance, walletLock>>
    BY <1>3 DEF ReadHistory, CheckRules, TypeOK
  <2> QED
    BY <2>0, <2>1, <2>2 DEF FreshUnderLock, HoldsLock
<1>4. ASSUME NEW h \in Handlers, (CheckRules(h) /\ ~FirstRule(h)) \/ RollbackRequest(h) \/ Crash(h)
      PROVE  FreshUnderLock'
  <2>1. PICK answer \in Answers : Finish(h, answer) /\ UNCHANGED balance
    BY <1>4 DEF CheckRules, RollbackRequest, Crash, Answers
  <2> QED
    BY <2>1, FinishFresh
<1>5. ASSUME NEW h \in Handlers, NEW w \in Wids, CommitRequest(h, w) PROVE FreshUnderLock'
  <2>1. Finish(h, "submitted") /\ "submitted" \in Answers
    BY <1>5 DEF CommitRequest, Answers
  <2>2. handlers[h].user \in Users /\ walletLock[handlers[h].user] = h
    BY <1>5, CommitFacts
  <2>3. \A u \in Users : u # handlers[h].user => balance'[u] = balance[u]
    BY <1>5 DEF CommitRequest, TypeOK
  <2> QED
    BY <2>1, <2>2, <2>3, FinishFresh
<1>6. ASSUME NEW w \in Wids, AdminStep(w) PROVE FreshUnderLock'
  <2>1. CASE UNCHANGED <<balance, handlers, walletLock>>
    BY <2>1 DEF FreshUnderLock, HoldsLock
  <2>2. CASE CommitReject(w) /\ w \notin refundRows
    <3>1. wd[w].user \in Users
      BY <2>2 DEF CommitReject, TypeOK
    <3> QED
      BY <2>2, <3>1, UnlockedBalance DEF CommitReject, TypeOK
  <2> QED
    <3>1. CASE Approve(w) \/ MarkPaid(w) \/ BeginReject(w) \/ AbortReject(w)
      BY <2>1, <3>1 DEF Approve, MarkPaid, BeginReject, AbortReject
    <3>2. CASE CommitReject(w) /\ w \in refundRows
      BY <2>1, <3>2 DEF CommitReject
    <3> QED
      BY <1>6, <2>2, <3>1, <3>2 DEF AdminStep
<1>7. ASSUME NEW u \in Users, NEW a \in Amounts, Credit(u, a) \/ Debit(u, a) PROVE FreshUnderLock'
  BY <1>7, UnlockedBalance DEF Credit, Debit, TypeOK
<1>8. ASSUME NEW u \in Users, ReferralPlanChange(u) PROVE FreshUnderLock'
  BY <1>8 DEF ReferralPlanChange, FreshUnderLock, HoldsLock
<1>9. CASE UNCHANGED vars
  BY <1>9 DEF vars, FreshUnderLock, HoldsLock
<1> QED
  BY <1>1, <1>2, <1>3, <1>4, <1>5, <1>6, <1>7, <1>8, <1>9 DEF Next, HandlerStep

\* The only steps that write a withdrawal or a refund row.
LEMMA RowSteps ==
  ASSUME [Next]_vars
  PROVE  \/ UNCHANGED <<wd, refundRows>>
         \/ \E h \in Handlers, w \in Wids : CommitRequest(h, w)
         \/ \E w \in Wids : Approve(w) \/ MarkPaid(w) \/ CommitReject(w)
<1>1. ASSUME NEW h \in Handlers,
             \/ \E u \in Users, a \in Amounts, k \in Keys \cup {NoKey} : Request(h, u, a, k)
             \/ LockWallet(h) \/ ReadHistory(h) \/ CheckRules(h) \/ RollbackRequest(h) \/ Crash(h)
      PROVE  UNCHANGED <<wd, refundRows>>
  BY <1>1 DEF Request, LockWallet, ReadHistory, CheckRules, RollbackRequest, Crash
<1>2. ASSUME NEW w \in Wids, BeginReject(w) \/ AbortReject(w)
      PROVE  UNCHANGED <<wd, refundRows>>
  BY <1>2 DEF BeginReject, AbortReject
<1>3. ASSUME NEW u \in Users,
             (\E a \in Amounts : Credit(u, a) \/ Debit(u, a)) \/ ReferralPlanChange(u)
      PROVE  UNCHANGED <<wd, refundRows>>
  BY <1>3 DEF Credit, Debit, ReferralPlanChange
<1> QED
  BY <1>1, <1>2, <1>3 DEF Next, HandlerStep, AdminStep, vars

\* Rows: only a commit of a request fills one, and it fills one that was blank.
LEMMA StepRows == IInv /\ [Next]_vars => KeyReservesOnce' /\ BlankRows'
<1> SUFFICES ASSUME IInv, [Next]_vars PROVE KeyReservesOnce' /\ BlankRows'
  OBVIOUS
<1> USE DEF IInv
<1>1. ASSUME NEW h \in Handlers, NEW w \in Wids, CommitRequest(h, w)
      PROVE  KeyReservesOnce' /\ BlankRows'
  <2> DEFINE row == [status |-> "pending", user |-> handlers[h].user,
                     amount |-> handlers[h].amount, key |-> handlers[h].key]
  <2>1. wd'[w] = row /\ \A v \in Wids \ {w} : wd'[v] = wd[v]
    BY <1>1 DEF CommitRequest, TypeOK
  <2>2. ~KeyUsed(handlers[h].user, handlers[h].key)
    BY <1>1 DEF CommitRequest
  <2> QED
    BY <2>1, <2>2 DEF KeyReservesOnce, BlankRows, KeyUsed
<1>2. ASSUME NEW w \in Wids, NEW to \in {"approved", "paid", "rejected"},
             wd[w].status # "none", wd' = [wd EXCEPT ![w].status = to]
      PROVE  KeyReservesOnce' /\ BlankRows'
  <2>1. wd[w] \in Withdrawals
    BY DEF TypeOK
  <2>2. /\ wd'[w].status = to /\ wd'[w].user = wd[w].user /\ wd'[w].key = wd[w].key
        /\ \A v \in Wids \ {w} : wd'[v] = wd[v]
    BY <1>2, <2>1 DEF TypeOK, Withdrawals
  <2>3. \A v \in Wids : wd'[v].user = wd[v].user /\ wd'[v].key = wd[v].key
    BY <2>2
  <2>4. KeyReservesOnce'
    BY <2>3 DEF KeyReservesOnce
  <2>5. BlankRows'
    BY <2>2 DEF BlankRows, Unused
  <2> QED
    BY <2>4, <2>5
<1>3. ASSUME UNCHANGED wd PROVE KeyReservesOnce' /\ BlankRows'
  BY <1>3 DEF KeyReservesOnce, BlankRows
<1>4. ASSUME NEW w \in Wids, Approve(w) \/ MarkPaid(w) PROVE KeyReservesOnce' /\ BlankRows'
  BY <1>2, <1>4 DEF Approve, MarkPaid, Transition
<1>5. ASSUME NEW w \in Wids, CommitReject(w) PROVE KeyReservesOnce' /\ BlankRows'
  BY <1>2, <1>5 DEF CommitReject, TypeOK
<1> QED
  BY <1>1, <1>3, <1>4, <1>5, RowSteps

LEMMA StepRefunds == IInv /\ [Next]_vars => RefundedIffRejected'
<1> SUFFICES ASSUME IInv, [Next]_vars PROVE RefundedIffRejected'
  OBVIOUS
<1> USE DEF IInv
<1>1. ASSUME NEW h \in Handlers, NEW w \in Wids, CommitRequest(h, w) PROVE RefundedIffRejected'
  <2>1. /\ wd[w].status = "none" /\ wd'[w].status = "pending"
        /\ (\A v \in Wids \ {w} : wd'[v] = wd[v]) /\ refundRows' = refundRows
    BY <1>1 DEF CommitRequest, TypeOK
  <2> QED
    BY <2>1 DEF RefundedIffRejected
<1>2. ASSUME NEW w \in Wids, Approve(w) \/ MarkPaid(w) PROVE RefundedIffRejected'
  <2>1. PICK to \in {"approved", "paid"} :
            /\ wd[w].status \in {"pending", "approved"}
            /\ wd' = [wd EXCEPT ![w].status = to] /\ refundRows' = refundRows
    BY <1>2 DEF Approve, MarkPaid, Transition
  <2>2. wd'[w].status = to /\ \A v \in Wids \ {w} : wd'[v] = wd[v]
    BY <2>1 DEF TypeOK, Withdrawals
  <2> QED
    BY <2>1, <2>2 DEF RefundedIffRejected
<1>3. ASSUME NEW w \in Wids, CommitReject(w) PROVE RefundedIffRejected'
  <2>1. w \notin refundRows
    BY <1>3 DEF CommitReject, TypeOK, RefundedIffRejected
  <2>2. wd'[w].status = "rejected" /\ \A v \in Wids \ {w} : wd'[v] = wd[v]
    BY <1>3 DEF CommitReject, TypeOK, Withdrawals
  <2>3. refundRows' = refundRows \cup {w}
    BY <1>3, <2>1 DEF CommitReject
  <2> QED
    BY <2>2, <2>3 DEF RefundedIffRejected
<1>4. ASSUME UNCHANGED <<wd, refundRows>> PROVE RefundedIffRejected'
  BY <1>4 DEF RefundedIffRejected
<1> QED
  BY <1>1, <1>2, <1>3, <1>4, RowSteps

\* A withdrawal that was honoured stays honoured, so the rule read from the
\* history of a user cannot be undone by another transaction.
LEMMA HonouredStays ==
  ASSUME IInv, [Next]_vars, NEW u \in Users, HadFirst(u)
  PROVE  HadFirst(u)'
<1> USE DEF IInv
<1>1. PICK w \in Wids : wd[w].user = u /\ wd[w].status \in {"approved", "paid"}
  BY DEF HadFirst
<1>2. wd'[w].user = u /\ wd'[w].status \in {"approved", "paid"}
  <2>1. ASSUME NEW h \in Handlers, NEW v \in Wids, CommitRequest(h, v) PROVE wd'[w] = wd[w]
    BY <1>1, <2>1 DEF CommitRequest, TypeOK
  <2>2. ASSUME NEW v \in Wids, Approve(v) \/ MarkPaid(v)
        PROVE  wd'[w].user = u /\ wd'[w].status \in {"approved", "paid"}
    <3>1. PICK to \in {"approved", "paid"} : wd' = [wd EXCEPT ![v].status = to]
      BY <2>2 DEF Approve, MarkPaid, Transition
    <3> QED
      BY <1>1, <3>1 DEF TypeOK, Withdrawals
  <2>3. ASSUME NEW v \in Wids, CommitReject(v) PROVE wd'[w] = wd[w]
    <3>1. v # w
      BY <1>1, <2>3 DEF CommitReject, TypeOK
    <3> QED
      BY <2>3, <3>1 DEF CommitReject, TypeOK
  <2>4. CASE UNCHANGED wd
    BY <1>1, <2>4
  <2> QED
    BY <2>1, <2>2, <2>3, <2>4, <1>1, RowSteps
<1> QED
  BY <1>2 DEF HadFirst

LEMMA StepHandlers == IInv /\ [Next]_vars => WithinLimits' /\ RuleHolds'
<1> SUFFICES ASSUME IInv, [Next]_vars PROVE WithinLimits' /\ RuleHolds'
  OBVIOUS
<1> USE DEF IInv
<1>0. \A u \in Users : HadFirst(u) => HadFirst(u)'
  BY HonouredStays
<1>1. ASSUME NEW h \in Handlers, NEW u \in Users, NEW a \in Amounts,
             NEW k \in Keys \cup {NoKey}, Request(h, u, a, k)
      PROVE  WithinLimits' /\ RuleHolds'
  <2>1. /\ handlers'[h].pc \in {"lock", "duplicate"} /\ handlers'[h].amount = a
        /\ \A g \in Handlers \ {h} : handlers'[g] = handlers[g]
    BY <1>1 DEF Request, TypeOK
  <2>2. a \in Amounts \cap MinWithdraw..MaxWithdraw
    <3>1. a \in Nat
      BY AmountNat, Zenon
    <3> QED
      BY <1>1, <3>1 DEF Request
  <2>3. UNCHANGED wd
    BY <1>1 DEF Request
  <2>4. WithinLimits'
    BY <2>1, <2>2 DEF WithinLimits, Ready
  <2>5. RuleHolds'
    BY <2>1, <2>3 DEF RuleHolds, HadFirst
  <2> QED
    BY <2>4, <2>5
<1>2. ASSUME NEW h \in Handlers, LockWallet(h) PROVE WithinLimits' /\ RuleHolds'
  <2>1. handlers[h] \in Requests /\ handlers[h].pc = "lock"
    BY <1>2 DEF LockWallet, TypeOK
  <2>2. /\ handlers'[h].pc = "history" /\ handlers'[h].amount = handlers[h].amount
        /\ (\A g \in Handlers \ {h} : handlers'[g] = handlers[g]) /\ UNCHANGED wd
    BY <1>2, <2>1 DEF LockWallet, TypeOK, Requests
  <2>3. WithinLimits'
    BY <2>1, <2>2 DEF WithinLimits, Ready, Answers
  <2>4. RuleHolds'
    BY <2>2 DEF RuleHolds, HadFirst
  <2> QED
    BY <2>3, <2>4
<1>3. ASSUME NEW h \in Handlers, ReadHistory(h) PROVE WithinLimits' /\ RuleHolds'
  <2>1. handlers[h] \in Requests /\ handlers[h].pc = "history"
    BY <1>3 DEF ReadHistory, TypeOK
  <2>2. /\ handlers'[h].pc = "check" /\ handlers'[h].amount = handlers[h].amount
        /\ handlers'[h].user = handlers[h].user
        /\ handlers'[h].later = HadFirst(handlers[h].user)
        /\ (\A g \in Handlers \ {h} : handlers'[g] = handlers[g]) /\ UNCHANGED wd
    BY <1>3, <2>1 DEF ReadHistory, TypeOK, Requests
  <2>3. WithinLimits'
    BY <2>1, <2>2 DEF WithinLimits, Ready, Answers
  <2>4. RuleHolds'
    BY <2>2 DEF RuleHolds, HadFirst
  <2> QED
    BY <2>3, <2>4
<1>4. ASSUME NEW h \in Handlers, CheckRules(h), FirstRule(h) PROVE WithinLimits' /\ RuleHolds'
  <2>1. handlers[h] \in Requests /\ handlers[h].pc = "check"
    BY <1>4 DEF CheckRules, TypeOK
  <2>2. /\ handlers'[h].pc = "debit" /\ handlers'[h].amount = handlers[h].amount
        /\ handlers'[h].user = handlers[h].user
        /\ handlers'[h].later = handlers[h].later
        /\ handlers'[h].available = handlers[h].available
        /\ (\A g \in Handlers \ {h} : handlers'[g] = handlers[g]) /\ UNCHANGED wd
    BY <1>4, <2>1 DEF CheckRules, TypeOK, Requests
  <2>3. WithinLimits'
    BY <2>1, <2>2 DEF WithinLimits, Ready, Answers
  <2>4. RuleHolds'
    BY <1>4, <2>1, <2>2 DEF RuleHolds, HadFirst, FirstRule
  <2> QED
    BY <2>3, <2>4
<1>5. ASSUME NEW h \in Handlers, NEW answer \in Answers, Finish(h, answer)
      PROVE  WithinLimits' /\ RuleHolds'
  <2>1. /\ handlers'[h].pc \in Answers
        /\ \A g \in Handlers \ {h} : handlers'[g] = handlers[g]
    BY <1>5, FinishFrame
  <2>2. WithinLimits'
    BY <2>1 DEF WithinLimits, Ready
  <2>3. \A g \in Handlers : handlers[g].pc # "idle" => handlers[g].user \in Users
    BY DEF TypeOK
  <2>4. RuleHolds'
    BY <1>0, <2>1, <2>3 DEF RuleHolds, Answers
  <2> QED
    BY <2>2, <2>4
<1>6. ASSUME UNCHANGED handlers PROVE WithinLimits' /\ RuleHolds'
  <2>1. \A g \in Handlers : handlers[g].pc # "idle" => handlers[g].user \in Users
    BY DEF TypeOK
  <2> QED
    BY <1>0, <1>6, <2>1 DEF WithinLimits, Ready, RuleHolds
<1>7. ASSUME NEW h \in Handlers,
             (CheckRules(h) /\ ~FirstRule(h)) \/ RollbackRequest(h) \/ Crash(h)
             \/ \E w \in Wids : CommitRequest(h, w)
      PROVE  \E answer \in Answers : Finish(h, answer)
  BY <1>7 DEF CheckRules, RollbackRequest, Crash, CommitRequest, Answers
<1>8. ASSUME NEW w \in Wids, AdminStep(w) PROVE UNCHANGED handlers
  BY <1>8 DEF AdminStep, Approve, MarkPaid, BeginReject, CommitReject, AbortReject
<1>9. ASSUME NEW u \in Users,
             (\E a \in Amounts : Credit(u, a) \/ Debit(u, a)) \/ ReferralPlanChange(u)
      PROVE  UNCHANGED handlers
  BY <1>9 DEF Credit, Debit, ReferralPlanChange
<1> QED
  BY <1>1, <1>2, <1>3, <1>4, <1>5, <1>6, <1>7, <1>8, <1>9 DEF Next, HandlerStep, vars

\* The inductive invariant holds of every reachable state.
THEOREM Invariance == Spec => []IInv
<1>1. IInv /\ [Next]_vars => IInv'
  BY StepTypeOK, StepFresh, StepRows, StepRefunds, StepHandlers DEF IInv
<1> QED
  BY InitIInv, <1>1, PTL DEF Spec

\* One client key reserves money once, for any number of concurrent retries
\* of request_withdrawal.
THEOREM KeyReservesOnceAlways == Spec => []KeyReservesOnce
  BY Invariance, PTL DEF IInv

\* A refund row stands for a rejection and a rejection for a refund row.
THEOREM RefundedIffRejectedAlways == Spec => []RefundedIffRejected
  BY Invariance, PTL DEF IInv

\* The balance read under the row lock is the balance that is debited.
THEOREM FreshUnderLockAlways == Spec => []FreshUnderLock
  BY Invariance, PTL DEF IInv

-----------------------------------------------------------------------------
(* Threads, locks and transactions implement the ledger: every step of     *)
(* Wallet is one step of WalletLedger or changes no money and no decision. *)

LEMMA LedgerStep == IInv /\ [Next]_vars => [Ledger!LedgerNext]_(Ledger!ledgerVars)
<1> SUFFICES ASSUME IInv, [Next]_vars PROVE [Ledger!LedgerNext]_(Ledger!ledgerVars)
  OBVIOUS
<1> USE DEF Ledger!LedgerNext, Ledger!ledgerVars
<1>1. ASSUME NEW h \in Handlers, NEW w \in Wids, CommitRequest(h, w) PROVE Ledger!LedgerNext
  <2> DEFINE u == handlers[h].user
             a == handlers[h].amount
             k == handlers[h].key
  <2>1. /\ u \in Users /\ a \in Amounts /\ k \in Keys \cup {NoKey}
        /\ MinWithdraw <= a /\ a <= MaxWithdraw
    BY <1>1, CommitFacts
  <2>2. /\ wd[w].status = "none"
        /\ a <= balance[u]
        /\ k # NoKey => ~\E v \in Wids : wd[v].user = u /\ wd[v].key = k
        /\ balance' = [balance EXCEPT ![u] = @ - a]
        /\ wd' = [wd EXCEPT ![w] = [status |-> "pending", user |-> u, amount |-> a, key |-> k]]
    BY <1>1 DEF CommitRequest, Covered, KeyUsed
  <2>3. balance[u] >= FirstMinBalance \/ Ledger!Honoured(u) # {}
    <3>1. handlers[h].pc = "debit" /\ handlers[h].available = balance[u]
      BY <1>1, CommitFacts DEF CommitRequest
    <3>2. CASE handlers[h].later
      <4>1. HadFirst(u)
        BY <3>1, <3>2 DEF IInv, RuleHolds
      <4> QED
        BY <4>1 DEF HadFirst, Ledger!Honoured
    <3>3. CASE ~handlers[h].later
      BY <3>1, <3>3 DEF IInv, RuleHolds
    <3> QED
      BY <3>2, <3>3
  <2>4. Ledger!Reserve(w, u, a, k)
    BY <2>1, <2>2, <2>3 DEF Ledger!Reserve
  <2> HIDE DEF u, a, k
  <2> QED
    BY <2>1, <2>4
<1>2. ASSUME NEW w \in Wids, Approve(w) \/ MarkPaid(w) PROVE Ledger!LedgerNext
  <2>1. Ledger!Honour(w)
    BY <1>2 DEF Approve, MarkPaid, Transition, Ledger!Honour
  <2> QED
    BY <2>1
<1>3. ASSUME NEW w \in Wids, CommitReject(w) PROVE Ledger!LedgerNext
  <2>1. wd[w].status = "pending" /\ w \notin refundRows
    BY <1>3 DEF IInv, TypeOK, CommitReject, RefundedIffRejected
  <2>2. Ledger!Refuse(w)
    BY <1>3, <2>1 DEF CommitReject, Ledger!Refuse
  <2> QED
    BY <2>2
<1>4. ASSUME NEW u \in Users, NEW a \in Amounts, Credit(u, a) \/ Debit(u, a)
      PROVE  Ledger!LedgerNext
  <2>1. a \in Nat /\ balance[u] \in Nat
    BY AmountNat DEF IInv, TypeOK
  <2>2. Ledger!Deposit(u, a) \/ Ledger!Spend(u, a)
    BY <1>4, <2>1 DEF Credit, Debit, Ledger!Deposit, Ledger!Spend
  <2> QED
    BY <2>2
<1>5. ASSUME NEW h \in Handlers,
             \/ \E u \in Users, a \in Amounts, k \in Keys \cup {NoKey} : Request(h, u, a, k)
             \/ LockWallet(h) \/ ReadHistory(h) \/ CheckRules(h) \/ RollbackRequest(h) \/ Crash(h)
      PROVE  UNCHANGED <<balance, wd>>
  BY <1>5 DEF Request, LockWallet, ReadHistory, CheckRules, RollbackRequest, Crash
<1>6. ASSUME NEW w \in Wids, BeginReject(w) \/ AbortReject(w) PROVE UNCHANGED <<balance, wd>>
  BY <1>6 DEF BeginReject, AbortReject
<1>7. ASSUME NEW u \in Users, ReferralPlanChange(u) PROVE UNCHANGED <<balance, wd>>
  BY <1>7 DEF ReferralPlanChange
<1> QED
  BY <1>1, <1>2, <1>3, <1>4, <1>5, <1>6, <1>7 DEF Next, HandlerStep, AdminStep, vars

\* wallet_service implements the promise of WalletLedger: exact reservations
\* from a covered balance, the first-withdrawal minimum true at the debit, one
\* decision for each withdrawal, and one refund for each rejection.
THEOREM Implementation == Spec => ImplementsLedger
<1>1. Init => Ledger!LedgerInit
  BY DEF Init, Ledger!LedgerInit, Unused, Ledger!Unused
<1>2. IInv /\ [Next]_vars => [Ledger!LedgerNext]_(Ledger!ledgerVars)
  BY LedgerStep
<1> QED
  BY <1>1, <1>2, Invariance, PTL DEF Spec, ImplementsLedger, Ledger!LedgerSpec

-----------------------------------------------------------------------------
(* What a client is told.                                                  *)

\* A row that was filled keeps its owner, key and amount.
LEMMA RowsKeep ==
  ASSUME IInv, [Next]_vars, NEW w \in Wids, wd[w].status # "none"
  PROVE  /\ wd'[w].user = wd[w].user
         /\ wd'[w].key = wd[w].key
         /\ wd'[w].amount = wd[w].amount
<1> USE DEF IInv
<1>1. ASSUME NEW h \in Handlers, NEW v \in Wids, CommitRequest(h, v) PROVE wd'[w] = wd[w]
  BY <1>1 DEF CommitRequest, TypeOK
<1>2. ASSUME NEW v \in Wids, NEW to \in {"approved", "paid", "rejected"},
             wd' = [wd EXCEPT ![v].status = to]
      PROVE  /\ wd'[w].user = wd[w].user
             /\ wd'[w].key = wd[w].key
             /\ wd'[w].amount = wd[w].amount
  BY <1>2 DEF TypeOK, Withdrawals
<1>3. ASSUME NEW v \in Wids, Approve(v) \/ MarkPaid(v) \/ CommitReject(v)
      PROVE  \E to \in {"approved", "paid", "rejected"} : wd' = [wd EXCEPT ![v].status = to]
  BY <1>3 DEF Approve, MarkPaid, CommitReject, Transition
<1>4. CASE UNCHANGED wd
  BY <1>4
<1> QED
  BY <1>1, <1>2, <1>3, <1>4, RowSteps

Backed(h) ==
    \E w \in Wids :
        /\ wd[w].user = handlers[h].user
        /\ wd[w].key = handlers[h].key
        /\ handlers[h].pc = "submitted" => wd[w].amount = handlers[h].amount

LEMMA BackedStays ==
  ASSUME IInv, [Next]_vars, NEW g \in Handlers, handlers'[g] = handlers[g],
         handlers[g].pc # "idle", Backed(g)
  PROVE  Backed(g)'
<1>1. PICK w \in Wids :
          /\ wd[w].user = handlers[g].user
          /\ wd[w].key = handlers[g].key
          /\ handlers[g].pc = "submitted" => wd[w].amount = handlers[g].amount
  BY DEF Backed
<1>2. handlers[g].user \in Users
  BY DEF IInv, TypeOK
<1>3. wd[w].status # "none"
  BY <1>1, <1>2 DEF IInv, BlankRows, Unused
<1> QED
  BY <1>1, <1>3, RowsKeep DEF Backed

LEMMA StepAnswers == IInv /\ AnswerBacked /\ [Next]_vars => AnswerBacked'
<1> SUFFICES ASSUME IInv, AnswerBacked, [Next]_vars,
                    NEW g \in Handlers, handlers'[g].pc \in {"submitted", "duplicate"}
             PROVE  Backed(g)'
  BY DEF AnswerBacked, Backed
<1>1. CASE handlers'[g] = handlers[g]
  BY <1>1, BackedStays DEF AnswerBacked, Backed
<1>2. ASSUME NEW u \in Users, NEW a \in Amounts, NEW k \in Keys \cup {NoKey}, Request(g, u, a, k)
      PROVE  Backed(g)'
  <2>1. /\ handlers'[g].user = u /\ handlers'[g].key = k /\ handlers'[g].pc = "duplicate"
        /\ KeyUsed(u, k) /\ wd' = wd
    BY <1>2 DEF Request, IInv, TypeOK
  <2> QED
    BY <2>1 DEF KeyUsed, Backed
<1>3. ASSUME NEW w \in Wids, CommitRequest(g, w) PROVE Backed(g)'
  <2>1. /\ handlers'[g].user = handlers[g].user
        /\ handlers'[g].key = handlers[g].key
        /\ handlers'[g].amount = handlers[g].amount
    BY <1>3, FinishFrame DEF CommitRequest, Answers, IInv
  <2>2. wd'[w] = [status |-> "pending", user |-> handlers[g].user,
                  amount |-> handlers[g].amount, key |-> handlers[g].key]
    BY <1>3 DEF CommitRequest, IInv, TypeOK
  <2> QED
    BY <2>1, <2>2 DEF Backed
<1>4. ASSUME RollbackRequest(g) PROVE Backed(g)'
  <2>1. Finish(g, "duplicate") /\ KeyUsed(handlers[g].user, handlers[g].key) /\ wd' = wd
    <3>1. CASE Finish(g, "refused")
      BY <3>1, FinishFrame DEF IInv, Answers
    <3> QED
      BY <1>4, <3>1 DEF RollbackRequest
  <2>2. /\ handlers'[g].pc = "duplicate" /\ handlers'[g].user = handlers[g].user
        /\ handlers'[g].key = handlers[g].key
    BY <2>1, FinishFrame DEF IInv, Answers
  <2> QED
    BY <2>1, <2>2 DEF KeyUsed, Backed
<1>5. ASSUME CheckRules(g) \/ Crash(g) \/ LockWallet(g) \/ ReadHistory(g)
      PROVE  handlers'[g].pc \notin {"submitted", "duplicate"}
  <2>1. CASE (CheckRules(g) /\ ~FirstRule(g)) \/ Crash(g)
    BY <2>1, FinishFrame DEF CheckRules, Crash, Answers, IInv
  <2>2. CASE (CheckRules(g) /\ FirstRule(g)) \/ LockWallet(g) \/ ReadHistory(g)
    <3>1. handlers[g] \in Requests
      BY DEF IInv, TypeOK
    <3>2. CASE CheckRules(g) /\ FirstRule(g)
      BY <3>1, <3>2 DEF CheckRules, Requests, IInv, TypeOK
    <3>3. CASE LockWallet(g)
      BY <3>1, <3>3 DEF LockWallet, Requests, IInv, TypeOK
    <3>4. CASE ReadHistory(g)
      BY <3>1, <3>4 DEF ReadHistory, Requests, IInv, TypeOK
    <3> QED
      BY <2>2, <3>2, <3>3, <3>4
  <2> QED
    BY <1>5, <2>1, <2>2
<1>6. ASSUME NEW h \in Handlers \ {g}, HandlerStep(h) PROVE handlers'[g] = handlers[g]
  <2>1. CASE \E u \in Users, a \in Amounts, k \in Keys \cup {NoKey} : Request(h, u, a, k)
    BY <2>1 DEF Request, IInv, TypeOK
  <2>2. CASE LockWallet(h) \/ ReadHistory(h) \/ (CheckRules(h) /\ FirstRule(h))
    BY <2>2 DEF LockWallet, ReadHistory, CheckRules, IInv, TypeOK
  <2>3. CASE \E answer \in Answers : Finish(h, answer)
    BY <2>3, FinishFrame DEF IInv
  <2>4. CASE (CheckRules(h) /\ ~FirstRule(h)) \/ RollbackRequest(h) \/ Crash(h)
             \/ \E w \in Wids : CommitRequest(h, w)
    BY <2>3, <2>4 DEF CheckRules, RollbackRequest, Crash, CommitRequest, Answers
  <2> QED
    BY <1>6, <2>1, <2>2, <2>4 DEF HandlerStep
<1>7. ASSUME NEW w \in Wids, AdminStep(w) PROVE UNCHANGED handlers
  BY <1>7 DEF AdminStep, Approve, MarkPaid, BeginReject, CommitReject, AbortReject
<1>8. ASSUME NEW u \in Users,
             (\E a \in Amounts : Credit(u, a) \/ Debit(u, a)) \/ ReferralPlanChange(u)
      PROVE  UNCHANGED handlers
  BY <1>8 DEF Credit, Debit, ReferralPlanChange
<1>9. CASE HandlerStep(g)
  BY <1>2, <1>3, <1>4, <1>5, <1>9 DEF HandlerStep
<1>10. CASE UNCHANGED vars
  BY <1>1, <1>10 DEF vars
<1> QED
  BY <1>1, <1>6, <1>7, <1>8, <1>9, <1>10 DEF Next

\* "submitted" and "duplicate" always name a row that holds the money, also
\* after the rollback of a duplicate.
THEOREM AnswerBackedAlways == Spec => []AnswerBacked
<1>1. Init => AnswerBacked
  BY DEF Init, Idle, AnswerBacked
<1> QED
  BY <1>1, StepAnswers, Invariance, PTL DEF Spec
=============================================================================
