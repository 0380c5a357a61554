------------------------------- MODULE Wallet -------------------------------
(***************************************************************************)
(* services/wallet_service.py: the spendable balance and the withdrawal    *)
(* state machine, run by several request threads against one PostgreSQL    *)
(* database at READ COMMITTED.                                             *)
(*                                                                         *)
(* A statement that reads or writes shared rows is a step of its own when  *)
(* another transaction can commit between it and the next one.  A row lock *)
(* (SELECT ... FOR UPDATE) is a variable that names its holder; a step     *)
(* that needs the lock is disabled until it is free.  Rows written by a    *)
(* transaction appear at its commit.                                       *)
(***************************************************************************)
EXTENDS Integers, FiniteSets

CONSTANTS
    Users,          \* users that own a wallet
    Wids,           \* withdraw_requests.id values
    Keys,           \* client idempotency keys
    NoKey,          \* a request sent without an idempotency key
    NoUser,         \* user column of a row that does not exist yet
    MinWithdraw,    \* MIN_WITHDRAW
    MaxWithdraw,    \* MAX_WITHDRAW
    FirstMinBalance,\* FIRST_WITHDRAW_MIN_BALANCE
    Amounts,        \* amounts a client asks for, or the application moves
    Handlers,       \* request threads inside request_withdrawal
    NoHandler,      \* a wallet row nobody has locked
    MaxBalance      \* bound: no credit may push a balance above it

VARIABLES
    balance,        \* [Users -> Nat], wallet_balance.balance
    wd,             \* [Wids -> row], withdraw_requests
    handlers,       \* [Handlers -> local state of the request, and its answer]
    walletLock,     \* [Users -> Handlers \cup {NoHandler}], wallet_balance row lock
    rejecting,      \* withdrawals locked by a reject that has not committed
    refundRows,     \* withdrawals with a withdraw-refund:{id} ledger row
    paidReferral    \* users with a referred user on a paid business plan

vars == <<balance, wd, handlers, walletLock, rejecting, refundRows, paidReferral>>

ASSUME WalletAssumption ==
    /\ MinWithdraw \in Nat \ {0}
    /\ MaxWithdraw \in Nat
    /\ FirstMinBalance \in Nat
    /\ MaxBalance \in Nat
    /\ Amounts \subseteq Nat \ {0}
    /\ NoUser \notin Users
    /\ NoKey \notin Keys
    /\ NoHandler \notin Handlers

Unused == [status |-> "none", user |-> NoUser, amount |-> 0, key |-> NoKey]

Idle == [pc |-> "idle", user |-> NoUser, amount |-> 0, key |-> NoKey,
         available |-> 0, later |-> FALSE]

Init ==
    /\ balance = [u \in Users |-> 0]
    /\ wd = [w \in Wids |-> Unused]
    /\ handlers = [h \in Handlers |-> Idle]
    /\ walletLock = [u \in Users |-> NoHandler]
    /\ rejecting = {}
    /\ refundRows = {}
    /\ paidReferral = {}

-----------------------------------------------------------------------------
(* request_withdrawal, one action per statement that another transaction   *)
(* can come between.  The pc of a finished request is its answer.          *)

Answers == {"submitted", "duplicate", "refused", "failed"}
Ready(h) == handlers[h].pc \in {"idle"} \cup Answers

\* _existing_idempotent_withdraw; a request without a key never matches.
KeyUsed(u, k) == k # NoKey /\ \E w \in Wids : wd[w].user = u /\ wd[w].key = k

\* Slip: every withdrawal that was not rejected counts as the first one.
HadFirst_Pending(u) == \E w \in Wids : wd[w].user = u /\ wd[w].status # "rejected"

\* _had_first_withdrawal.
HadFirst(u) == \E w \in Wids : wd[w].user = u /\ wd[w].status \in {"approved", "paid"}

\* Bound: a request starts only while a row is left for each that is running.
RowsLeft == Cardinality({g \in Handlers : ~Ready(g)})
                < Cardinality({w \in Wids : wd[w].status = "none"})

\* The amount limits, then the unlocked lookup of the idempotency key: a key
\* that is already used answers "duplicate" and ends the request.
Request(h, u, a, k) ==
    /\ Ready(h)
    /\ RowsLeft
    /\ MinWithdraw <= a /\ a <= MaxWithdraw
    /\ handlers' = [handlers EXCEPT ![h] =
           [pc |-> IF KeyUsed(u, k) THEN "duplicate" ELSE "lock",
            user |-> u, amount |-> a, key |-> k, available |-> 0, later |-> FALSE]]
    /\ UNCHANGED <<balance, wd, walletLock, rejecting, refundRows, paidReferral>>

\* SELECT balance ... FOR UPDATE.
LockWallet(h) ==
    LET u == handlers[h].user IN
    /\ handlers[h].pc = "lock"
    /\ walletLock[u] = NoHandler
    /\ walletLock' = [walletLock EXCEPT ![u] = h]
    /\ handlers' = [handlers EXCEPT ![h] = [@ EXCEPT !.pc = "history", !.available = balance[u]]]
    /\ UNCHANGED <<balance, wd, rejecting, refundRows, paidReferral>>

ReadHistory(h) ==
    /\ handlers[h].pc = "history"
    /\ handlers' = [handlers EXCEPT ![h] =
           [@ EXCEPT !.pc = "check", !.later = HadFirst(handlers[h].user)]]
    /\ UNCHANGED <<balance, wd, walletLock, rejecting, refundRows, paidReferral>>

\* Slip: an error path returns without ending its transaction.
Finish_KeepsLock(h, answer) ==
    /\ handlers' = [handlers EXCEPT ![h] =
           [@ EXCEPT !.pc = answer, !.available = 0, !.later = FALSE]]
    /\ UNCHANGED walletLock

\* The end of a transaction: the answer is fixed and the row lock is free.
Finish(h, answer) ==
    /\ handlers' = [handlers EXCEPT ![h] =
           [@ EXCEPT !.pc = answer, !.available = 0, !.later = FALSE]]
    /\ walletLock' = [u \in Users |-> IF walletLock[u] = h THEN NoHandler ELSE walletLock[u]]

\* The rule for a first withdrawal: the balance read under the lock, and
\* _paid_business_referral_count read now.
FirstRule(h) ==
    \/ handlers[h].later
    \/ /\ handlers[h].available >= FirstMinBalance
       /\ handlers[h].user \in paidReferral

CheckRules(h) ==
    /\ handlers[h].pc = "check"
    /\ \/ /\ FirstRule(h)
          /\ handlers' = [handlers EXCEPT ![h].pc = "debit"]
          /\ UNCHANGED walletLock
       \/ ~FirstRule(h) /\ Finish(h, "refused")
    /\ UNCHANGED <<balance, wd, rejecting, refundRows, paidReferral>>

\* The WHERE clause of _cas_debit.
Covered(h) == balance[handlers[h].user] >= handlers[h].amount

\* Slip: no unique index behind the unlocked lookup of the key.
CommitRequest_NoIndex(h, w) ==
    LET r == handlers[h] IN
    /\ r.pc = "debit"
    /\ Covered(h)
    /\ wd[w].status = "none"
    /\ balance' = [balance EXCEPT ![r.user] = @ - r.amount]
    /\ wd' = [wd EXCEPT ![w] =
           [status |-> "pending", user |-> r.user, amount |-> r.amount, key |-> r.key]]
    /\ Finish(h, "submitted")
    /\ UNCHANGED <<rejecting, refundRows, paidReferral>>

\* _cas_debit, INSERT of the pending row, its ledger row, COMMIT.
CommitRequest(h, w) ==
    LET r == handlers[h] IN
    /\ r.pc = "debit"
    /\ Covered(h)
    /\ ~KeyUsed(r.user, r.key)
    /\ wd[w].status = "none"
    /\ balance' = [balance EXCEPT ![r.user] = @ - r.amount]
    /\ wd' = [wd EXCEPT ![w] =
           [status |-> "pending", user |-> r.user, amount |-> r.amount, key |-> r.key]]
    /\ Finish(h, "submitted")
    /\ UNCHANGED <<rejecting, refundRows, paidReferral>>

\* The debit finds too little money, or the INSERT finds the key taken
\* (uq_withdraw_requests_user_reference): ROLLBACK undoes the debit.
RollbackRequest(h) ==
    /\ handlers[h].pc = "debit"
    /\ \/ ~Covered(h) /\ Finish(h, "refused")
       \/ /\ Covered(h)
          /\ KeyUsed(handlers[h].user, handlers[h].key)
          /\ Finish(h, "duplicate")
    /\ UNCHANGED <<balance, wd, rejecting, refundRows, paidReferral>>

\* A killed worker or a lost connection before COMMIT: PostgreSQL rolls back.
Crash(h) ==
    /\ ~Ready(h)
    /\ Finish(h, "failed")
    /\ UNCHANGED <<balance, wd, rejecting, refundRows, paidReferral>>

-----------------------------------------------------------------------------
(* Admin decisions.  _transition_withdraw locks the row, so a decision     *)
(* waits for a reject of the same row that has not committed.              *)

\* Slip: the status is not compared again under the row lock.
Transition_AnyStatus(w, from, to) ==
    /\ w \notin rejecting
    /\ wd[w].status # "none"
    /\ wd' = [wd EXCEPT ![w].status = to]

Transition(w, from, to) ==
    /\ w \notin rejecting
    /\ wd[w].status = from
    /\ wd' = [wd EXCEPT ![w].status = to]

Approve(w) ==
    /\ Transition(w, "pending", "approved")
    /\ UNCHANGED <<balance, handlers, walletLock, rejecting, refundRows, paidReferral>>

MarkPaid(w) ==
    /\ Transition(w, "approved", "paid") \/ Transition(w, "pending", "paid")
    /\ UNCHANGED <<balance, handlers, walletLock, rejecting, refundRows, paidReferral>>

\* reject_withdrawal up to its wait for the wallet row.
BeginReject(w) ==
    /\ w \notin rejecting
    /\ wd[w].status = "pending"
    /\ rejecting' = rejecting \cup {w}
    /\ UNCHANGED <<balance, wd, handlers, walletLock, refundRows, paidReferral>>

\* The refund unless its ledger row is there, and COMMIT.
CommitReject(w) ==
    LET u == wd[w].user IN
    /\ w \in rejecting
    /\ wd' = [wd EXCEPT ![w].status = "rejected"]
    /\ IF w \in refundRows
       THEN UNCHANGED <<balance, refundRows>>
       ELSE /\ walletLock[u] = NoHandler
            /\ balance' = [balance EXCEPT ![u] = @ + wd[w].amount]
            /\ refundRows' = refundRows \cup {w}
    /\ rejecting' = rejecting \ {w}
    /\ UNCHANGED <<handlers, walletLock, paidReferral>>

AbortReject(w) ==
    /\ w \in rejecting
    /\ rejecting' = rejecting \ {w}
    /\ UNCHANGED <<balance, wd, handlers, walletLock, refundRows, paidReferral>>

-----------------------------------------------------------------------------
(* Money that other services move, and plans that other users change.      *)

\* _credit_balance: credit_wallet and the commission payout.
Credit(u, a) ==
    /\ walletLock[u] = NoHandler
    /\ balance[u] + a <= MaxBalance
    /\ balance' = [balance EXCEPT ![u] = @ + a]
    /\ UNCHANGED <<wd, handlers, walletLock, rejecting, refundRows, paidReferral>>

\* debit_wallet.
Debit(u, a) ==
    /\ walletLock[u] = NoHandler
    /\ balance[u] >= a
    /\ balance' = [balance EXCEPT ![u] = @ - a]
    /\ UNCHANGED <<wd, handlers, walletLock, rejecting, refundRows, paidReferral>>

\* A referred user buys a business plan, or moves to another plan.
ReferralPlanChange(u) ==
    /\ \/ paidReferral' = paidReferral \cup {u}
       \/ paidReferral' = paidReferral \ {u}
    /\ UNCHANGED <<balance, wd, handlers, walletLock, rejecting, refundRows>>

HandlerStep(h) ==
    \/ \E u \in Users, a \in Amounts, k \in Keys \cup {NoKey} : Request(h, u, a, k)
    \/ LockWallet(h)
    \/ ReadHistory(h)
    \/ CheckRules(h)
    \/ \E w \in Wids : CommitRequest(h, w)
    \/ RollbackRequest(h)
    \/ Crash(h)

AdminStep(w) ==
    Approve(w) \/ MarkPaid(w) \/ BeginReject(w) \/ CommitReject(w) \/ AbortReject(w)

Next ==
    \/ \E h \in Handlers : HandlerStep(h)
    \/ \E w \in Wids : AdminStep(w)
    \/ \E u \in Users, a \in Amounts : Credit(u, a) \/ Debit(u, a)
    \/ \E u \in Users : ReferralPlanChange(u)

Spec == Init /\ [][Next]_vars

\* Every transaction of the pool ends: a handler that can take its next
\* statement takes it, a lock request is served in its turn (PostgreSQL queues
\* them), and a reject commits or is rolled back.
Fairness ==
    /\ \A h \in Handlers :
          /\ SF_vars(LockWallet(h))
          /\ WF_vars(ReadHistory(h))
          /\ WF_vars(CheckRules(h))
          /\ WF_vars((\E w \in Wids : CommitRequest(h, w)) \/ RollbackRequest(h))
    /\ \A w \in Wids : SF_vars(CommitReject(w))

FairSpec == Spec /\ Fairness

-----------------------------------------------------------------------------
(* Properties *)

Statuses == {"none", "pending", "approved", "rejected", "paid"}
Withdrawals == [status : Statuses, user : Users \cup {NoUser},
                amount : Amounts \cup {0}, key : Keys \cup {NoKey}]
Requests == [pc : {"idle", "lock", "history", "check", "debit"} \cup Answers,
             user : Users \cup {NoUser}, amount : Amounts \cup {0},
             key : Keys \cup {NoKey}, available : Nat, later : BOOLEAN]

\* Types, and a spendable balance that no interleaving of debits makes
\* negative (wallet_service.debit_wallet: "Never goes negative").
TypeOK ==
    /\ balance \in [Users -> Nat]
    /\ wd \in [Wids -> Withdrawals]
    /\ handlers \in [Handlers -> Requests]
    /\ \A w \in Wids : wd[w].status # "none" => wd[w].user \in Users
    /\ \A h \in Handlers : handlers[h].pc # "idle" => handlers[h].user \in Users
    /\ walletLock \in [Users -> Handlers \cup {NoHandler}]
    /\ rejecting \subseteq {w \in Wids : wd[w].status = "pending"}
    /\ refundRows \subseteq Wids
    /\ paidReferral \subseteq Users

\* One client key reserves money once, however many threads retry it: the
\* lookup of request_withdrawal is made before its lock, so two threads can
\* both miss and only the check at the insert keeps them apart.
KeyReservesOnce ==
    \A v, w \in Wids :
        (wd[v].key # NoKey /\ wd[v].user = wd[w].user /\ wd[v].key = wd[w].key) => v = w

\* A withdrawal has a refund row exactly when it is rejected: no refund
\* without the decision, no decision without the refund, and no status that an
\* approve or a mark-paid can reach with the money given back.
RefundedIffRejected == refundRows = {w \in Wids : wd[w].status = "rejected"}

HoldsLock(h) == handlers[h].pc \in {"history", "check", "debit"}

\* What a request read under its row lock is still true when it debits: the
\* 500-rupee rule is decided on the balance that is there at the commit, in
\* spite of payouts, refunds and other requests.
FreshUnderLock ==
    \A h \in Handlers : HoldsLock(h) =>
        /\ walletLock[handlers[h].user] = h
        /\ handlers[h].available = balance[handlers[h].user]

\* An answer that tells the client its money is reserved names a row that
\* exists, also when it is the answer of a rolled-back duplicate.
AnswerBacked ==
    \A h \in Handlers : handlers[h].pc \in {"submitted", "duplicate"} =>
        \E w \in Wids :
            /\ wd[w].user = handlers[h].user
            /\ wd[w].key = handlers[h].key
            /\ handlers[h].pc = "submitted" => wd[w].amount = handlers[h].amount

\* A running request passed the amount limits.
WithinLimits ==
    \A h \in Handlers : ~Ready(h) =>
        handlers[h].amount \in Amounts \cap MinWithdraw..MaxWithdraw

\* The 500-rupee decision, once made, stays true up to the debit.
RuleHolds ==
    \A h \in Handlers :
        /\ handlers[h].pc \in {"check", "debit"} /\ handlers[h].later
               => HadFirst(handlers[h].user)
        /\ handlers[h].pc = "debit" /\ ~handlers[h].later
               => handlers[h].available >= FirstMinBalance

BlankRows == \A w \in Wids : wd[w].status = "none" => wd[w] = Unused

\* The inductive invariant of the proofs.
IInv ==
    /\ TypeOK
    /\ KeyReservesOnce
    /\ RefundedIffRejected
    /\ FreshUnderLock
    /\ WithinLimits
    /\ RuleHolds
    /\ BlankRows

\* Threads, locks and rollbacks add nothing to the promise of WalletLedger:
\* a reservation takes exactly its amount from a balance that covers it, with
\* the first-withdrawal minimum true at that instant; a decision is made once;
\* only a rejection restores the amount, once.
Ledger == INSTANCE WalletLedger WITH balance <- balance, wd <- wd
ImplementsLedger == Ledger!LedgerSpec

\* No request thread is left waiting for a wallet row, and no reject for its
\* refund: the locks of request_withdrawal and reject_withdrawal cannot
\* starve or block each other for ever.
NobodyWaitsForever ==
    /\ \A h \in Handlers : handlers[h].pc = "lock" ~> Ready(h)
    /\ \A w \in Wids : w \in rejecting ~> w \notin rejecting
=============================================================================
