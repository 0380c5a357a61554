----------------------------- MODULE Commission -----------------------------
(***************************************************************************)
(* services/referral_commission.py on top of PaymentOrders: the jobs that  *)
(* turn a paid order into a locked commission, the Saturday payout that    *)
(* releases it, and the refund that stops it.                              *)
(*                                                                         *)
(* Job batches, payouts and refunds are transactions that overlap.  What a *)
(* transaction has written but not committed is in its own state; the rows *)
(* it has locked are read off that state.  FOR UPDATE SKIP LOCKED passes   *)
(* over a locked row, FOR UPDATE and UPDATE wait for it.                   *)
(***************************************************************************)
EXTENDS PaymentOrders

CONSTANTS
    Referrer,       \* [Users -> Users \cup {NoUser}], users.referred_by
    NoUser,         \* a user nobody referred
    Workers,        \* transactions of process_pending_referral_commission_jobs
    Payouts,        \* transactions of release_locked_referral_payouts
    Refundable      \* bound: the payments that may be refunded

VARIABLES
    worker,         \* [Workers -> [held : jobs locked, out : what each came to]]
    tx,             \* [Pids -> row], commission rows of wallet_transactions
    firstPaid,      \* users with first_sub_commission_paid
    credits,        \* [Pids -> Nat], times the commission reached wallet_balance
    due,            \* commissions whose unlock_at has passed
    payout,         \* [Payouts -> SUBSET Pids], rows a payout has locked
    refunded,       \* payments Razorpay has refunded in full
    partRefunded,   \* payments Razorpay has refunded in part
    refund,         \* [Pids -> progress of the handler of a full refund]
    settled,        \* [Pids -> what the last handled full refund found]
    flagged         \* payments for whose refund the agent was flagged

commissionVars == <<worker, tx, firstPaid, credits, due, payout,
                    refunded, partRefunded, refund, settled, flagged>>
vars == <<paymentVars, commissionVars>>

ASSUME CommissionAssumption ==
    /\ NoUser \notin Users
    /\ Referrer \in [Users -> Users \cup {NoUser}]

BuyerOf(p) == Buyer[OrderOf[p]]
NoRow == [status |-> "none", kind |-> "none"]
IdleWorker == [held |-> {}, out |-> [p \in Pids |-> "todo"]]

Init ==
    /\ PaymentInit
    /\ worker = [k \in Workers |-> IdleWorker]
    /\ tx = [p \in Pids |-> NoRow]
    /\ firstPaid = {}
    /\ credits = [p \in Pids |-> 0]
    /\ due = {}
    /\ payout = [s \in Payouts |-> {}]
    /\ refunded = {}
    /\ partRefunded = {}
    /\ refund = [p \in Pids |-> "idle"]
    /\ settled = [p \in Pids |-> "no"]
    /\ flagged = {}

-----------------------------------------------------------------------------
(* Row locks.                                                              *)

\* users rows: process_referral_commission locks the buyer of each job.
UserLocked(u) ==
    \E k \in Workers, p \in Pids : worker[k].out[p] # "todo" /\ BuyerOf(p) = u

\* Slip: no FOR UPDATE on the row of the buyer.
UserLockedByOther_Never(k, u) == FALSE

UserLockedByOther(k, u) ==
    \E j \in Workers \ {k}, p \in Pids : worker[j].out[p] # "todo" /\ BuyerOf(p) = u

JobLocked(p) == (\E k \in Workers : p \in worker[k].held) \/ refund[p] = "job"

TxLocked(p) == \E s \in Payouts : p \in payout[s]

\* The payment side.  The UPDATE of users in an activation waits for a worker
\* that has locked the buyer; the INSERT of a job waits for nobody, and an
\* activation that waits has written nothing another transaction can see.
Pay ==
    /\ PaymentStep
    /\ \A u \in Users : plan'[u] # plan[u] => ~UserLocked(u)
    /\ \A o \in Orders : grants'[o] # grants[o] => ~UserLocked(Buyer[o])
    /\ UNCHANGED commissionVars

-----------------------------------------------------------------------------
(* process_pending_referral_commission_jobs.                               *)

\* The jobs of one payment (after_payment_finalized), or a batch of all that
\* are pending (/internal/referral-commission-retry, whose LIMIT of 100 is not
\* reached here).  FOR UPDATE SKIP LOCKED.
LockJobs(k, jobs) ==
    LET free == {p \in jobs : job[p] = "pending" /\ ~JobLocked(p)} IN
    /\ worker[k].held = {}
    /\ free # {}
    /\ worker' = [worker EXCEPT ![k] = [IdleWorker EXCEPT !.held = free]]
    /\ UNCHANGED <<paymentVars, tx, firstPaid, credits, due, payout,
                   refunded, partRefunded, refund, settled, flagged>>

\* Slip: any capture of an activated order pays.
Payable_AnyCapture(p) == Activated(OrderOf[p])

\* _load_activated_payment finds the row of this payment, activated.
Payable(p) == order[OrderOf[p]] = [status |-> "activated", pid |-> p]

Referred(u) == Referrer[u] \notin {NoUser, u}

\* first_sub_commission_paid as worker k reads it: committed, or set by an
\* earlier job of its own batch.
FirstDone(k, u) ==
    \/ u \in firstPaid
    \/ \E q \in Pids : worker[k].out[q] \in {"first", "free"} /\ BuyerOf(q) = u

\* process_referral_commission: "free" is a first sale whose configured bonus
\* is zero, "failed" a CommissionPlanLookupError, which leaves the job pending.
Outcomes(k, p) ==
    IF ~Referred(BuyerOf(p)) THEN {"skip"}
    ELSE IF tx[p].status # "none" THEN {"known"}
    ELSE IF ~Payable(p) THEN {"failed"}
    ELSE IF FirstDone(k, BuyerOf(p)) THEN {"recurring"}
    ELSE {"first", "free"}

\* One job of the batch, after its wait for the row of the buyer.  ORDER BY id
\* picks one of these orders.
HandleJob(k, p) ==
    /\ p \in worker[k].held
    /\ worker[k].out[p] = "todo"
    /\ ~UserLockedByOther(k, BuyerOf(p))
    /\ \E result \in Outcomes(k, p) : worker' = [worker EXCEPT ![k].out[p] = result]
    /\ UNCHANGED <<paymentVars, tx, firstPaid, credits, due, payout,
                   refunded, partRefunded, refund, settled, flagged>>

\* Slip: a finished job is deleted, so that it can be queued again.
JobAfter_Deleted(result) ==
    CASE result = "skip" -> "skipped"
      [] result = "failed" -> "pending"
      [] OTHER -> "none"

\* The status a handled job is given.
JobAfter(result) ==
    CASE result = "skip" -> "skipped"
      [] result = "failed" -> "pending"
      [] OTHER -> "completed"

\* Slip: one job that cannot be paid rolls the whole batch back.
CommitJobs_AllOrNothing(k) ==
    LET held == worker[k].held
        out == worker[k].out
    IN
    /\ held # {}
    /\ \A p \in held : out[p] \notin {"todo", "failed"}
    /\ job' = [p \in Pids |-> IF p \in held THEN JobAfter(out[p]) ELSE job[p]]
    /\ tx' = [p \in Pids |-> IF p \in held /\ out[p] \in {"first", "recurring"}
                             THEN [status |-> "locked", kind |-> out[p]]
                             ELSE tx[p]]
    /\ firstPaid' = firstPaid \cup {BuyerOf(p) : p \in {q \in held : out[q] \in {"first", "free"}}}
    /\ worker' = [worker EXCEPT ![k] = IdleWorker]
    /\ UNCHANGED <<order, grants, plan, captured, declined, credits, due, payout,
                   refunded, partRefunded, refund, settled, flagged>>

CommitJobs(k) ==
    LET held == worker[k].held
        out == worker[k].out
    IN
    /\ held # {}
    /\ \A p \in held : out[p] # "todo"
    /\ job' = [p \in Pids |-> IF p \in held THEN JobAfter(out[p]) ELSE job[p]]
    /\ tx' = [p \in Pids |-> IF p \in held /\ out[p] \in {"first", "recurring"}
                             THEN [status |-> "locked", kind |-> out[p]]
                             ELSE tx[p]]
    /\ firstPaid' = firstPaid \cup {BuyerOf(p) : p \in {q \in held : out[q] \in {"first", "free"}}}
    /\ worker' = [worker EXCEPT ![k] = IdleWorker]
    /\ UNCHANGED <<order, grants, plan, captured, declined, credits, due, payout,
                   refunded, partRefunded, refund, settled, flagged>>

\* A crash, a lost connection, or the victim of a deadlock between two batches
\* that lock the same buyers in opposite orders: ROLLBACK.
AbortJobs(k) ==
    /\ worker[k].held # {}
    /\ worker' = [worker EXCEPT ![k] = IdleWorker]
    /\ UNCHANGED <<paymentVars, tx, firstPaid, credits, due, payout,
                   refunded, partRefunded, refund, settled, flagged>>

-----------------------------------------------------------------------------
(* release_locked_referral_payouts.                                        *)

\* Saturday 18:00 IST passes for the commissions that wait for it.
Saturday ==
    /\ due' = due \cup {p \in Pids : tx[p].status = "locked"}
    /\ UNCHANGED <<paymentVars, worker, tx, firstPaid, credits, payout,
                   refunded, partRefunded, refund, settled, flagged>>

\* Slip: unlock_at is not compared with the time.
LockPayout_Early(s) ==
    LET rows == {p \in Pids : tx[p].status = "locked" /\ ~TxLocked(p)} IN
    /\ payout[s] = {}
    /\ rows # {}
    /\ payout' = [payout EXCEPT ![s] = rows]
    /\ UNCHANGED <<paymentVars, worker, tx, firstPaid, credits, due,
                   refunded, partRefunded, refund, settled, flagged>>

LockPayout(s) ==
    LET rows == {p \in due : tx[p].status = "locked" /\ ~TxLocked(p)} IN
    /\ payout[s] = {}
    /\ rows # {}
    /\ payout' = [payout EXCEPT ![s] = rows]
    /\ UNCHANGED <<paymentVars, worker, tx, firstPaid, credits, due,
                   refunded, partRefunded, refund, settled, flagged>>

\* UPDATE ... WHERE status = 'locked', the credit for each row it changed, and
\* COMMIT.
CommitPayout(s) ==
    LET rows == {p \in payout[s] : tx[p].status = "locked"} IN
    /\ payout[s] # {}
    /\ tx' = [p \in Pids |-> IF p \in rows THEN [tx[p] EXCEPT !.status = "released"] ELSE tx[p]]
    /\ credits' = [p \in Pids |-> IF p \in rows THEN credits[p] + 1 ELSE credits[p]]
    /\ payout' = [payout EXCEPT ![s] = {}]
    /\ UNCHANGED <<paymentVars, worker, firstPaid, due,
                   refunded, partRefunded, refund, settled, flagged>>

AbortPayout(s) ==
    /\ payout[s] # {}
    /\ payout' = [payout EXCEPT ![s] = {}]
    /\ UNCHANGED <<paymentVars, worker, tx, firstPaid, credits, due,
                   refunded, partRefunded, refund, settled, flagged>>

-----------------------------------------------------------------------------
(* reverse_commission_for_refund and the refund webhook.                   *)

\* Razorpay refunds a captured payment, in full or in part.
Refund(p) ==
    /\ p \in captured \cap Refundable
    /\ \/ refunded' = refunded \cup {p} /\ UNCHANGED partRefunded
       \/ partRefunded' = partRefunded \cup {p} /\ UNCHANGED refunded
    /\ UNCHANGED <<paymentVars, worker, tx, firstPaid, credits, due, payout,
                   refund, settled, flagged>>

\* Slip: the skip does not wait for a batch that holds the job.
RefundSkipsJob_NoWait(p) ==
    /\ p \in refunded
    /\ refund[p] = "idle"
    /\ refund' = [refund EXCEPT ![p] = CASE job[p] = "pending" -> "job"
                                         [] job[p] = "none" -> "none"
                                         [] OTHER -> "done"]
    /\ UNCHANGED <<paymentVars, worker, tx, firstPaid, credits, due, payout,
                   refunded, partRefunded, settled, flagged>>

\* UPDATE of the pending job: waits for the batch that holds it, and locks it.
\* "none" remembers, for the properties, that no job existed yet.
RefundSkipsJob(p) ==
    /\ p \in refunded
    /\ refund[p] = "idle"
    /\ job[p] = "pending" => ~JobLocked(p)
    /\ refund' = [refund EXCEPT ![p] = CASE job[p] = "pending" -> "job"
                                         [] job[p] = "none" -> "none"
                                         [] OTHER -> "done"]
    /\ UNCHANGED <<paymentVars, worker, tx, firstPaid, credits, due, payout,
                   refunded, partRefunded, settled, flagged>>

\* flag_user updates the agent's row of users, so it waits for it.
Flag(p) ==
    /\ ~UserLocked(Referrer[BuyerOf(p)])
    /\ flagged' = flagged \cup {p}

\* Slip: a commission that was paid out is reversed without a clawback.
RefundReverses_Released(p) ==
    /\ refund[p] # "idle"
    /\ ~TxLocked(p)
    /\ job' = IF refund[p] = "job" THEN [job EXCEPT ![p] = "skipped"] ELSE job
    /\ tx' = IF tx[p].status # "none" THEN [tx EXCEPT ![p].status = "reversed"] ELSE tx
    /\ refund' = [refund EXCEPT ![p] = "idle"]
    /\ settled' = [settled EXCEPT ![p] = IF refund[p] = "none" THEN "early" ELSE "stopped"]
    /\ UNCHANGED <<order, grants, plan, captured, declined, worker, firstPaid, credits, due,
                   payout, refunded, partRefunded, flagged>>

\* The ledger rows FOR UPDATE (waits for a payout), their reversal or the
\* flag, and COMMIT.
RefundReverses(p) ==
    /\ refund[p] # "idle"
    /\ ~TxLocked(p)
    /\ job' = IF refund[p] = "job" THEN [job EXCEPT ![p] = "skipped"] ELSE job
    /\ tx' = IF tx[p].status = "locked" THEN [tx EXCEPT ![p].status = "reversed"] ELSE tx
    /\ IF tx[p].status = "released" THEN Flag(p) ELSE UNCHANGED flagged
    /\ refund' = [refund EXCEPT ![p] = "idle"]
    /\ settled' = [settled EXCEPT ![p] = IF refund[p] = "none" THEN "early" ELSE "stopped"]
    /\ UNCHANGED <<order, grants, plan, captured, declined, worker, firstPaid, credits, due,
                   payout, refunded, partRefunded>>

\* An error: ROLLBACK and a 500, so that Razorpay sends the notice again.
RefundFails(p) ==
    /\ refund[p] # "idle"
    /\ refund' = [refund EXCEPT ![p] = "idle"]
    /\ UNCHANGED <<paymentVars, worker, tx, firstPaid, credits, due, payout,
                   refunded, partRefunded, settled, flagged>>

\* A refund in part reverses nothing and flags the agent.
PartRefundFlags(p) ==
    /\ p \in partRefunded
    /\ ~TxLocked(p)
    /\ tx[p].status \in {"locked", "released"}
    /\ Flag(p)
    /\ UNCHANGED <<paymentVars, worker, tx, firstPaid, credits, due, payout,
                   refunded, partRefunded, refund, settled>>

WorkerStep(k) ==
    \/ LockJobs(k, Pids)
    \/ \E p \in Pids : LockJobs(k, {p}) \/ HandleJob(k, p)
    \/ CommitJobs(k)
    \/ AbortJobs(k)

PayoutStep(s) == LockPayout(s) \/ CommitPayout(s) \/ AbortPayout(s)

RefundStep(p) ==
    Refund(p) \/ RefundSkipsJob(p) \/ RefundReverses(p) \/ RefundFails(p) \/ PartRefundFlags(p)

Next ==
    \/ Pay
    \/ \E k \in Workers : WorkerStep(k)
    \/ Saturday
    \/ \E s \in Payouts : PayoutStep(s)
    \/ \E p \in Pids : RefundStep(p)

Spec == Init /\ [][Next]_vars

\* The external scheduler calls the retry endpoint and the payout endpoint
\* again and again, a call that can go on does, and Saturdays come.  Crashes
\* and deadlocks roll back some batches, not all there will ever be.
Fairness ==
    /\ \A k \in Workers :
          /\ SF_vars(LockJobs(k, Pids))
          /\ SF_vars(\E p \in Pids : HandleJob(k, p))
          /\ WF_vars(CommitJobs(k))
          /\ <>[][~AbortJobs(k)]_vars
    /\ WF_vars(Saturday)
    /\ \A s \in Payouts : SF_vars(LockPayout(s)) /\ SF_vars(CommitPayout(s))
    /\ SF_vars(\E p \in Pids : RefundReverses(p))

FairSpec == Spec /\ Fairness

-----------------------------------------------------------------------------
(* Properties *)

Results == {"todo", "skip", "known", "failed", "free", "first", "recurring"}

CommissionTypeOK ==
    /\ PaymentTypeOK
    /\ worker \in [Workers -> [held : SUBSET Pids, out : [Pids -> Results]]]
    /\ tx \in [Pids -> [status : {"none", "locked", "released", "reversed"},
                        kind : {"none", "first", "recurring"}]]
    /\ firstPaid \subseteq Users
    /\ credits \in [Pids -> Nat]
    /\ due \subseteq Pids
    /\ payout \in [Payouts -> SUBSET Pids]
    /\ refunded \subseteq captured
    /\ partRefunded \subseteq captured
    /\ refund \in [Pids -> {"idle", "none", "job", "done"}]
    /\ settled \in [Pids -> {"no", "early", "stopped"}]
    /\ flagged \subseteq Pids

\* A commission exists only for the payment that activated a subscription
\* order of a user somebody else referred, and its job is completed: not for a
\* second capture of the order, an extra slot, or a job that can run again.
CommissionIsEarned ==
    \A p \in Pids : tx[p].status # "none" =>
        /\ order[OrderOf[p]] = [status |-> "activated", pid |-> p]
        /\ Referrer[BuyerOf(p)] \in Users \ {BuyerOf(p)}
        /\ job[p] = "completed"

\* One first-sale commission for each buyer, however many orders are paid at
\* once and batches run side by side, and no renewal rate before it.
OneFirstBonus ==
    \A p, q \in Pids : BuyerOf(p) = BuyerOf(q) =>
        /\ tx[p].kind = "first" /\ tx[q].kind = "first" => p = q
        /\ tx[p].kind # "none" => BuyerOf(p) \in firstPaid

\* A commission reaches the wallet once, when it is released, and stays out of
\* it when it is locked or reversed: overlapping payouts and refunds.
PaidOutOnce ==
    \A p \in Pids : credits[p] = IF tx[p].status = "released" THEN 1 ELSE 0

\* A refund in full that found the job of its payment stops the commission for
\* good: nothing is pending or locked any more, and what was already paid out
\* has been put before an admin.
RefundStopsCommission ==
    \A p \in Pids : settled[p] = "stopped" =>
        /\ job[p] # "pending"
        /\ tx[p].status # "locked"
        /\ tx[p].status = "released" => p \in flagged

\* What the docstring of reverse_commission_for_refund says of every refund in
\* full, also of one that finds no job yet: no commission is created later.
EveryRefundStops ==
    \A p \in Pids : settled[p] # "no" =>
        /\ tx[p].status # "locked"
        /\ tx[p].status = "released" => p \in flagged

\* A released or reversed commission, a completed or skipped job, and a spent
\* first-sale bonus stay as they are.
FinalStep ==
    /\ \A p \in Pids : tx[p].status \in {"released", "reversed"} => tx'[p] = tx[p]
    /\ \A p \in Pids : job[p] \in {"completed", "skipped"} => job'[p] = job[p]
    /\ firstPaid \subseteq firstPaid'

Final == [][FinalStep]_vars

\* To the payment side, batches, payouts and refunds are a consumer that
\* settles pending jobs and touches nothing else of it.
ImplementsPayments == PaymentSpec

\* Batches that overlap, wait, fail and are run again, payouts and refunds add
\* nothing to the promise of CommissionLedger: what a transaction has decided
\* under its locks is what the ledger would decide at its commit.
Ledger == INSTANCE CommissionLedger WITH
    Payments <- Pids,
    PaidBy <- [p \in Pids |-> BuyerOf(p)],
    Referees <- {u \in Users : Referred(u)},
    earning <- {p \in Pids : OrderOf[p] \in Subscriptions /\ Payable(p)},
    stopped <- {p \in Pids : settled[p] = "stopped"}
ImplementsCommissionLedger == Ledger!LedgerSpec

\* A job of an activated payment is settled in the end, whatever batches are
\* rolled back, and a commission that is due leaves the locked state.
CommissionIsSettled ==
    \A p \in Pids :
        /\ job[p] = "pending" /\ order[OrderOf[p]].pid = p ~> job[p] # "pending"
        /\ tx[p].status = "locked" ~> tx[p].status # "locked"
-----------------------------------------------------------------------------
(* The inductive invariant (module CommissionProofs).                      *)

\* A batch holds pending jobs, no two batches hold one job or handle jobs of
\* one buyer, and a refund that skips a job has it locked.
LocksHeld ==
    /\ \A k \in Workers, p \in Pids :
          /\ p \in worker[k].held => job[p] = "pending" /\ refund[p] # "job"
          /\ worker[k].out[p] # "todo" => p \in worker[k].held
    /\ \A j, k \in Workers, p, q \in Pids : j # k =>
          /\ ~(p \in worker[j].held /\ p \in worker[k].held)
          /\ worker[j].out[p] # "todo" /\ worker[k].out[q] # "todo" => BuyerOf(p) # BuyerOf(q)

\* What batch k has decided still holds when it commits.
OutcomesOf(k) ==
    \A p \in Pids :
        /\ worker[k].out[p] \in {"first", "free", "recurring"} =>
              Referred(BuyerOf(p)) /\ Payable(p)
        /\ worker[k].out[p] = "recurring" => FirstDone(k, BuyerOf(p))
        /\ worker[k].out[p] \in {"first", "free"} =>
              /\ BuyerOf(p) \notin firstPaid
              /\ \A q \in Pids : worker[k].out[q] \in {"first", "free"} /\ q # p =>
                    BuyerOf(q) # BuyerOf(p)

OutcomesHold == \A k \in Workers : OutcomesOf(k)

\* What a refund has read of the job still holds when it commits, and after.
RefundsHold ==
    \A p \in Pids :
        /\ refund[p] = "job" => job[p] = "pending"
        /\ refund[p] = "done" \/ settled[p] = "stopped" => job[p] \in {"completed", "skipped"}

KindsHold == \A p \in Pids : tx[p].status = "none" <=> tx[p].kind = "none"

IInv ==
    /\ CommissionTypeOK
    /\ LocksHeld
    /\ OutcomesHold
    /\ RefundsHold
    /\ KindsHold
    /\ CommissionIsEarned
    /\ OneFirstBonus
    /\ PaidOutOnce
    /\ RefundStopsCommission
=============================================================================
