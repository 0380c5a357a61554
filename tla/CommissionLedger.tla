-------------------------- MODULE CommissionLedger --------------------------
(***************************************************************************)
(* What the referral programme promises, with no batches, row locks or     *)
(* rollbacks in it: a job is settled once, at the rate that the buyer has  *)
(* reached by then; a commission is paid out once, and not before it is    *)
(* due; a refund stops it for good.  Module Commission, which follows the  *)
(* transactions of services/referral_commission.py, is shown to implement  *)
(* this module.                                                            *)
(***************************************************************************)
EXTENDS Integers

CONSTANTS
    Payments,       \* Razorpay payment ids
    PaidBy,         \* [Payments -> users], who paid
    Referees        \* users that somebody else referred

VARIABLES
    earning,        \* payments that activated a subscription order
    job,            \* [Payments -> status], referral_commission_jobs
    tx,             \* [Payments -> [status, kind]], commissions in wallet_transactions
    firstPaid,      \* buyers whose first sale has been rewarded
    due,            \* commissions whose Saturday has come
    credits,        \* [Payments -> Nat], times the commission reached a wallet
    stopped,        \* payments with a refund in full that found their job
    flagged         \* payments for whose refund the agent was flagged

commissionLedgerVars == <<earning, job, tx, firstPaid, due, credits, stopped, flagged>>

LedgerInit ==
    /\ earning = {}
    /\ job = [p \in Payments |-> "none"]
    /\ tx = [p \in Payments |-> [status |-> "none", kind |-> "none"]]
    /\ firstPaid = {}
    /\ due = {}
    /\ credits = [p \in Payments |-> 0]
    /\ stopped = {}
    /\ flagged = {}

\* A captured payment leaves its one job.  It earns when it activates the order.
Purchase(p) ==
    /\ job[p] = "none"
    /\ job' = [job EXCEPT ![p] = "pending"]
    /\ earning' = earning \/ earning' = earning \cup {p}
    /\ UNCHANGED <<tx, firstPaid, due, credits, stopped, flagged>>

\* Pending jobs are settled, each with what it comes to: one first sale of a
\* buyer, which may be worth nothing, and renewals only after it.
Settle(jobs, result) ==
    LET First(p) == result[p] \in {"first", "free"}
        Sold(p) == result[p] \in {"first", "recurring"}
    IN
    /\ \A p \in jobs :
          /\ job[p] = "pending"
          /\ result[p] = "skip" <=> PaidBy[p] \notin Referees
          /\ result[p] # "skip" => p \in earning
          /\ First(p) => /\ PaidBy[p] \notin firstPaid
                         /\ \A q \in jobs : First(q) /\ PaidBy[q] = PaidBy[p] => q = p
    /\ firstPaid' = firstPaid \cup {PaidBy[p] : p \in {q \in jobs : First(q)}}
    /\ \A p \in jobs : result[p] = "recurring" => PaidBy[p] \in firstPaid'
    /\ job' = [p \in Payments |->
                   IF p \notin jobs THEN job[p]
                   ELSE IF result[p] = "skip" THEN "skipped" ELSE "completed"]
    /\ tx' = [p \in Payments |->
                  IF p \in jobs /\ Sold(p) THEN [status |-> "locked", kind |-> result[p]] ELSE tx[p]]
    /\ UNCHANGED <<earning, due, credits, stopped, flagged>>

Saturday ==
    /\ due' = due \cup {p \in Payments : tx[p].status = "locked"}
    /\ UNCHANGED <<earning, job, tx, firstPaid, credits, stopped, flagged>>

\* Commissions that are due leave the locked state and reach the wallets.
Release(rows) ==
    /\ \A p \in rows : p \in due /\ tx[p].status = "locked"
    /\ tx' = [p \in Payments |->
                  IF p \in rows THEN [status |-> "released", kind |-> tx[p].kind] ELSE tx[p]]
    /\ credits' = [p \in Payments |-> IF p \in rows THEN credits[p] + 1 ELSE credits[p]]
    /\ UNCHANGED <<earning, job, firstPaid, due, stopped, flagged>>

\* A refund in full.  The job it found is settled or goes; a locked commission
\* goes; one that was paid out is put before an admin.  A refund that is ahead
\* of its payment finds no job, and leaves a job that comes later alone.
Refund(p) ==
    /\ \/ /\ job[p] # "none"
          /\ job' = [job EXCEPT ![p] = IF @ = "pending" THEN "skipped" ELSE @]
          /\ stopped' = stopped \cup {p}
       \/ /\ p \notin stopped
          /\ UNCHANGED <<job, stopped>>
    /\ tx' = [tx EXCEPT ![p] = IF @.status = "locked"
                               THEN [status |-> "reversed", kind |-> @.kind] ELSE @]
    /\ flagged' = flagged \cup (IF tx[p].status = "released" THEN {p} ELSE {})
    /\ UNCHANGED <<earning, firstPaid, due, credits>>

\* A refund in part of a payment whose commission was not reversed.
PartRefund(p) ==
    /\ tx[p].status \in {"locked", "released"}
    /\ flagged' = flagged \cup {p}
    /\ UNCHANGED <<earning, job, tx, firstPaid, due, credits, stopped>>

LedgerNext ==
    \/ \E p \in Payments : Purchase(p) \/ Refund(p) \/ PartRefund(p)
    \/ \E jobs \in SUBSET Payments :
          \/ \E result \in [jobs -> {"skip", "free", "first", "recurring"}] : Settle(jobs, result)
          \/ Release(jobs)
    \/ Saturday

LedgerSpec == LedgerInit /\ [][LedgerNext]_commissionLedgerVars
=============================================================================
