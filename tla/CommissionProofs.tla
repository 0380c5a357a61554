-------------------------- MODULE CommissionProofs --------------------------
(***************************************************************************)
(* Proofs about modules PaymentOrders and Commission, for any users,       *)
(* orders, attempts to pay, batches and payouts: first the payment side on *)
(* its own, then the composition, which implements it.                     *)
(***************************************************************************)
EXTENDS Commission, TLAPS

USE PaymentAssumption, CommissionAssumption

-----------------------------------------------------------------------------
(* The payment side. *)

PaymentInv ==
    /\ PaymentTypeOK
    /\ AppliedOnce
    /\ ActivatedIsPaid
    /\ PlanIsBought
    /\ OutboxMatchesActivations

LEMMA PaymentInitInv == PaymentInit => PaymentInv
  BY DEF PaymentInit, PaymentInv, PaymentTypeOK, AppliedOnce, ActivatedIsPaid, PlanIsBought,
         OutboxMatchesActivations, Activated, Subscriptions

LEMMA StepPaymentTypeOK == PaymentTypeOK /\ [PaymentNext]_paymentVars => PaymentTypeOK'
<1> SUFFICES ASSUME PaymentTypeOK, [PaymentNext]_paymentVars PROVE PaymentTypeOK'
  OBVIOUS
<1> USE DEF PaymentTypeOK
<1>1. ASSUME NEW o \in Orders, CreateOrder(o) PROVE PaymentTypeOK'
  BY <1>1 DEF CreateOrder
<1>2. ASSUME NEW p \in Pids, Capture(p) \/ Decline(p) PROVE PaymentTypeOK'
  BY <1>2 DEF Capture, Decline
<1>3. ASSUME NEW p \in Pids, Activate(p) PROVE PaymentTypeOK'
  <2>1. OrderOf[p] \in Orders /\ Buyer[OrderOf[p]] \in Users
    OBVIOUS
  <2> QED
    BY <1>3, <2>1 DEF Activate, Enqueue, MarkActivated, Subscriptions
<1>4. ASSUME NEW p \in Pids, Duplicate(p) PROVE PaymentTypeOK'
  BY <1>4 DEF Duplicate, Enqueue
<1>5. ASSUME NEW p \in Pids, AddSlot(p) PROVE PaymentTypeOK'
  BY <1>5 DEF AddSlot, MarkActivated
<1>6. ASSUME NEW p \in Pids, MarkFailed(p) PROVE PaymentTypeOK'
  BY <1>6 DEF MarkFailed
<1>7. ASSUME NEW u \in Users, AdminGrant(u) PROVE PaymentTypeOK'
  BY <1>7 DEF AdminGrant
<1>8. ASSUME SettleJobs PROVE PaymentTypeOK'
  BY <1>8 DEF SettleJobs
<1>9. CASE UNCHANGED paymentVars
  BY <1>9 DEF paymentVars
<1> QED
  BY <1>1, <1>2, <1>3, <1>4, <1>5, <1>6, <1>7, <1>8, <1>9 DEF PaymentNext, PaymentStep

THEOREM PaymentTypeCorrect == PaymentSpec => []PaymentTypeOK
<1>1. PaymentInit => PaymentTypeOK
  BY PaymentInitInv DEF PaymentInv
<1> QED
  BY <1>1, StepPaymentTypeOK, PTL DEF PaymentSpec

\* What an activation of order o by payment p changes.
Activates(o, p) ==
    /\ Recoverable(o)
    /\ p \in captured
    /\ OrderOf[p] = o
    /\ MarkActivated(o, p)
    /\ grants' = [grants EXCEPT ![o] = @ + 1]

LEMMA ActivationKeeps ==
  ASSUME PaymentInv, NEW o \in Orders, NEW p \in Pids, Activates(o, p), captured' = captured
  PROVE  AppliedOnce' /\ ActivatedIsPaid'
<1>1. /\ order'[o] = [status |-> "activated", pid |-> p]
      /\ \A x \in Orders \ {o} : order'[x] = order[x]
  BY DEF Activates, MarkActivated, PaymentInv, PaymentTypeOK
<1>2. grants[o] = 0
  BY DEF Activates, Recoverable, PaymentInv, AppliedOnce, Activated
<1>3. grants'[o] = 1 /\ \A x \in Orders \ {o} : grants'[x] = grants[x]
  BY <1>2 DEF Activates, PaymentInv, PaymentTypeOK
<1>4. AppliedOnce'
  BY <1>1, <1>3 DEF PaymentInv, AppliedOnce, Activated
<1>5. ActivatedIsPaid'
  BY <1>1 DEF Activates, PaymentInv, ActivatedIsPaid, Activated
<1> QED
  BY <1>4, <1>5

LEMMA StepPaymentInv == PaymentInv /\ [PaymentNext]_paymentVars => PaymentInv'
<1> SUFFICES ASSUME PaymentInv, [PaymentNext]_paymentVars PROVE PaymentInv'
  OBVIOUS
<1>0. PaymentTypeOK'
  BY StepPaymentTypeOK DEF PaymentInv
<1> DEFINE Rest == AppliedOnce /\ ActivatedIsPaid /\ PlanIsBought /\ OutboxMatchesActivations
<1> USE DEF PaymentInv
\* A step that keeps activated rows, grants and what is captured.
<1>1. ASSUME \A o \in Orders : Activated(o) <=> Activated(o)',
             \A o \in Orders : Activated(o) => order'[o] = order[o],
             UNCHANGED grants, captured \subseteq captured'
      PROVE  AppliedOnce' /\ ActivatedIsPaid'
  BY <1>1 DEF AppliedOnce, ActivatedIsPaid, Activated
<1>2. ASSUME \A o \in Orders : Activated(o) <=> Activated(o)',
             \A o \in Orders : Activated(o) => order'[o] = order[o],
             UNCHANGED <<grants, plan, job>>, captured \subseteq captured'
      PROVE  Rest'
  <2>1. PlanIsBought'
    <3> SUFFICES ASSUME NEW u \in Users, plan[u] # NoOrder
                 PROVE  plan[u] \in Subscriptions /\ Buyer[plan[u]] = u /\ Activated(plan[u])'
      BY <1>2 DEF PlanIsBought
    <3>1. plan[u] \in Orders
      BY DEF PaymentTypeOK
    <3> QED
      BY <1>2, <3>1 DEF PlanIsBought
  <2>2. OutboxMatchesActivations'
    BY <1>2 DEF OutboxMatchesActivations, Subscriptions
  <2> QED
    BY <1>1, <1>2, <2>1, <2>2
<1>3. ASSUME NEW o \in Orders, CreateOrder(o) PROVE Rest'
  <2>1. /\ order'[o].status = "created"
        /\ \A x \in Orders \ {o} : order'[x] = order[x]
    BY <1>3 DEF CreateOrder, PaymentTypeOK
  <2> QED
    BY <1>2, <1>3, <2>1 DEF CreateOrder, Activated
<1>4. ASSUME NEW p \in Pids, Capture(p) \/ Decline(p) PROVE Rest'
  BY <1>2, <1>4 DEF Capture, Decline, Activated
<1>5. ASSUME NEW p \in Pids, MarkFailed(p) PROVE Rest'
  <2>1. OrderOf[p] \in Orders /\ ~Activated(OrderOf[p])
    BY <1>5 DEF MarkFailed
  <2>2. /\ order'[OrderOf[p]].status = "failed"
        /\ \A x \in Orders \ {OrderOf[p]} : order'[x] = order[x]
    BY <1>5, <2>1 DEF MarkFailed, PaymentTypeOK
  <2> QED
    BY <1>2, <1>5, <2>1, <2>2 DEF MarkFailed, Activated
<1>6. ASSUME NEW p \in Pids, Activate(p) PROVE Rest'
  <2> DEFINE o == OrderOf[p]
  <2>1. o \in Subscriptions /\ o \in Orders /\ Buyer[o] \in Users /\ o # NoOrder
    BY <1>6 DEF Activate, Subscriptions
  <2>2. AppliedOnce' /\ ActivatedIsPaid'
    BY <1>6, <2>1, ActivationKeeps DEF Activate, Activates
  <2>3. /\ order'[o] = [status |-> "activated", pid |-> p]
        /\ \A x \in Orders \ {o} : order'[x] = order[x]
        /\ job' = [job EXCEPT ![p] = IF @ = "none" THEN "pending" ELSE @]
        /\ plan' = [plan EXCEPT ![Buyer[o]] = o]
        /\ p \in captured /\ captured' = captured
    BY <1>6, <2>1 DEF Activate, MarkActivated, Enqueue, PaymentTypeOK
  <2>4. PlanIsBought'
    <3> SUFFICES ASSUME NEW u \in Users, plan'[u] # NoOrder
                 PROVE  /\ plan'[u] \in Subscriptions /\ Buyer[plan'[u]] = u
                        /\ order'[plan'[u]].status = "activated"
      BY DEF PlanIsBought, Activated, Subscriptions
    <3>1. CASE u = Buyer[o]
      <4>1. plan'[u] = o
        BY <2>3, <3>1 DEF PaymentTypeOK
      <4> QED
        BY <2>1, <2>3, <3>1, <4>1
    <3>2. CASE u # Buyer[o]
      <4>1. plan'[u] = plan[u] /\ plan[u] \in Orders
        BY <2>3, <3>2 DEF PaymentTypeOK
      <4>2. plan[u] \in Subscriptions /\ Buyer[plan[u]] = u /\ Activated(plan[u])
        BY <4>1 DEF PlanIsBought
      <4> QED
        BY <2>3, <3>2, <4>1, <4>2 DEF Activated
    <3> QED
      BY <3>1, <3>2
  <2>5. OutboxMatchesActivations'
    <3>1. \A q \in Pids : (q # p => job'[q] = job[q]) /\ job'[p] # "none"
      BY <2>3 DEF PaymentTypeOK
    <3>2. \A x \in Subscriptions : Activated(x)' => job'[order'[x].pid] # "none"
      <4> SUFFICES ASSUME NEW x \in Subscriptions, Activated(x)' PROVE job'[order'[x].pid] # "none"
        OBVIOUS
      <4>1. CASE x = o
        BY <2>3, <3>1, <4>1
      <4>2. CASE x # o
        <5>1. order'[x] = order[x] /\ Activated(x) /\ order[x].pid \in Pids
          BY <2>3, <4>2 DEF Activated, Subscriptions, ActivatedIsPaid, PaymentTypeOK
        <5> QED
          BY <3>1, <5>1 DEF OutboxMatchesActivations
      <4> QED
        BY <4>1, <4>2
    <3>3. \A q \in Pids : job'[q] # "none" =>
              OrderOf[q] \in Subscriptions /\ Activated(OrderOf[q])' /\ q \in captured'
      BY <2>1, <2>3, <3>1 DEF OutboxMatchesActivations, Activated
    <3> QED
      BY <3>2, <3>3 DEF OutboxMatchesActivations, Subscriptions
  <2> QED
    BY <2>2, <2>4, <2>5
<1>7. ASSUME NEW p \in Pids, Duplicate(p) PROVE Rest'
  <2>1. /\ UNCHANGED <<order, grants, plan, captured>>
        /\ p \in captured /\ OrderOf[p] \in Subscriptions /\ Activated(OrderOf[p])
        /\ job' = [job EXCEPT ![p] = IF @ = "none" THEN "pending" ELSE @]
    BY <1>7 DEF Duplicate, Enqueue
  <2>2. AppliedOnce' /\ ActivatedIsPaid' /\ PlanIsBought'
    BY <2>1 DEF AppliedOnce, ActivatedIsPaid, PlanIsBought, Activated
  <2>3. \A q \in Pids : (q # p => job'[q] = job[q]) /\ job'[p] # "none"
    BY <2>1 DEF PaymentTypeOK
  <2>4. OutboxMatchesActivations'
    BY <2>1, <2>3 DEF OutboxMatchesActivations, ActivatedIsPaid, Activated, Subscriptions
  <2> QED
    BY <2>2, <2>4
<1>8. ASSUME NEW p \in Pids, AddSlot(p) PROVE Rest'
  <2> DEFINE o == OrderOf[p]
  <2>1. o \in ExtraOrders /\ o \in Orders /\ o \notin Subscriptions
    BY <1>8 DEF AddSlot, Subscriptions
  <2>2. AppliedOnce' /\ ActivatedIsPaid'
    BY <1>8, <2>1, ActivationKeeps DEF AddSlot, Activates
  <2>3. /\ \A x \in Orders \ {o} : order'[x] = order[x]
        /\ UNCHANGED <<plan, job, captured>>
    BY <1>8, <2>1 DEF AddSlot, MarkActivated, PaymentTypeOK
  <2>4. PlanIsBought'
    BY <2>1, <2>3 DEF PlanIsBought, Activated, Subscriptions
  <2>5. OutboxMatchesActivations'
    BY <2>1, <2>3 DEF OutboxMatchesActivations, Activated, Subscriptions
  <2> QED
    BY <2>2, <2>4, <2>5
<1>9. ASSUME NEW u \in Users, AdminGrant(u) PROVE Rest'
  <2>1. UNCHANGED <<order, grants, job, captured>> /\ plan' = [plan EXCEPT ![u] = NoOrder]
    BY <1>9 DEF AdminGrant
  <2>2. \A x \in Users : plan'[x] \in {NoOrder, plan[x]}
    BY <2>1 DEF PaymentTypeOK
  <2>3. PlanIsBought'
    BY <2>1, <2>2 DEF PlanIsBought, Activated
  <2> QED
    BY <2>1, <2>3 DEF AppliedOnce, ActivatedIsPaid, OutboxMatchesActivations, Activated
<1>10. ASSUME SettleJobs PROVE Rest'
  <2>1. /\ UNCHANGED <<order, grants, plan, captured>>
        /\ \A p \in Pids : job'[p] = "none" <=> job[p] = "none"
    <3>1. PICK done \in [{p \in Pids : job[p] = "pending"} -> {"pending", "completed", "skipped"}] :
             job' = [p \in Pids |-> IF job[p] = "pending" THEN done[p] ELSE job[p]]
      BY <1>10 DEF SettleJobs
    <3>2. ASSUME NEW p \in Pids PROVE job'[p] = "none" <=> job[p] = "none"
      <4>1. CASE job[p] = "pending"
        <5>1. done[p] \in {"pending", "completed", "skipped"}
          BY <4>1
        <5> QED
          BY <3>1, <4>1, <5>1
      <4>2. CASE job[p] # "pending"
        BY <3>1, <4>2
      <4> QED
        BY <4>1, <4>2
    <3> QED
      BY <1>10, <3>2 DEF SettleJobs
  <2>2. OutboxMatchesActivations'
    BY <2>1 DEF OutboxMatchesActivations, ActivatedIsPaid, Activated, Subscriptions, PaymentTypeOK
  <2>3. AppliedOnce' /\ ActivatedIsPaid' /\ PlanIsBought'
    BY <2>1 DEF AppliedOnce, ActivatedIsPaid, PlanIsBought, Activated, Subscriptions
  <2> QED
    BY <2>2, <2>3
<1>11. ASSUME UNCHANGED paymentVars PROVE Rest'
  BY <1>2, <1>11 DEF paymentVars, Activated
<1>12. Rest'
  BY <1>3, <1>4, <1>5, <1>6, <1>7, <1>8, <1>9, <1>10, <1>11 DEF PaymentNext, PaymentStep
<1> QED
  BY <1>0, <1>12

THEOREM PaymentInvariance == PaymentSpec => []PaymentInv
  BY PaymentInitInv, StepPaymentInv, PTL DEF PaymentSpec

\* However notices are repeated, reordered or lost, an order is written to its
\* buyer at most once, and exactly when it is activated.
THEOREM AppliedOnceAlways == PaymentSpec => []AppliedOnce
  BY PaymentInvariance, PTL DEF PaymentInv

\* The outbox holds a job for every activated subscription and nothing that
\* was not captured for one.
THEOREM OutboxAlways == PaymentSpec => []OutboxMatchesActivations
  BY PaymentInvariance, PTL DEF PaymentInv

\* Nobody is given a plan or a slot without a captured payment of that order.
THEOREM ActivatedIsPaidAlways == PaymentSpec => []ActivatedIsPaid
  BY PaymentInvariance, PTL DEF PaymentInv

\* A plan was bought by the user who has it.
THEOREM PlanIsBoughtAlways == PaymentSpec => []PlanIsBought
  BY PaymentInvariance, PTL DEF PaymentInv

\* The payment side leaves activated rows and existing jobs alone.
PaymentKeeps ==
    /\ \A o \in Orders : Activated(o) => order'[o] = order[o]
    /\ \A p \in Pids : job[p] # "none" => job'[p] = job[p]
    /\ captured \subseteq captured'

LEMMA PaymentStepKeeps == PaymentTypeOK /\ PaymentStep => PaymentKeeps
<1> SUFFICES ASSUME PaymentTypeOK, PaymentStep PROVE PaymentKeeps
  OBVIOUS
<1> USE DEF PaymentTypeOK, PaymentKeeps, Activated
<1>1. ASSUME NEW o \in Orders, CreateOrder(o) PROVE PaymentKeeps
  BY <1>1 DEF CreateOrder
<1>2. ASSUME NEW p \in Pids, Capture(p) \/ Decline(p) PROVE PaymentKeeps
  BY <1>2 DEF Capture, Decline
<1>3. ASSUME NEW p \in Pids, Activate(p) PROVE PaymentKeeps
  <2>1. /\ Recoverable(OrderOf[p]) /\ captured' = captured
        /\ \A o \in Orders \ {OrderOf[p]} : order'[o] = order[o]
    BY <1>3 DEF Activate, MarkActivated
  <2>2. job' = [job EXCEPT ![p] = IF @ = "none" THEN "pending" ELSE @]
    BY <1>3 DEF Activate, Enqueue
  <2> QED
    BY <2>1, <2>2 DEF Recoverable
<1>4. ASSUME NEW p \in Pids, Duplicate(p) PROVE PaymentKeeps
  BY <1>4 DEF Duplicate, Enqueue
<1>5. ASSUME NEW p \in Pids, AddSlot(p) PROVE PaymentKeeps
  BY <1>5 DEF AddSlot, MarkActivated, Recoverable
<1>6. ASSUME NEW p \in Pids, MarkFailed(p) PROVE PaymentKeeps
  BY <1>6 DEF MarkFailed
<1>7. ASSUME NEW u \in Users, AdminGrant(u) PROVE PaymentKeeps
  BY <1>7 DEF AdminGrant
<1> QED
  BY <1>1, <1>2, <1>3, <1>4, <1>5, <1>6, <1>7 DEF PaymentStep

\* No notice, however late, undoes an activation.
THEOREM ActivationIsFinalAlways == PaymentSpec => ActivationIsFinal
<1>1. PaymentTypeOK /\ [PaymentNext]_paymentVars
        => [\A o \in Orders : Activated(o) => order'[o] = order[o]]_paymentVars
  BY PaymentStepKeeps DEF PaymentKeeps, PaymentNext, SettleJobs
<1> QED
  BY <1>1, PaymentTypeCorrect, PTL DEF PaymentSpec, ActivationIsFinal

-----------------------------------------------------------------------------
(* Every other step that changes the payment side settles pending jobs. *)

LEMMA SettlingIsASettleJobs ==
  ASSUME PaymentTypeOK, UNCHANGED <<order, grants, plan, captured, declined>>,
         job' \in [Pids -> {"pending", "completed", "skipped", "none"}],
         \A p \in Pids : \/ job'[p] = job[p]
                         \/ job[p] = "pending" /\ job'[p] \in {"completed", "skipped"}
  PROVE  SettleJobs
<1> DEFINE open == {p \in Pids : job[p] = "pending"}
           done == [p \in open |-> job'[p]]
<1>1. done \in [open -> {"pending", "completed", "skipped"}]
  OBVIOUS
<1>2. job' = [p \in Pids |-> IF job[p] = "pending" THEN done[p] ELSE job[p]]
  BY DEF PaymentTypeOK
<1> QED
  BY <1>1, <1>2 DEF SettleJobs

LEMMA CommitJobsSettles ==
  ASSUME CommissionTypeOK, LocksHeld, NEW k \in Workers, CommitJobs(k)
  PROVE  /\ job' \in [Pids -> {"none", "pending", "completed", "skipped"}]
         /\ \A p \in Pids : p \notin worker[k].held => job'[p] = job[p]
         /\ \A p \in worker[k].held : job[p] = "pending" /\ job'[p] = JobAfter(worker[k].out[p])
         /\ SettleJobs
<1> DEFINE held == worker[k].held
           out == worker[k].out
<1>1. held \subseteq Pids /\ out \in [Pids -> Results]
  BY DEF CommissionTypeOK
<1>2. job' = [p \in Pids |-> IF p \in held THEN JobAfter(out[p]) ELSE job[p]]
  BY DEF CommitJobs
<1>3. \A p \in held : job[p] = "pending"
  BY <1>1 DEF LocksHeld
<1>4. \A p \in Pids : JobAfter(out[p]) \in {"pending", "completed", "skipped"}
  BY <1>1 DEF JobAfter, Results
<1>5. \A p \in Pids : job[p] \in {"none", "pending", "completed", "skipped"}
  BY DEF CommissionTypeOK, PaymentTypeOK
<1>6. job' \in [Pids -> {"none", "pending", "completed", "skipped"}]
  BY <1>2, <1>4, <1>5
<1>7. /\ \A p \in Pids : p \notin held => job'[p] = job[p]
      /\ \A p \in held : job'[p] = JobAfter(out[p])
  BY <1>1, <1>2
<1>8. UNCHANGED <<order, grants, plan, captured, declined>>
  BY DEF CommitJobs
<1>9. SettleJobs
  BY <1>1, <1>3, <1>4, <1>6, <1>7, <1>8, SettlingIsASettleJobs DEF CommissionTypeOK
<1> QED
  BY <1>3, <1>6, <1>7, <1>9

LEMMA RefundSettles ==
  ASSUME CommissionTypeOK, RefundsHold, NEW p \in Pids, RefundReverses(p)
  PROVE  /\ job' \in [Pids -> {"none", "pending", "completed", "skipped"}]
         /\ \A q \in Pids \ {p} : job'[q] = job[q]
         /\ job'[p] = IF refund[p] = "job" THEN "skipped" ELSE job[p]
         /\ SettleJobs
<1>1. /\ UNCHANGED <<order, grants, plan, captured, declined>>
      /\ job' = IF refund[p] = "job" THEN [job EXCEPT ![p] = "skipped"] ELSE job
  BY DEF RefundReverses
<1>2. job \in [Pids -> {"none", "pending", "completed", "skipped"}] /\ PaymentTypeOK
  BY DEF CommissionTypeOK, PaymentTypeOK
<1>3. /\ job' \in [Pids -> {"none", "pending", "completed", "skipped"}]
      /\ \A q \in Pids \ {p} : job'[q] = job[q]
      /\ job'[p] = IF refund[p] = "job" THEN "skipped" ELSE job[p]
  BY <1>1, <1>2
<1>4. refund[p] = "job" => job[p] = "pending"
  BY DEF RefundsHold
<1>5. SettleJobs
  BY <1>1, <1>2, <1>3, <1>4, SettlingIsASettleJobs
<1> QED
  BY <1>3, <1>5

\* Commission steps that do not touch the payment side.
LEMMA OtherStepsKeepPayments ==
  ASSUME Next, ~Pay, \A k \in Workers : ~CommitJobs(k), \A p \in Pids : ~RefundReverses(p)
  PROVE  UNCHANGED paymentVars
BY DEF Next, WorkerStep, PayoutStep, RefundStep, LockJobs, HandleJob, AbortJobs, Saturday,
       LockPayout, CommitPayout, AbortPayout, Refund, RefundSkipsJob, RefundFails, PartRefundFlags

LEMMA StepIsAPaymentStep ==
  ASSUME CommissionTypeOK, LocksHeld, RefundsHold, [Next]_vars
  PROVE  [PaymentNext]_paymentVars
<1>1. CASE Pay
  BY <1>1 DEF Pay, PaymentNext
<1>2. ASSUME NEW k \in Workers, CommitJobs(k) PROVE PaymentNext
  BY <1>2, CommitJobsSettles DEF PaymentNext
<1>3. ASSUME NEW p \in Pids, RefundReverses(p) PROVE PaymentNext
  BY <1>3, RefundSettles DEF PaymentNext
<1>4. CASE UNCHANGED vars
  BY <1>4 DEF vars
<1> QED
  BY <1>1, <1>2, <1>3, <1>4, OtherStepsKeepPayments

-----------------------------------------------------------------------------
(* Types. *)

LEMMA CommissionInit == Init => IInv
<1> SUFFICES ASSUME Init PROVE IInv
  OBVIOUS
<1>1. PaymentTypeOK
  BY PaymentInitInv DEF Init, PaymentInv
<1>2. /\ worker = [k \in Workers |-> IdleWorker]
      /\ tx = [p \in Pids |-> NoRow]
      /\ firstPaid = {} /\ due = {} /\ refunded = {} /\ partRefunded = {} /\ flagged = {}
      /\ credits = [p \in Pids |-> 0]
      /\ payout = [s \in Payouts |-> {}]
      /\ refund = [p \in Pids |-> "idle"]
      /\ settled = [p \in Pids |-> "no"]
  BY DEF Init
<1>3. IdleWorker \in [held : SUBSET Pids, out : [Pids -> Results]]
  BY DEF IdleWorker, Results
<1>4. CommissionTypeOK
  BY <1>1, <1>2, <1>3 DEF CommissionTypeOK, NoRow
<1>5. \A k \in Workers, p \in Pids : worker[k].held = {} /\ worker[k].out[p] = "todo"
  BY <1>2 DEF IdleWorker
<1>6. LocksHeld /\ OutcomesHold
  BY <1>5 DEF LocksHeld, OutcomesHold, OutcomesOf
<1>7. RefundsHold /\ KindsHold /\ CommissionIsEarned /\ PaidOutOnce /\ RefundStopsCommission
  BY <1>2 DEF RefundsHold, KindsHold, CommissionIsEarned, PaidOutOnce, RefundStopsCommission, NoRow
<1>8. OneFirstBonus
  BY <1>2 DEF OneFirstBonus, NoRow
<1> QED
  BY <1>4, <1>6, <1>7, <1>8 DEF IInv

LEMMA StepCommissionTypeOK ==
  ASSUME CommissionTypeOK, LocksHeld, RefundsHold, [Next]_vars
  PROVE  CommissionTypeOK'
<1>0. PaymentTypeOK'
  BY StepIsAPaymentStep, StepPaymentTypeOK DEF CommissionTypeOK
<1>1. captured \subseteq captured'
  <2>1. CASE Pay
    BY <2>1, PaymentStepKeeps DEF Pay, PaymentKeeps, CommissionTypeOK
  <2>2. ASSUME NEW k \in Workers, CommitJobs(k) PROVE captured' = captured
    BY <2>2 DEF CommitJobs
  <2>3. ASSUME NEW p \in Pids, RefundReverses(p) PROVE captured' = captured
    BY <2>3 DEF RefundReverses
  <2>4. CASE UNCHANGED vars
    BY <2>4 DEF vars, paymentVars
  <2> QED
    BY <2>1, <2>2, <2>3, <2>4, OtherStepsKeepPayments DEF paymentVars
<1> DEFINE Rest ==
      /\ worker' \in [Workers -> [held : SUBSET Pids, out : [Pids -> Results]]]
      /\ tx' \in [Pids -> [status : {"none", "locked", "released", "reversed"},
                           kind : {"none", "first", "recurring"}]]
      /\ firstPaid' \subseteq Users
      /\ credits' \in [Pids -> Nat]
      /\ due' \subseteq Pids
      /\ payout' \in [Payouts -> SUBSET Pids]
      /\ refunded' \subseteq captured'
      /\ partRefunded' \subseteq captured'
      /\ refund' \in [Pids -> {"idle", "none", "job", "done"}]
      /\ settled' \in [Pids -> {"no", "early", "stopped"}]
      /\ flagged' \subseteq Pids
<1> USE <1>1 DEF CommissionTypeOK
<1>2. IdleWorker \in [held : SUBSET Pids, out : [Pids -> Results]]
  BY DEF IdleWorker, Results
<1>3. ASSUME UNCHANGED commissionVars PROVE Rest
  BY <1>3 DEF commissionVars
<1>4. ASSUME NEW k \in Workers, NEW jobs \in SUBSET Pids, LockJobs(k, jobs) PROVE Rest
  <2>1. [IdleWorker EXCEPT !.held = {p \in jobs : job[p] = "pending" /\ ~JobLocked(p)}]
           \in [held : SUBSET Pids, out : [Pids -> Results]]
    BY DEF IdleWorker, Results
  <2> QED
    BY <1>4, <2>1 DEF LockJobs
<1>5. ASSUME NEW k \in Workers, NEW p \in Pids, HandleJob(k, p) PROVE Rest
  <2>1. PICK result \in Outcomes(k, p) : worker' = [worker EXCEPT ![k].out[p] = result]
    BY <1>5 DEF HandleJob
  <2>2. result \in Results
    BY <2>1 DEF Outcomes, Results
  <2> QED
    BY <1>5, <2>1, <2>2 DEF HandleJob
<1>6. ASSUME NEW k \in Workers, CommitJobs(k) PROVE Rest
  <2>1. \A p \in Pids : BuyerOf(p) \in Users
    BY DEF BuyerOf
  <2>2. firstPaid' \subseteq Users
    BY <1>6, <2>1 DEF CommitJobs
  <2>3. tx' \in [Pids -> [status : {"none", "locked", "released", "reversed"},
                          kind : {"none", "first", "recurring"}]]
    BY <1>6 DEF CommitJobs
  <2>4. worker' \in [Workers -> [held : SUBSET Pids, out : [Pids -> Results]]]
    BY <1>2, <1>6 DEF CommitJobs
  <2> QED
    BY <1>6, <2>2, <2>3, <2>4 DEF CommitJobs
<1>7. ASSUME NEW k \in Workers, AbortJobs(k) PROVE Rest
  BY <1>2, <1>7 DEF AbortJobs
<1>8. ASSUME Saturday PROVE Rest
  BY <1>8 DEF Saturday
<1>9. ASSUME NEW s \in Payouts, LockPayout(s) PROVE Rest
  BY <1>9 DEF LockPayout
<1>10. ASSUME NEW s \in Payouts, CommitPayout(s) PROVE Rest
  <2> DEFINE rows == {p \in payout[s] : tx[p].status = "locked"}
  <2>1. tx' = [p \in Pids |-> IF p \in rows THEN [tx[p] EXCEPT !.status = "released"] ELSE tx[p]]
    BY <1>10 DEF CommitPayout
  <2>2. tx' \in [Pids -> [status : {"none", "locked", "released", "reversed"},
                          kind : {"none", "first", "recurring"}]]
    <3> HIDE DEF rows
    <3> QED
      BY <2>1
  <2>3. credits' = [p \in Pids |-> IF p \in rows THEN credits[p] + 1 ELSE credits[p]]
    BY <1>10 DEF CommitPayout
  <2>4. credits' \in [Pids -> Nat]
    <3> HIDE DEF rows
    <3> QED
      BY <2>3
  <2> QED
    BY <1>10, <2>2, <2>4 DEF CommitPayout
<1>11. ASSUME NEW s \in Payouts, AbortPayout(s) PROVE Rest
  BY <1>11 DEF AbortPayout
<1>12. ASSUME NEW p \in Pids, Refund(p) PROVE Rest
  BY <1>12 DEF Refund
<1>13. ASSUME NEW p \in Pids, RefundSkipsJob(p) PROVE Rest
  BY <1>13 DEF RefundSkipsJob
<1>14. ASSUME NEW p \in Pids, RefundReverses(p) PROVE Rest
  <2>1. tx' \in [Pids -> [status : {"none", "locked", "released", "reversed"},
                          kind : {"none", "first", "recurring"}]]
    <3>1. tx' = IF tx[p].status = "locked"
                THEN [tx EXCEPT ![p] = [tx[p] EXCEPT !.status = "reversed"]] ELSE tx
      BY <1>14 DEF RefundReverses
    <3>2. [tx[p] EXCEPT !.status = "reversed"]
             \in [status : {"none", "locked", "released", "reversed"},
                  kind : {"none", "first", "recurring"}]
      OBVIOUS
    <3> QED
      BY <3>1, <3>2
  <2>2. flagged' \subseteq Pids
    BY <1>14 DEF RefundReverses, Flag
  <2> QED
    BY <1>14, <2>1, <2>2 DEF RefundReverses
<1>15. ASSUME NEW p \in Pids, RefundFails(p) PROVE Rest
  BY <1>15 DEF RefundFails
<1>16. ASSUME NEW p \in Pids, PartRefundFlags(p) PROVE Rest
  BY <1>16 DEF PartRefundFlags, Flag
<1>17. Rest
  BY <1>3, <1>4, <1>5, <1>6, <1>7, <1>8, <1>9, <1>10, <1>11, <1>12, <1>13, <1>14, <1>15, <1>16
     DEF Next, Pay, WorkerStep, PayoutStep, RefundStep, vars
<1> QED
  BY <1>0, <1>17

-----------------------------------------------------------------------------
(* The inductive step, one lemma for each kind of step. *)

Safe ==
    /\ LocksHeld
    /\ OutcomesHold
    /\ RefundsHold
    /\ KindsHold
    /\ CommissionIsEarned
    /\ OneFirstBonus
    /\ PaidOutOnce
    /\ RefundStopsCommission

\* A batch that goes on as it was keeps its outcomes, while payable orders stay
\* payable and nobody else spends the bonus of a buyer it has handled.
LEMMA OutcomesStay ==
  ASSUME NEW k \in Workers, OutcomesOf(k),
         \A p \in Pids : worker'[k].out[p] = worker[k].out[p],
         \A p \in Pids : Payable(p) => Payable(p)',
         firstPaid \subseteq firstPaid',
         \A p \in Pids : worker[k].out[p] # "todo" /\ BuyerOf(p) \in firstPaid' =>
                            BuyerOf(p) \in firstPaid
  PROVE  OutcomesOf(k)'
<1> SUFFICES ASSUME NEW p \in Pids
             PROVE  /\ worker[k].out[p] \in {"first", "free", "recurring"} =>
                          Referred(BuyerOf(p)) /\ Payable(p)'
                    /\ worker[k].out[p] = "recurring" => FirstDone(k, BuyerOf(p))'
                    /\ worker[k].out[p] \in {"first", "free"} =>
                          /\ BuyerOf(p) \notin firstPaid'
                          /\ \A q \in Pids : worker[k].out[q] \in {"first", "free"} /\ q # p =>
                                BuyerOf(q) # BuyerOf(p)
  BY DEF OutcomesOf, BuyerOf, Referred
<1>1. worker[k].out[p] \in {"first", "free", "recurring"} => Referred(BuyerOf(p)) /\ Payable(p)'
  BY DEF OutcomesOf
<1>2. FirstDone(k, BuyerOf(p)) => FirstDone(k, BuyerOf(p))'
  BY DEF FirstDone, BuyerOf
<1>3. worker[k].out[p] = "recurring" => FirstDone(k, BuyerOf(p))'
  BY <1>2 DEF OutcomesOf
<1>4. worker[k].out[p] \in {"first", "free"} =>
          /\ BuyerOf(p) \notin firstPaid'
          /\ \A q \in Pids : worker[k].out[q] \in {"first", "free"} /\ q # p =>
                BuyerOf(q) # BuyerOf(p)
  BY DEF OutcomesOf
<1> QED
  BY <1>1, <1>3, <1>4

\* Payments: activated rows, existing jobs and every row of the commission side stay.
LEMMA PayIsSafe == IInv /\ Pay => Safe'
<1> SUFFICES ASSUME IInv, Pay PROVE Safe'
  OBVIOUS
<1>1. /\ \A o \in Orders : order[o].status = "activated" => order'[o] = order[o]
      /\ \A p \in Pids : job[p] # "none" => job'[p] = job[p]
  BY PaymentStepKeeps DEF Pay, PaymentKeeps, Activated, IInv, CommissionTypeOK
<1>2. /\ UNCHANGED <<worker, tx, firstPaid, credits, payout>>
      /\ UNCHANGED <<refund, settled, flagged>>
  BY DEF Pay, commissionVars
<1>3. \A p \in Pids : OrderOf[p] \in Orders /\ (Payable(p) => order'[OrderOf[p]] = order[OrderOf[p]])
  BY <1>1 DEF Payable
<1>4. LocksHeld'
  BY <1>1, <1>2 DEF IInv, LocksHeld, BuyerOf
<1>5. OutcomesHold'
  BY <1>2, <1>3, OutcomesStay DEF IInv, OutcomesHold, Payable
<1>6. RefundsHold'
  BY <1>1, <1>2 DEF IInv, RefundsHold
<1>7. CommissionIsEarned'
  BY <1>1, <1>2, <1>3 DEF IInv, CommissionIsEarned, BuyerOf, Payable
<1>8. KindsHold' /\ OneFirstBonus' /\ PaidOutOnce'
  BY <1>2 DEF IInv, KindsHold, OneFirstBonus, PaidOutOnce, BuyerOf
<1>9. RefundStopsCommission'
  BY <1>1, <1>2 DEF IInv, RefundStopsCommission, RefundsHold
<1> QED
  BY <1>4, <1>5, <1>6, <1>7, <1>8, <1>9 DEF Safe

\* A batch locks jobs that nobody holds.
LEMMA LockJobsIsSafe ==
  ASSUME IInv, NEW k \in Workers, NEW jobs \in SUBSET Pids, LockJobs(k, jobs)
  PROVE  Safe'
<1> DEFINE free == {p \in jobs : job[p] = "pending" /\ ~JobLocked(p)}
<1>1. /\ UNCHANGED <<order, job, tx, firstPaid, credits, refund, settled, flagged>>
      /\ worker' = [worker EXCEPT ![k] = [IdleWorker EXCEPT !.held = free]]
  BY DEF LockJobs, paymentVars
<1>2. /\ worker'[k].held = free
      /\ \A p \in Pids : worker'[k].out[p] = "todo"
      /\ \A j \in Workers \ {k} : worker'[j] = worker[j]
  <2>1. worker'[k] = [IdleWorker EXCEPT !.held = free] /\ \A j \in Workers \ {k} : worker'[j] = worker[j]
    BY <1>1 DEF IInv, CommissionTypeOK
  <2> QED
    BY <2>1 DEF IdleWorker
<1>3. \A p \in free : /\ p \in Pids /\ job[p] = "pending" /\ refund[p] # "job"
                      /\ \A j \in Workers : p \notin worker[j].held
  BY DEF JobLocked
<1> HIDE DEF free
<1>4. LocksHeld'
  BY <1>1, <1>2, <1>3 DEF IInv, LocksHeld, BuyerOf
<1>5. OutcomesHold'
  <2>1. OutcomesOf(k)'
    BY <1>2 DEF OutcomesOf
  <2>2. ASSUME NEW j \in Workers \ {k} PROVE OutcomesOf(j)'
    BY <1>1, <1>2, OutcomesStay DEF IInv, OutcomesHold, Payable
  <2> QED
    BY <2>1, <2>2 DEF OutcomesHold
<1>6. /\ RefundsHold' /\ KindsHold' /\ CommissionIsEarned' /\ OneFirstBonus' /\ PaidOutOnce'
      /\ RefundStopsCommission'
  BY <1>1 DEF IInv, RefundsHold, KindsHold, CommissionIsEarned, OneFirstBonus, PaidOutOnce,
              RefundStopsCommission, BuyerOf
<1> QED
  BY <1>4, <1>5, <1>6 DEF Safe

\* One job of a batch: the rows of its buyer are locked by no other batch.
LEMMA HandleJobIsSafe ==
  ASSUME IInv, NEW k \in Workers, NEW p \in Pids, HandleJob(k, p)
  PROVE  Safe'
<1>1. PICK result \in Outcomes(k, p) : worker' = [worker EXCEPT ![k].out[p] = result]
  BY DEF HandleJob
<1>2. /\ UNCHANGED <<order, job, tx, firstPaid, credits, refund, settled, flagged>>
      /\ p \in worker[k].held /\ worker[k].out[p] = "todo"
      /\ ~UserLockedByOther(k, BuyerOf(p))
  BY DEF HandleJob, paymentVars
<1>3. /\ \A j \in Workers : worker'[j].held = worker[j].held
      /\ \A j \in Workers \ {k} : worker'[j] = worker[j]
      /\ worker'[k].out[p] = result
      /\ \A q \in Pids \ {p} : worker'[k].out[q] = worker[k].out[q]
  BY <1>1 DEF IInv, CommissionTypeOK
<1>4. job[p] = "pending" /\ tx[p].status = "none"
  BY <1>2 DEF IInv, LocksHeld, CommissionIsEarned
<1>5. LocksHeld'
  <2>1. \A j \in Workers, q \in Pids :
          /\ q \in worker'[j].held => job'[q] = "pending" /\ refund'[q] # "job"
          /\ worker'[j].out[q] # "todo" => q \in worker'[j].held
    BY <1>2, <1>3 DEF IInv, LocksHeld
  <2>2. \A i, j \in Workers, q, r \in Pids : i # j =>
          ~(q \in worker'[i].held /\ q \in worker'[j].held)
    BY <1>3 DEF IInv, LocksHeld
  <2>3. ASSUME NEW i \in Workers, NEW j \in Workers, NEW q \in Pids, NEW r \in Pids, i # j,
               worker'[i].out[q] # "todo", worker'[j].out[r] # "todo"
        PROVE  BuyerOf(q) # BuyerOf(r)
    <3>1. CASE i = k /\ q = p
      BY <1>2, <1>3, <2>3, <3>1 DEF UserLockedByOther
    <3>2. CASE j = k /\ r = p
      BY <1>2, <1>3, <2>3, <3>2 DEF UserLockedByOther
    <3>3. CASE ~(i = k /\ q = p) /\ ~(j = k /\ r = p)
      BY <1>3, <2>3, <3>3 DEF IInv, LocksHeld
    <3> QED
      BY <3>1, <3>2, <3>3
  <2> QED
    BY <2>1, <2>2, <2>3 DEF LocksHeld, BuyerOf
<1>6. OutcomesHold'
  <2>1. ASSUME NEW j \in Workers \ {k} PROVE OutcomesOf(j)'
    BY <1>2, <1>3, OutcomesStay DEF IInv, OutcomesHold, Payable
  <2>2. OutcomesOf(k)'
    <3>1. OutcomesOf(k)
      BY DEF IInv, OutcomesHold
    <3>2. \A u : FirstDone(k, u) => FirstDone(k, u)'
      BY <1>2, <1>3 DEF FirstDone, BuyerOf
    <3>3. /\ result \in {"first", "free", "recurring"} => Referred(BuyerOf(p)) /\ Payable(p)
          /\ result = "recurring" => FirstDone(k, BuyerOf(p))
          /\ result \in {"first", "free"} => ~FirstDone(k, BuyerOf(p))
      BY DEF Outcomes
    <3> SUFFICES ASSUME NEW q \in Pids
                 PROVE  /\ worker'[k].out[q] \in {"first", "free", "recurring"} =>
                              Referred(BuyerOf(q)) /\ Payable(q)
                        /\ worker'[k].out[q] = "recurring" => FirstDone(k, BuyerOf(q))'
                        /\ worker'[k].out[q] \in {"first", "free"} =>
                              /\ BuyerOf(q) \notin firstPaid
                              /\ \A r \in Pids : worker'[k].out[r] \in {"first", "free"} /\ r # q =>
                                    BuyerOf(r) # BuyerOf(q)
      BY <1>2 DEF OutcomesOf, BuyerOf, Referred, Payable
    <3>4. CASE q = p
      BY <1>3, <3>2, <3>3, <3>4 DEF FirstDone
    <3>5. CASE q # p
      <4>1. /\ worker'[k].out[q] \in {"first", "free", "recurring"} =>
                  Referred(BuyerOf(q)) /\ Payable(q)
            /\ worker'[k].out[q] = "recurring" => FirstDone(k, BuyerOf(q))'
            /\ worker'[k].out[q] \in {"first", "free"} => BuyerOf(q) \notin firstPaid
        BY <1>3, <3>1, <3>2, <3>5 DEF OutcomesOf
      <4>2. ASSUME worker'[k].out[q] \in {"first", "free"},
                   NEW r \in Pids, worker'[k].out[r] \in {"first", "free"}, r # q
            PROVE  BuyerOf(r) # BuyerOf(q)
        <5>1. CASE r = p
          BY <1>3, <3>3, <3>5, <4>2, <5>1 DEF FirstDone
        <5>2. CASE r # p
          BY <1>3, <3>1, <3>5, <4>2, <5>2 DEF OutcomesOf
        <5> QED
          BY <5>1, <5>2
      <4> QED
        BY <4>1, <4>2
    <3> QED
      BY <3>4, <3>5
  <2> QED
    BY <2>1, <2>2 DEF OutcomesHold
<1>7. /\ RefundsHold' /\ KindsHold' /\ CommissionIsEarned' /\ OneFirstBonus' /\ PaidOutOnce'
      /\ RefundStopsCommission'
  BY <1>2 DEF IInv, RefundsHold, KindsHold, CommissionIsEarned, OneFirstBonus, PaidOutOnce,
              RefundStopsCommission, BuyerOf
<1> QED
  BY <1>5, <1>6, <1>7 DEF Safe

\* A batch that ends, with COMMIT or ROLLBACK, gives up its locks.
LEMMA BatchEnds ==
  ASSUME IInv, NEW k \in Workers, worker' = [worker EXCEPT ![k] = IdleWorker],
         \A p \in Pids : p \notin worker[k].held => job'[p] = job[p],
         UNCHANGED <<order, refund>>, firstPaid \subseteq firstPaid',
         \A j \in Workers \ {k}, p \in Pids :
            worker[j].out[p] # "todo" /\ BuyerOf(p) \in firstPaid' => BuyerOf(p) \in firstPaid
  PROVE  LocksHeld' /\ OutcomesHold'
<1>1. /\ worker'[k].held = {}
      /\ \A p \in Pids : worker'[k].out[p] = "todo"
      /\ \A j \in Workers \ {k} : worker'[j] = worker[j]
  <2>1. worker'[k] = IdleWorker /\ \A j \in Workers \ {k} : worker'[j] = worker[j]
    BY DEF IInv, CommissionTypeOK
  <2> QED
    BY <2>1 DEF IdleWorker
<1>2. \A j \in Workers \ {k}, p \in Pids : p \in worker[j].held => p \notin worker[k].held
  BY DEF IInv, LocksHeld
<1>3. LocksHeld'
  BY <1>1, <1>2 DEF IInv, LocksHeld, BuyerOf
<1>4. OutcomesOf(k)'
  BY <1>1 DEF OutcomesOf
<1>5. ASSUME NEW j \in Workers \ {k} PROVE OutcomesOf(j)'
  BY <1>1, OutcomesStay DEF IInv, OutcomesHold, Payable
<1> QED
  BY <1>3, <1>4, <1>5 DEF OutcomesHold

LEMMA AbortJobsIsSafe ==
  ASSUME IInv, NEW k \in Workers, AbortJobs(k)
  PROVE  Safe'
<1>1. /\ UNCHANGED <<order, job, tx, firstPaid, credits, refund, settled, flagged>>
      /\ worker' = [worker EXCEPT ![k] = IdleWorker]
  BY DEF AbortJobs, paymentVars
<1>2. LocksHeld' /\ OutcomesHold'
  BY <1>1, BatchEnds
<1>3. /\ RefundsHold' /\ KindsHold' /\ CommissionIsEarned' /\ OneFirstBonus' /\ PaidOutOnce'
      /\ RefundStopsCommission'
  BY <1>1 DEF IInv, RefundsHold, KindsHold, CommissionIsEarned, OneFirstBonus, PaidOutOnce,
              RefundStopsCommission, BuyerOf
<1> QED
  BY <1>2, <1>3 DEF Safe

\* What a committed batch has written.
LEMMA CommitJobsWrites ==
  ASSUME IInv, NEW k \in Workers, CommitJobs(k)
  PROVE  /\ UNCHANGED <<order, credits, refund, settled, flagged>>
         /\ worker' = [worker EXCEPT ![k] = IdleWorker]
         /\ \A p \in Pids :
              IF worker[k].out[p] \in {"first", "recurring"}
              THEN /\ p \in worker[k].held
                   /\ job[p] = "pending" /\ tx[p] = NoRow /\ credits[p] = 0
                   /\ job'[p] = "completed"
                   /\ tx'[p] = [status |-> "locked", kind |-> worker[k].out[p]]
              ELSE tx'[p] = tx[p]
         /\ \A p \in Pids : job[p] \in {"completed", "skipped"} => job'[p] = job[p]
         /\ \A p \in Pids : p \notin worker[k].held => job'[p] = job[p]
         /\ \A u : u \in firstPaid' <=>
                   \/ u \in firstPaid
                   \/ \E p \in Pids : worker[k].out[p] \in {"first", "free"} /\ BuyerOf(p) = u
<1> DEFINE held == worker[k].held
           out == worker[k].out
<1>1. /\ UNCHANGED <<order, credits, refund, settled, flagged>>
      /\ worker' = [worker EXCEPT ![k] = IdleWorker]
      /\ tx' = [p \in Pids |-> IF p \in held /\ out[p] \in {"first", "recurring"}
                               THEN [status |-> "locked", kind |-> out[p]]
                               ELSE tx[p]]
      /\ firstPaid' = firstPaid \cup {BuyerOf(p) : p \in {q \in held : out[q] \in {"first", "free"}}}
  BY DEF CommitJobs
<1>2. /\ held \subseteq Pids
      /\ \A p \in Pids : out[p] # "todo" => p \in held
      /\ \A p \in held : job[p] = "pending"
  BY DEF IInv, CommissionTypeOK, LocksHeld
<1>3. /\ \A p \in Pids : p \notin held => job'[p] = job[p]
      /\ \A p \in held : job'[p] = JobAfter(out[p])
  BY CommitJobsSettles DEF IInv
<1>4. ASSUME NEW p \in Pids, out[p] \in {"first", "recurring"}
      PROVE  /\ p \in held
             /\ job[p] = "pending" /\ tx[p] = NoRow /\ credits[p] = 0
             /\ job'[p] = "completed"
             /\ tx'[p] = [status |-> "locked", kind |-> out[p]]
  <2>1. p \in held /\ job[p] = "pending"
    BY <1>2, <1>4
  <2>2. tx[p].status = "none" /\ tx[p].kind = "none"
    BY <2>1 DEF IInv, CommissionIsEarned, KindsHold
  <2>3. tx[p] = NoRow
    BY <2>2 DEF IInv, CommissionTypeOK, NoRow
  <2>4. credits[p] = 0
    BY <2>2 DEF IInv, PaidOutOnce
  <2>5. job'[p] = "completed"
    BY <1>3, <1>4, <2>1 DEF JobAfter
  <2> QED
    BY <1>1, <1>4, <2>1, <2>3, <2>4, <2>5
<1>5. \A p \in Pids : out[p] \notin {"first", "recurring"} => tx'[p] = tx[p]
  BY <1>1
<1>6. \A p \in Pids : job[p] \in {"completed", "skipped"} => job'[p] = job[p]
  BY <1>2, <1>3
<1>7. \A u : u \in firstPaid' <=>
             \/ u \in firstPaid
             \/ \E p \in Pids : out[p] \in {"first", "free"} /\ BuyerOf(p) = u
  BY <1>1, <1>2
<1> QED
  BY <1>1, <1>3, <1>4, <1>5, <1>6, <1>7

LEMMA CommitJobsIsSafe ==
  ASSUME IInv, NEW k \in Workers, CommitJobs(k)
  PROVE  Safe'
<1> DEFINE out == worker[k].out
<1>1. /\ UNCHANGED <<order, credits, refund, settled, flagged>>
      /\ worker' = [worker EXCEPT ![k] = IdleWorker]
      /\ \A p \in Pids : p \notin worker[k].held => job'[p] = job[p]
      /\ \A p \in Pids : job[p] \in {"completed", "skipped"} => job'[p] = job[p]
  BY CommitJobsWrites
<1>2. \A p \in Pids :
         IF out[p] \in {"first", "recurring"}
         THEN /\ p \in worker[k].held
              /\ job[p] = "pending" /\ tx[p] = NoRow /\ credits[p] = 0
              /\ job'[p] = "completed"
              /\ tx'[p] = [status |-> "locked", kind |-> out[p]]
         ELSE tx'[p] = tx[p]
  BY CommitJobsWrites
<1>3. \A u : u \in firstPaid' <=>
             \/ u \in firstPaid
             \/ \E p \in Pids : out[p] \in {"first", "free"} /\ BuyerOf(p) = u
  BY CommitJobsWrites
<1>4. OutcomesOf(k)
  BY DEF IInv, OutcomesHold
<1>5. LocksHeld' /\ OutcomesHold'
  <2>1. firstPaid \subseteq firstPaid'
    BY <1>3
  <2>2. ASSUME NEW j \in Workers \ {k}, NEW p \in Pids,
               worker[j].out[p] # "todo", BuyerOf(p) \in firstPaid'
        PROVE  BuyerOf(p) \in firstPaid
    BY <1>3, <2>2 DEF IInv, LocksHeld
  <2> QED
    BY <1>1, <2>1, <2>2, BatchEnds
<1>6. RefundsHold'
  <2>1. ASSUME NEW p \in Pids, refund[p] = "job" PROVE job'[p] = "pending"
    BY <1>1, <2>1 DEF IInv, RefundsHold, LocksHeld
  <2> QED
    BY <1>1, <2>1 DEF IInv, RefundsHold
<1>2a. ASSUME NEW p \in Pids, out[p] \in {"first", "recurring"}
       PROVE  /\ job[p] = "pending" /\ job'[p] = "completed"
              /\ tx[p].status = "none" /\ tx[p].kind = "none" /\ credits[p] = 0
              /\ tx'[p].status = "locked" /\ tx'[p].kind = out[p]
  <2>1. /\ job[p] = "pending" /\ job'[p] = "completed" /\ credits[p] = 0
        /\ tx[p] = NoRow /\ tx'[p] = [status |-> "locked", kind |-> out[p]]
    BY <1>2, <1>2a
  <2> QED
    BY <2>1 DEF NoRow
<1>2b. \A p \in Pids : out[p] \notin {"first", "recurring"} => tx'[p] = tx[p]
  BY <1>2
<1>7. KindsHold'
  BY <1>2a, <1>2b DEF IInv, KindsHold
<1>8. CommissionIsEarned'
  <2> SUFFICES ASSUME NEW p \in Pids, tx'[p].status # "none"
               PROVE  /\ order[OrderOf[p]] = [status |-> "activated", pid |-> p]
                      /\ Referrer[BuyerOf(p)] \in Users \ {BuyerOf(p)}
                      /\ job'[p] = "completed"
    BY <1>1 DEF CommissionIsEarned, BuyerOf
  <2>1. CASE out[p] \in {"first", "recurring"}
    <3>1. Referred(BuyerOf(p)) /\ Payable(p) /\ BuyerOf(p) \in Users
      BY <1>4, <2>1 DEF OutcomesOf, BuyerOf
    <3> QED
      BY <1>2, <2>1, <3>1 DEF Referred, Payable
  <2>2. CASE out[p] \notin {"first", "recurring"}
    BY <1>1, <1>2, <2>2 DEF IInv, CommissionIsEarned
  <2> QED
    BY <2>1, <2>2
<1>9. OneFirstBonus'
  <2>1. ASSUME NEW p \in Pids, tx'[p].kind # "none" PROVE BuyerOf(p) \in firstPaid'
    <3>1. CASE out[p] = "first"
      BY <1>3, <3>1
    <3>2. CASE out[p] = "recurring"
      BY <1>3, <1>4, <3>2 DEF OutcomesOf, FirstDone
    <3>3. CASE out[p] \notin {"first", "recurring"}
      BY <1>2, <1>3, <2>1, <3>3 DEF IInv, OneFirstBonus
    <3> QED
      BY <3>1, <3>2, <3>3
  <2>2. ASSUME NEW p \in Pids, NEW q \in Pids, BuyerOf(p) = BuyerOf(q),
               tx'[p].kind = "first", tx'[q].kind = "first", p # q
        PROVE  FALSE
    <3>1. \A r \in Pids : tx'[r].kind = "first" => out[r] = "first" \/ tx[r].kind = "first"
      BY <1>2a, <1>2b
    <3>2. \A r \in Pids : out[r] = "first" => BuyerOf(r) \notin firstPaid
      BY <1>4 DEF OutcomesOf
    <3>3. \A r \in Pids : tx[r].kind = "first" => BuyerOf(r) \in firstPaid
      BY DEF IInv, OneFirstBonus
    <3>4. CASE out[p] = "first" /\ out[q] = "first"
      BY <1>4, <2>2, <3>4 DEF OutcomesOf
    <3>5. CASE tx[p].kind = "first" /\ tx[q].kind = "first"
      BY <2>2, <3>5 DEF IInv, OneFirstBonus
    <3> QED
      BY <2>2, <3>1, <3>2, <3>3, <3>4, <3>5
  <2> QED
    BY <2>1, <2>2 DEF OneFirstBonus, BuyerOf
<1>10. PaidOutOnce'
  BY <1>1, <1>2a, <1>2b DEF IInv, PaidOutOnce
<1>11. RefundStopsCommission'
  <2> SUFFICES ASSUME NEW p \in Pids, settled[p] = "stopped"
               PROVE  /\ job'[p] # "pending"
                      /\ tx'[p].status # "locked"
                      /\ tx'[p].status = "released" => p \in flagged
    BY <1>1 DEF RefundStopsCommission
  <2>1. job[p] \in {"completed", "skipped"}
    BY DEF IInv, RefundsHold
  <2>2. job'[p] = job[p] /\ tx'[p] = tx[p]
    BY <1>1, <1>2, <2>1
  <2> QED
    BY <2>1, <2>2 DEF IInv, RefundStopsCommission
<1> QED
  BY <1>5, <1>6, <1>7, <1>8, <1>9, <1>10, <1>11 DEF Safe

\* A payout releases what is still locked and credits it.
LEMMA CommitPayoutIsSafe ==
  ASSUME IInv, NEW s \in Payouts, CommitPayout(s)
  PROVE  Safe'
<1> DEFINE rows == {p \in payout[s] : tx[p].status = "locked"}
<1>1. /\ UNCHANGED <<order, job, worker, firstPaid, refund, settled, flagged>>
      /\ tx' = [p \in Pids |-> IF p \in rows THEN [tx[p] EXCEPT !.status = "released"] ELSE tx[p]]
      /\ credits' = [p \in Pids |-> IF p \in rows THEN credits[p] + 1 ELSE credits[p]]
  BY DEF CommitPayout, paymentVars
<1>2. \A p \in Pids :
         IF p \in rows
         THEN /\ tx[p].status = "locked" /\ tx'[p].status = "released"
              /\ tx'[p].kind = tx[p].kind /\ credits'[p] = credits[p] + 1
         ELSE tx'[p] = tx[p] /\ credits'[p] = credits[p]
  BY <1>1 DEF IInv, CommissionTypeOK
<1> HIDE DEF rows
<1>3. LocksHeld'
  BY <1>1 DEF IInv, LocksHeld, BuyerOf
<1>4. OutcomesHold'
  BY <1>1, OutcomesStay DEF IInv, OutcomesHold, Payable
<1>5. RefundsHold' /\ KindsHold' /\ CommissionIsEarned'
  BY <1>1, <1>2 DEF IInv, RefundsHold, KindsHold, CommissionIsEarned, BuyerOf
<1>6. OneFirstBonus'
  <2>1. \A p \in Pids : tx'[p].kind = tx[p].kind
    BY <1>2
  <2> QED
    BY <1>1, <2>1 DEF IInv, OneFirstBonus, BuyerOf
<1>7. PaidOutOnce'
  BY <1>2 DEF IInv, PaidOutOnce
<1>8. RefundStopsCommission'
  BY <1>1, <1>2 DEF IInv, RefundStopsCommission
<1> QED
  BY <1>3, <1>4, <1>5, <1>6, <1>7, <1>8 DEF Safe

\* A refund: it reads and locks the job, then settles it with the ledger row.
LEMMA RefundSkipsJobIsSafe ==
  ASSUME IInv, NEW p \in Pids, RefundSkipsJob(p)
  PROVE  Safe'
<1>1. /\ UNCHANGED <<order, job, worker, tx, firstPaid, credits, settled, flagged>>
      /\ job[p] = "pending" => ~JobLocked(p)
      /\ refund' = [refund EXCEPT ![p] = CASE job[p] = "pending" -> "job"
                                           [] job[p] = "none" -> "none"
                                           [] OTHER -> "done"]
  BY DEF RefundSkipsJob, paymentVars
<1>2. job[p] \in {"none", "pending", "completed", "skipped"}
  BY DEF IInv, CommissionTypeOK, PaymentTypeOK
<1>3. /\ \A q \in Pids \ {p} : refund'[q] = refund[q]
      /\ refund'[p] = "job" => job[p] = "pending" /\ ~JobLocked(p)
      /\ refund'[p] = "done" => job[p] \in {"completed", "skipped"}
  BY <1>1, <1>2 DEF IInv, CommissionTypeOK
<1>4. LocksHeld'
  <2>1. ASSUME NEW k \in Workers, NEW q \in Pids, q \in worker[k].held PROVE refund'[q] # "job"
    BY <1>3, <2>1 DEF IInv, LocksHeld, JobLocked
  <2> QED
    BY <1>1, <2>1 DEF IInv, LocksHeld, BuyerOf
<1>5. OutcomesHold'
  BY <1>1, OutcomesStay DEF IInv, OutcomesHold, Payable
<1>6. RefundsHold'
  BY <1>1, <1>3 DEF IInv, RefundsHold
<1>7. /\ KindsHold' /\ CommissionIsEarned' /\ OneFirstBonus' /\ PaidOutOnce'
      /\ RefundStopsCommission'
  BY <1>1 DEF IInv, KindsHold, CommissionIsEarned, OneFirstBonus, PaidOutOnce,
              RefundStopsCommission, BuyerOf
<1> QED
  BY <1>4, <1>5, <1>6, <1>7 DEF Safe

LEMMA RefundReversesIsSafe ==
  ASSUME IInv, NEW p \in Pids, RefundReverses(p)
  PROVE  Safe'
<1>1. /\ UNCHANGED <<order, worker, firstPaid, credits>>
      /\ refund[p] # "idle"
      /\ tx' = IF tx[p].status = "locked"
               THEN [tx EXCEPT ![p] = [tx[p] EXCEPT !.status = "reversed"]] ELSE tx
      /\ tx[p].status = "released" => flagged' = flagged \cup {p}
      /\ tx[p].status # "released" => flagged' = flagged
      /\ refund' = [refund EXCEPT ![p] = "idle"]
      /\ settled' = [settled EXCEPT ![p] = IF refund[p] = "none" THEN "early" ELSE "stopped"]
  BY DEF RefundReverses, Flag
<1>2. /\ \A q \in Pids \ {p} : job'[q] = job[q]
      /\ job'[p] = IF refund[p] = "job" THEN "skipped" ELSE job[p]
  BY RefundSettles DEF IInv
<1>3. /\ \A q \in Pids \ {p} : tx'[q] = tx[q] /\ refund'[q] = refund[q] /\ settled'[q] = settled[q]
      /\ refund'[p] = "idle"
      /\ settled'[p] = "stopped" => refund[p] \in {"job", "done"}
      /\ flagged \subseteq flagged' /\ (tx[p].status = "released" => p \in flagged')
  BY <1>1 DEF IInv, CommissionTypeOK
<1>4. /\ tx'[p].kind = tx[p].kind
      /\ tx'[p].status = IF tx[p].status = "locked" THEN "reversed" ELSE tx[p].status
  <2>1. /\ tx[p].status = "locked" => tx'[p] = [tx[p] EXCEPT !.status = "reversed"]
        /\ tx[p].status # "locked" => tx'[p] = tx[p]
        /\ tx[p] \in [status : {"none", "locked", "released", "reversed"},
                      kind : {"none", "first", "recurring"}]
    BY <1>1 DEF IInv, CommissionTypeOK
  <2> QED
    BY <2>1
<1>5. /\ refund[p] = "job" => job[p] = "pending"
      /\ refund[p] = "done" \/ settled[p] = "stopped" => job[p] \in {"completed", "skipped"}
      /\ \A q \in Pids : job[q] \in {"completed", "skipped"} => job'[q] = job[q]
  BY <1>2 DEF IInv, RefundsHold
<1>6. LocksHeld'
  <2>1. ASSUME NEW k \in Workers, NEW q \in Pids, q \in worker[k].held
        PROVE  job'[q] = "pending" /\ refund'[q] # "job"
    BY <1>2, <1>3, <2>1 DEF IInv, LocksHeld
  <2> QED
    BY <1>1, <2>1 DEF IInv, LocksHeld, BuyerOf
<1>7. OutcomesHold'
  BY <1>1, OutcomesStay DEF IInv, OutcomesHold, Payable
<1>8. RefundsHold'
  BY <1>2, <1>3, <1>5 DEF IInv, RefundsHold
<1>9. KindsHold' /\ OneFirstBonus'
  <2>1. \A q \in Pids : tx'[q].kind = tx[q].kind /\ (tx'[q].status = "none" <=> tx[q].status = "none")
    BY <1>3, <1>4
  <2> QED
    BY <1>1, <2>1 DEF IInv, KindsHold, OneFirstBonus, BuyerOf
<1>10. CommissionIsEarned'
  <2>1. \A q \in Pids : tx'[q].status # "none" => tx[q].status # "none"
    BY <1>3, <1>4
  <2> QED
    BY <1>1, <1>5, <2>1 DEF IInv, CommissionIsEarned, BuyerOf
<1>11. PaidOutOnce'
  BY <1>1, <1>3, <1>4 DEF IInv, PaidOutOnce
<1>12. RefundStopsCommission'
  <2> SUFFICES ASSUME NEW q \in Pids, settled'[q] = "stopped"
               PROVE  /\ job'[q] # "pending"
                      /\ tx'[q].status # "locked"
                      /\ tx'[q].status = "released" => q \in flagged'
    BY DEF RefundStopsCommission
  <2>1. CASE q = p
    BY <1>2, <1>3, <1>4, <1>5, <2>1
  <2>2. CASE q # p
    BY <1>2, <1>3, <2>2 DEF IInv, RefundStopsCommission
  <2> QED
    BY <2>1, <2>2
<1> QED
  BY <1>6, <1>7, <1>8, <1>9, <1>10, <1>11, <1>12 DEF Safe

LEMMA RefundFailsIsSafe ==
  ASSUME IInv, NEW p \in Pids, RefundFails(p)
  PROVE  Safe'
<1>1. /\ UNCHANGED <<order, job, worker, tx, firstPaid, credits, settled, flagged>>
      /\ refund' = [refund EXCEPT ![p] = "idle"]
  BY DEF RefundFails, paymentVars
<1>2. \A q \in Pids : refund'[q] \in {refund[q], "idle"}
  BY <1>1 DEF IInv, CommissionTypeOK
<1>3. LocksHeld' /\ RefundsHold'
  BY <1>1, <1>2 DEF IInv, LocksHeld, RefundsHold, BuyerOf
<1>4. OutcomesHold'
  BY <1>1, OutcomesStay DEF IInv, OutcomesHold, Payable
<1>5. /\ KindsHold' /\ CommissionIsEarned' /\ OneFirstBonus' /\ PaidOutOnce'
      /\ RefundStopsCommission'
  BY <1>1 DEF IInv, KindsHold, CommissionIsEarned, OneFirstBonus, PaidOutOnce,
              RefundStopsCommission, BuyerOf
<1> QED
  BY <1>3, <1>4, <1>5 DEF Safe

\* The remaining steps change neither the jobs nor the ledger; an agent stays flagged.
LEMMA QuietStepIsSafe ==
  ASSUME IInv, UNCHANGED <<order, job, worker, tx, firstPaid, credits, refund, settled>>,
         flagged \subseteq flagged'
  PROVE  Safe'
<1>1. LocksHeld' /\ RefundsHold' /\ KindsHold' /\ CommissionIsEarned' /\ OneFirstBonus'
  BY DEF IInv, LocksHeld, RefundsHold, KindsHold, CommissionIsEarned, OneFirstBonus, BuyerOf
<1>2. OutcomesHold'
  BY OutcomesStay DEF IInv, OutcomesHold, Payable
<1>3. PaidOutOnce' /\ RefundStopsCommission'
  BY DEF IInv, PaidOutOnce, RefundStopsCommission
<1> QED
  BY <1>1, <1>2, <1>3 DEF Safe

LEMMA StepIInv == IInv /\ [Next]_vars => IInv'
<1> SUFFICES ASSUME IInv, [Next]_vars PROVE IInv'
  OBVIOUS
<1>0. CommissionTypeOK'
  BY StepCommissionTypeOK DEF IInv
<1> DEFINE Quiet == /\ UNCHANGED <<order, job, worker, tx, firstPaid, credits, refund, settled>>
                    /\ flagged \subseteq flagged'
<1>1. Quiet => Safe'
  BY QuietStepIsSafe
<1>2. ASSUME Pay PROVE Safe'
  BY <1>2, PayIsSafe
<1>3. ASSUME NEW k \in Workers, WorkerStep(k) PROVE Safe'
  BY <1>3, LockJobsIsSafe, HandleJobIsSafe, CommitJobsIsSafe, AbortJobsIsSafe DEF WorkerStep
<1>4. ASSUME Saturday PROVE Quiet
  BY <1>4 DEF Saturday, paymentVars
<1>5. ASSUME NEW s \in Payouts, PayoutStep(s) PROVE Safe'
  <2>1. CASE CommitPayout(s)
    BY <2>1, CommitPayoutIsSafe
  <2>2. CASE LockPayout(s) \/ AbortPayout(s)
    <3>1. Quiet
      BY <2>2 DEF LockPayout, AbortPayout, paymentVars
    <3> QED
      BY <1>1, <3>1
  <2> QED
    BY <1>5, <2>1, <2>2 DEF PayoutStep
<1>6. ASSUME NEW p \in Pids, RefundStep(p) PROVE Safe'
  <2>1. CASE Refund(p) \/ PartRefundFlags(p)
    <3>1. Quiet
      BY <2>1 DEF Refund, PartRefundFlags, Flag, paymentVars
    <3> QED
      BY <1>1, <3>1
  <2> QED
    BY <1>6, <2>1, RefundSkipsJobIsSafe, RefundReversesIsSafe, RefundFailsIsSafe DEF RefundStep
<1>7. ASSUME UNCHANGED vars PROVE Quiet
  BY <1>7 DEF vars, paymentVars, commissionVars
<1>8. Safe'
  BY <1>1, <1>2, <1>3, <1>4, <1>5, <1>6, <1>7 DEF Next
<1> QED
  BY <1>0, <1>8 DEF IInv, Safe

-----------------------------------------------------------------------------
(* What is settled stays settled. *)

LEMMA StepFinal == IInv /\ [Next]_vars => [FinalStep]_vars
<1> SUFFICES ASSUME IInv, Next PROVE FinalStep
  BY DEF FinalStep, vars, commissionVars, paymentVars
<1>1. ASSUME UNCHANGED <<job, tx, firstPaid>> PROVE FinalStep
  BY <1>1 DEF FinalStep
<1>2. ASSUME Pay PROVE FinalStep
  <2>1. UNCHANGED <<tx, firstPaid>>
    BY <1>2 DEF Pay, commissionVars
  <2> QED
    BY <1>2, <2>1, PaymentStepKeeps DEF Pay, PaymentKeeps, FinalStep, IInv, CommissionTypeOK
<1>3. ASSUME NEW k \in Workers, CommitJobs(k) PROVE FinalStep
  <2>1. \A p \in Pids : job[p] \in {"completed", "skipped"} => job'[p] = job[p]
    BY <1>3, CommitJobsWrites
  <2>2. firstPaid \subseteq firstPaid'
    BY <1>3, CommitJobsWrites
  <2>3. \A p \in Pids : tx'[p] = tx[p] \/ tx[p] = NoRow
    BY <1>3, CommitJobsWrites
  <2> QED
    BY <2>1, <2>2, <2>3 DEF FinalStep, NoRow
<1>4. ASSUME NEW s \in Payouts, CommitPayout(s) PROVE FinalStep
  <2> DEFINE rows == {p \in payout[s] : tx[p].status = "locked"}
  <2>1. /\ UNCHANGED <<job, firstPaid>>
        /\ tx' = [p \in Pids |-> IF p \in rows THEN [tx[p] EXCEPT !.status = "released"] ELSE tx[p]]
    BY <1>4 DEF CommitPayout, paymentVars
  <2>2. \A p \in Pids : tx'[p] = tx[p] \/ tx[p].status = "locked"
    BY <2>1
  <2> QED
    BY <2>1, <2>2 DEF FinalStep
<1>5. ASSUME NEW p \in Pids, RefundReverses(p) PROVE FinalStep
  <2>1. /\ firstPaid' = firstPaid
        /\ tx' = IF tx[p].status = "locked" THEN [tx EXCEPT ![p].status = "reversed"] ELSE tx
    BY <1>5 DEF RefundReverses
  <2>2. \A q \in Pids : tx'[q] = tx[q] \/ tx[q].status = "locked"
    BY <2>1 DEF IInv, CommissionTypeOK
  <2>3. \A q \in Pids : job[q] \in {"completed", "skipped"} => job'[q] = job[q]
    BY <1>5, RefundSettles DEF IInv, RefundsHold
  <2> QED
    BY <2>1, <2>2, <2>3 DEF FinalStep
<1>6. ASSUME NEW k \in Workers, WorkerStep(k), ~CommitJobs(k) PROVE UNCHANGED <<job, tx, firstPaid>>
  BY <1>6 DEF WorkerStep, LockJobs, HandleJob, AbortJobs, paymentVars
<1>7. ASSUME NEW s \in Payouts, PayoutStep(s), ~CommitPayout(s) PROVE UNCHANGED <<job, tx, firstPaid>>
  BY <1>7 DEF PayoutStep, LockPayout, AbortPayout, paymentVars
<1>8. ASSUME NEW p \in Pids, RefundStep(p), ~RefundReverses(p) PROVE UNCHANGED <<job, tx, firstPaid>>
  BY <1>8 DEF RefundStep, Refund, RefundSkipsJob, RefundFails, PartRefundFlags, Flag, paymentVars
<1>9. ASSUME Saturday PROVE UNCHANGED <<job, tx, firstPaid>>
  BY <1>9 DEF Saturday, paymentVars
<1> QED
  BY <1>1, <1>2, <1>3, <1>4, <1>5, <1>6, <1>7, <1>8, <1>9 DEF Next

-----------------------------------------------------------------------------
(* Theorems *)

\* Every reachable state of jobs, batches, payouts and refunds satisfies the
\* inductive invariant.
THEOREM CommissionInvariance == Spec => []IInv
  BY CommissionInit, StepIInv, PTL DEF Spec

THEOREM CommissionTypeCorrect == Spec => []CommissionTypeOK
  BY CommissionInvariance, PTL DEF IInv

\* No commission without the activated payment of a referred buyer.
THEOREM CommissionIsEarnedAlways == Spec => []CommissionIsEarned
  BY CommissionInvariance, PTL DEF IInv

\* However many batches run side by side, one first-sale commission for a buyer.
THEOREM OneFirstBonusAlways == Spec => []OneFirstBonus
  BY CommissionInvariance, PTL DEF IInv

\* However many payouts and refunds overlap, a commission is credited once.
THEOREM PaidOutOnceAlways == Spec => []PaidOutOnce
  BY CommissionInvariance, PTL DEF IInv

\* A refund that found its job leaves nothing to be paid out unseen.
THEOREM RefundStopsCommissionAlways == Spec => []RefundStopsCommission
  BY CommissionInvariance, PTL DEF IInv

\* A released or reversed commission, a settled job and a spent bonus are final.
THEOREM FinalAlways == Spec => Final
  BY CommissionInvariance, StepFinal, PTL DEF Spec, Final

\* The commission side is a consumer of the outbox that module PaymentOrders
\* allows, so everything proved of the payments holds with it running.
THEOREM CommissionImplementsPayments == Spec => ImplementsPayments
<1>1. Init => PaymentInit
  BY DEF Init
<1>2. IInv /\ [Next]_vars => [PaymentNext]_paymentVars
  BY StepIsAPaymentStep DEF IInv
<1> QED
  BY <1>1, <1>2, CommissionInvariance, PTL DEF Spec, ImplementsPayments, PaymentSpec

-----------------------------------------------------------------------------
(* The refinement: the transactions of the commission side implement       *)
(* CommissionLedger, which has none.                                       *)

\* What the ledger asks beyond IInv: a payout holds only rows that are due, a
\* batch skips only jobs of buyers nobody referred, and a refund that found no
\* job was not preceded by one that did.
LedgerFacts ==
    /\ \A s \in Payouts : payout[s] \subseteq due
    /\ \A k \in Workers, p \in Pids :
          /\ worker[k].out[p] # "known"
          /\ worker[k].out[p] = "skip" => ~Referred(BuyerOf(p))
    /\ \A p \in Pids : refund[p] = "none" => settled[p] # "stopped"

LEMMA StepLedgerFacts == IInv /\ LedgerFacts /\ [Next]_vars => LedgerFacts'
<1> SUFFICES ASSUME IInv, LedgerFacts, [Next]_vars PROVE LedgerFacts'
  OBVIOUS
<1> DEFINE Due == \A s \in Payouts : payout[s] \subseteq due
           Results1 == \A k \in Workers, p \in Pids :
                          /\ worker[k].out[p] # "known"
                          /\ worker[k].out[p] = "skip" => ~Referred(BuyerOf(p))
           Early == \A p \in Pids : refund[p] = "none" => settled[p] # "stopped"
<1>1. Due'
  <2>1. Due /\ payout \in [Payouts -> SUBSET Pids]
    BY DEF LedgerFacts, IInv, CommissionTypeOK
  <2>2. ASSUME NEW s \in Payouts, LockPayout(s) PROVE Due'
    BY <2>1, <2>2 DEF LockPayout
  <2>3. ASSUME NEW s \in Payouts, CommitPayout(s) \/ AbortPayout(s) PROVE Due'
    BY <2>1, <2>3 DEF CommitPayout, AbortPayout
  <2>4. ASSUME UNCHANGED payout, due \subseteq due' PROVE Due'
    BY <2>1, <2>4
  <2>5. ASSUME NEW p \in Pids, RefundStep(p) PROVE UNCHANGED <<payout, due>>
    BY <2>5 DEF RefundStep, Refund, RefundSkipsJob, RefundReverses, RefundFails, PartRefundFlags
  <2>6. ASSUME NEW k \in Workers, WorkerStep(k) PROVE UNCHANGED <<payout, due>>
    BY <2>6 DEF WorkerStep, LockJobs, HandleJob, CommitJobs, AbortJobs
  <2> HIDE DEF Due
  <2> QED
    BY <2>2, <2>3, <2>4, <2>5, <2>6 DEF Next, PayoutStep, Pay, commissionVars, Saturday, vars
<1>2. Results1'
  <2>1. Results1 /\ worker \in [Workers -> [held : SUBSET Pids, out : [Pids -> Results]]]
    BY DEF LedgerFacts, IInv, CommissionTypeOK
  <2>2. ASSUME NEW k \in Workers, NEW free, worker' = [worker EXCEPT ![k] = [IdleWorker EXCEPT !.held = free]]
        PROVE  Results1'
    <3>1. /\ \A p \in Pids : worker'[k].out[p] = "todo"
          /\ \A j \in Workers \ {k} : worker'[j] = worker[j]
      BY <2>1, <2>2 DEF IdleWorker
    <3> QED
      BY <2>1, <3>1 DEF BuyerOf, Referred
  <2>3. ASSUME NEW k \in Workers, worker' = [worker EXCEPT ![k] = IdleWorker] PROVE Results1'
    <3>1. /\ \A p \in Pids : worker'[k].out[p] = "todo"
          /\ \A j \in Workers \ {k} : worker'[j] = worker[j]
      BY <2>1, <2>3 DEF IdleWorker
    <3> QED
      BY <2>1, <3>1 DEF BuyerOf, Referred
  <2>4. ASSUME NEW k \in Workers, NEW p \in Pids, HandleJob(k, p) PROVE Results1'
    <3>1. PICK result \in Outcomes(k, p) : worker' = [worker EXCEPT ![k].out[p] = result]
      BY <2>4 DEF HandleJob
    <3>2. tx[p].status = "none"
      BY <2>4 DEF HandleJob, IInv, LocksHeld, CommissionIsEarned
    <3>3. result # "known" /\ (result = "skip" => ~Referred(BuyerOf(p)))
      BY <3>2 DEF Outcomes
    <3>4. /\ worker'[k].out[p] = result
          /\ \A q \in Pids \ {p} : worker'[k].out[q] = worker[k].out[q]
          /\ \A j \in Workers \ {k} : worker'[j] = worker[j]
      BY <2>1, <3>1
    <3>5. ASSUME NEW j \in Workers, NEW q \in Pids
          PROVE  /\ worker'[j].out[q] # "known"
                 /\ worker'[j].out[q] = "skip" => ~Referred(BuyerOf(q))
      <4>1. CASE j = k /\ q = p
        BY <3>3, <3>4, <4>1
      <4>2. CASE j # k \/ q # p
        BY <2>1, <3>4, <4>2
      <4> QED
        BY <4>1, <4>2
    <3> QED
      BY <3>5 DEF BuyerOf, Referred
  <2>5. ASSUME UNCHANGED worker PROVE Results1'
    BY <2>1, <2>5 DEF BuyerOf, Referred
  <2>6. ASSUME NEW p \in Pids, RefundStep(p) PROVE UNCHANGED worker
    BY <2>6 DEF RefundStep, Refund, RefundSkipsJob, RefundReverses, RefundFails, PartRefundFlags
  <2>7. ASSUME NEW s \in Payouts, PayoutStep(s) PROVE UNCHANGED worker
    BY <2>7 DEF PayoutStep, LockPayout, CommitPayout, AbortPayout
  <2>8. ASSUME NEW k \in Workers, WorkerStep(k) PROVE Results1'
    BY <2>2, <2>3, <2>4, <2>8 DEF WorkerStep, LockJobs, CommitJobs, AbortJobs
  <2> HIDE DEF Results1
  <2> QED
    BY <2>5, <2>6, <2>7, <2>8 DEF Next, Pay, commissionVars, Saturday, vars
<1>3. Early'
  <2>1. /\ Early
        /\ refund \in [Pids -> {"idle", "none", "job", "done"}]
        /\ settled \in [Pids -> {"no", "early", "stopped"}]
    BY DEF LedgerFacts, IInv, CommissionTypeOK
  <2>2. ASSUME NEW p \in Pids, RefundSkipsJob(p) PROVE Early'
    <3>1. /\ settled' = settled
          /\ \A q \in Pids \ {p} : refund'[q] = refund[q]
          /\ refund'[p] = "none" => job[p] \notin {"completed", "skipped"}
      BY <2>1, <2>2 DEF RefundSkipsJob, IInv, CommissionTypeOK, PaymentTypeOK
    <3>2. refund'[p] = "none" => settled[p] # "stopped"
      BY <3>1 DEF IInv, RefundsHold
    <3> QED
      BY <2>1, <3>1, <3>2
  <2>3. ASSUME NEW p \in Pids, RefundReverses(p) \/ RefundFails(p) PROVE Early'
    <3>1. /\ refund' = [refund EXCEPT ![p] = "idle"]
          /\ \A q \in Pids \ {p} : settled'[q] = settled[q]
      BY <2>1, <2>3 DEF RefundReverses, RefundFails
    <3> QED
      BY <2>1, <3>1
  <2>4. ASSUME UNCHANGED <<refund, settled>> PROVE Early'
    BY <2>1, <2>4
  <2>5. ASSUME NEW p \in Pids, Refund(p) \/ PartRefundFlags(p) PROVE UNCHANGED <<refund, settled>>
    BY <2>5 DEF Refund, PartRefundFlags
  <2>6. ASSUME NEW k \in Workers, WorkerStep(k) PROVE UNCHANGED <<refund, settled>>
    BY <2>6 DEF WorkerStep, LockJobs, HandleJob, CommitJobs, AbortJobs
  <2>7. ASSUME NEW s \in Payouts, PayoutStep(s) PROVE UNCHANGED <<refund, settled>>
    BY <2>7 DEF PayoutStep, LockPayout, CommitPayout, AbortPayout
  <2> HIDE DEF Early
  <2> QED
    BY <2>2, <2>3, <2>4, <2>5, <2>6, <2>7 DEF Next, RefundStep, Pay, commissionVars, Saturday, vars
<1> QED
  BY <1>1, <1>2, <1>3 DEF LedgerFacts

\* The values that the ledger's variables have in this module.
Earning == {p \in Pids : OrderOf[p] \in Subscriptions /\ Payable(p)}
Stopped == {p \in Pids : settled[p] = "stopped"}
PaidBy == [p \in Pids |-> BuyerOf(p)]
Referees == {u \in Users : Referred(u)}

\* A batch that commits settles the jobs it did not fail.
LEMMA CommitJobsIsASettle ==
  ASSUME IInv, LedgerFacts, OutboxMatchesActivations, NEW k \in Workers, CommitJobs(k)
  PROVE  Ledger!LedgerNext
<1> DEFINE held == worker[k].held
           out == worker[k].out
           jobs == {p \in held : out[p] # "failed"}
           result == [p \in jobs |-> out[p]]
<1>1. /\ held \subseteq Pids
      /\ \A p \in Pids : out[p] \in Results \ {"known"}
      /\ \A p \in held : out[p] # "todo" /\ job[p] = "pending"
      /\ \A p \in Pids : out[p] # "todo" => p \in held
  BY DEF IInv, CommissionTypeOK, LedgerFacts, LocksHeld, CommitJobs
<1>2. /\ jobs \in SUBSET Pids
      /\ result \in [jobs -> {"skip", "free", "first", "recurring"}]
      /\ \A p \in jobs : result[p] = out[p] /\ p \in Pids
  BY <1>1 DEF Results
<1>3. /\ UNCHANGED <<order, credits, due, settled, flagged>>
      /\ job' = [p \in Pids |-> IF p \in held THEN JobAfter(out[p]) ELSE job[p]]
      /\ tx' = [p \in Pids |-> IF p \in held /\ out[p] \in {"first", "recurring"}
                               THEN [status |-> "locked", kind |-> out[p]]
                               ELSE tx[p]]
      /\ firstPaid' = firstPaid \cup {BuyerOf(p) : p \in {q \in held : out[q] \in {"first", "free"}}}
  BY DEF CommitJobs
<1>4. ASSUME NEW p \in jobs
      PROVE  /\ job[p] = "pending"
             /\ result[p] = "skip" <=> PaidBy[p] \notin Referees
             /\ result[p] # "skip" => p \in Earning
             /\ result[p] \in {"first", "free"} =>
                   /\ PaidBy[p] \notin firstPaid
                   /\ \A q \in jobs : result[q] \in {"first", "free"} /\ PaidBy[q] = PaidBy[p] => q = p
  <2>1. /\ p \in Pids /\ p \in held /\ result[p] = out[p] /\ PaidBy[p] = BuyerOf(p)
        /\ BuyerOf(p) \in Users
        /\ \A q \in jobs : q \in Pids /\ result[q] = out[q] /\ PaidBy[q] = BuyerOf(q)
    BY <1>2 DEF PaidBy, BuyerOf
  <2>2. OutcomesOf(k) /\ (out[p] = "skip" => ~Referred(BuyerOf(p)))
    BY <2>1 DEF IInv, OutcomesHold, LedgerFacts
  <2>3. /\ out[p] \in {"skip", "free", "first", "recurring"}
        /\ job[p] = "pending"
    BY <1>1, <1>2, <2>1
  <2>4. out[p] # "skip" => Referred(BuyerOf(p)) /\ Payable(p)
    BY <2>1, <2>2, <2>3 DEF OutcomesOf
  <2>5. OrderOf[p] \in Subscriptions
    BY <2>1, <2>3 DEF OutboxMatchesActivations
  <2>6. result[p] = "skip" <=> PaidBy[p] \notin Referees
    BY <2>1, <2>2, <2>4 DEF Referees
  <2>7. result[p] # "skip" => p \in Earning
    BY <2>1, <2>4, <2>5 DEF Earning
  <2>8. out[p] \in {"first", "free"} =>
           /\ BuyerOf(p) \notin firstPaid
           /\ \A q \in Pids : out[q] \in {"first", "free"} /\ q # p => BuyerOf(q) # BuyerOf(p)
    BY <2>1, <2>2 DEF OutcomesOf
  <2> HIDE DEF jobs, result
  <2> QED
    BY <2>1, <2>3, <2>6, <2>7, <2>8
<1>5. firstPaid' = firstPaid \cup {PaidBy[p] : p \in {q \in jobs : result[q] \in {"first", "free"}}}
  <2>1. {q \in jobs : result[q] \in {"first", "free"}} = {q \in held : out[q] \in {"first", "free"}}
    BY <1>2
  <2>2. \A p \in held : PaidBy[p] = BuyerOf(p)
    BY <1>1 DEF PaidBy
  <2> HIDE DEF jobs, result, held, out
  <2> QED
    BY <1>3, <2>1, <2>2
<1>6. ASSUME NEW p \in jobs, result[p] = "recurring" PROVE PaidBy[p] \in firstPaid'
  <2>1. p \in Pids /\ out[p] = "recurring" /\ PaidBy[p] = BuyerOf(p)
    BY <1>2, <1>6 DEF PaidBy
  <2>2. FirstDone(k, BuyerOf(p))
    BY <2>1 DEF IInv, OutcomesHold, OutcomesOf
  <2>3. BuyerOf(p) \in firstPaid'
    BY <1>1, <1>3, <2>2 DEF FirstDone
  <2> QED
    BY <2>1, <2>3
<1>7. job' = [p \in Pids |-> IF p \notin jobs THEN job[p]
                             ELSE IF result[p] = "skip" THEN "skipped" ELSE "completed"]
  <2>1. ASSUME NEW p \in Pids
        PROVE  (IF p \in held THEN JobAfter(out[p]) ELSE job[p])
               = (IF p \notin jobs THEN job[p]
                  ELSE IF result[p] = "skip" THEN "skipped" ELSE "completed")
    <3>1. CASE p \in jobs
      BY <1>1, <1>2, <3>1 DEF JobAfter
    <3>2. CASE p \in held \ jobs
      BY <1>1, <3>2 DEF JobAfter
    <3>3. CASE p \notin held
      BY <3>3
    <3> QED
      BY <3>1, <3>2, <3>3
  <2> HIDE DEF jobs, result, held, out
  <2> QED
    BY <1>3, <2>1
<1>8. tx' = [p \in Pids |-> IF p \in jobs /\ result[p] \in {"first", "recurring"}
                            THEN [status |-> "locked", kind |-> result[p]] ELSE tx[p]]
  <2>1. ASSUME NEW p \in Pids
        PROVE  /\ (p \in held /\ out[p] \in {"first", "recurring"})
                    <=> (p \in jobs /\ result[p] \in {"first", "recurring"})
               /\ p \in jobs => result[p] = out[p]
    BY <1>2
  <2> HIDE DEF jobs, result, held, out
  <2> QED
    BY <1>3, <2>1
<1>9. UNCHANGED <<Earning, due, credits, Stopped, flagged>>
  BY <1>3 DEF Earning, Stopped, Payable
<1> HIDE DEF jobs, result, held, out
<1>10. Ledger!Settle(jobs, result)
  BY <1>4, <1>5, <1>6, <1>7, <1>8, <1>9
  DEF Ledger!Settle, Earning, Stopped, PaidBy, Referees
<1> QED
  BY <1>2, <1>10 DEF Ledger!LedgerNext

\* A payment side step purchases, or changes nothing that the ledger sees.
LEMMA PayIsAPurchase ==
  ASSUME IInv, OutboxMatchesActivations, Pay
  PROVE  [Ledger!LedgerNext]_Ledger!commissionLedgerVars
<1>1. UNCHANGED <<tx, firstPaid, due, credits, settled, flagged>>
  BY DEF Pay, commissionVars
<1>2. Stopped' = Stopped
  BY <1>1 DEF Stopped
<1>3. PaymentTypeOK
  BY DEF IInv, CommissionTypeOK
<1>4. ASSUME job' = job, Earning' = Earning PROVE UNCHANGED Ledger!commissionLedgerVars
  BY <1>1, <1>2, <1>4 DEF Ledger!commissionLedgerVars, Earning, Stopped
\* A step that keeps activated rows and activates no subscription order.
<1>5. ASSUME \A o \in Subscriptions : \/ order'[o] = order[o]
                                      \/ ~Activated(o) /\ ~Activated(o)'
      PROVE  Earning' = Earning
  <2>1. \A p \in Pids : OrderOf[p] \in Subscriptions => (Payable(p)' <=> Payable(p))
    BY <1>5 DEF Payable, Activated
  <2> QED
    BY <2>1 DEF Earning, Subscriptions
<1>6. ASSUME NEW p \in Pids, job[p] = "none", Earning' \in {Earning, Earning \cup {p}},
             job' = [job EXCEPT ![p] = "pending"]
      PROVE  Ledger!LedgerNext
  <2>1. Ledger!Purchase(p)
    BY <1>1, <1>2, <1>6 DEF Ledger!Purchase, Earning, Stopped
  <2> QED
    BY <2>1 DEF Ledger!LedgerNext
<1>7. ASSUME NEW p \in Pids, Activate(p) PROVE Ledger!LedgerNext
  <2>1. ~Activated(OrderOf[p]) /\ OrderOf[p] \in Subscriptions
    BY <1>7 DEF Activate, Recoverable, Activated
  <2>2. job[p] = "none"
    BY <2>1 DEF OutboxMatchesActivations
  <2>3. job' = [job EXCEPT ![p] = "pending"]
    BY <1>7, <2>2 DEF Activate, Enqueue
  <2>4. /\ order'[OrderOf[p]] = [status |-> "activated", pid |-> p]
        /\ \A o \in Orders \ {OrderOf[p]} : order'[o] = order[o]
    BY <1>3, <1>7 DEF Activate, MarkActivated, PaymentTypeOK
  <2>5. \A q \in Pids : OrderOf[q] = OrderOf[p] => ~Payable(q)
    BY <2>1 DEF Payable, Activated
  <2>6. ASSUME NEW q \in Pids PROVE Payable(q)' <=> (Payable(q) \/ q = p)
    <3>1. CASE OrderOf[q] = OrderOf[p]
      <4>1. ~Payable(q) /\ order'[OrderOf[q]] = [status |-> "activated", pid |-> p]
        BY <2>4, <2>5, <3>1
      <4>2. Payable(q)' <=> q = p
        BY <4>1 DEF Payable
      <4> QED
        BY <4>1, <4>2
    <3>2. CASE OrderOf[q] # OrderOf[p]
      <4>1. order'[OrderOf[q]] = order[OrderOf[q]] /\ q # p
        BY <2>4, <3>2
      <4> QED
        BY <4>1 DEF Payable
    <3> QED
      BY <3>1, <3>2
  <2>7. Earning' = Earning \cup {p}
    BY <2>1, <2>6 DEF Earning, Subscriptions
  <2> QED
    BY <1>6, <2>2, <2>3, <2>7
<1>8. ASSUME NEW p \in Pids, Duplicate(p) PROVE [Ledger!LedgerNext]_Ledger!commissionLedgerVars
  <2>1. Earning' = Earning
    BY <1>8 DEF Duplicate, Earning, Payable, Subscriptions
  <2>2. CASE job[p] = "none"
    <3>1. job' = [job EXCEPT ![p] = "pending"]
      BY <1>8, <2>2 DEF Duplicate, Enqueue
    <3> QED
      BY <1>6, <2>1, <2>2, <3>1
  <2>3. CASE job[p] # "none"
    <3>1. job' = job
      BY <1>3, <1>8, <2>3 DEF Duplicate, Enqueue, PaymentTypeOK
    <3> QED
      BY <1>4, <2>1, <3>1
  <2> QED
    BY <2>2, <2>3
<1>9. ASSUME NEW p \in Pids, AddSlot(p) PROVE job' = job /\ Earning' = Earning
  <2>1. \A o \in Subscriptions : order'[o] = order[o]
    BY <1>3, <1>9 DEF AddSlot, MarkActivated, Subscriptions, PaymentTypeOK
  <2> QED
    BY <1>5, <1>9, <2>1 DEF AddSlot
<1>10. ASSUME NEW p \in Pids, MarkFailed(p) PROVE job' = job /\ Earning' = Earning
  <2>1. /\ ~Activated(OrderOf[p])
        /\ order' = [order EXCEPT ![OrderOf[p]].status = "failed"]
    BY <1>10 DEF MarkFailed
  <2>2. \A o \in Orders : order'[o] = order[o] \/ (o = OrderOf[p] /\ order'[o].status = "failed")
    BY <1>3, <2>1 DEF PaymentTypeOK
  <2> QED
    BY <1>5, <1>10, <2>1, <2>2 DEF MarkFailed, Activated, Subscriptions
<1>11. ASSUME NEW o \in Orders, CreateOrder(o) PROVE job' = job /\ Earning' = Earning
  <2>1. order[o].status = "none" /\ order' = [order EXCEPT ![o].status = "created"]
    BY <1>11 DEF CreateOrder
  <2>2. \A x \in Orders : order'[x] = order[x] \/ (x = o /\ order'[x].status = "created")
    BY <1>3, <2>1 DEF PaymentTypeOK
  <2> QED
    BY <1>5, <1>11, <2>1, <2>2 DEF CreateOrder, Activated, Subscriptions
<1>12. ASSUME NEW p \in Pids, Capture(p) \/ Decline(p) PROVE job' = job /\ Earning' = Earning
  BY <1>5, <1>12 DEF Capture, Decline
<1>13. ASSUME NEW u \in Users, AdminGrant(u) PROVE job' = job /\ Earning' = Earning
  BY <1>5, <1>13 DEF AdminGrant
<1> HIDE DEF Earning
<1> QED
  BY <1>4, <1>7, <1>8, <1>9, <1>10, <1>11, <1>12, <1>13 DEF Pay, PaymentStep

\* A payout that commits releases rows that are still locked.
LEMMA CommitPayoutIsARelease ==
  ASSUME IInv, LedgerFacts, NEW s \in Payouts, CommitPayout(s)
  PROVE  Ledger!LedgerNext
<1> DEFINE rows == {p \in payout[s] : tx[p].status = "locked"}
<1>1. /\ UNCHANGED <<order, job, firstPaid, due, settled, flagged>>
      /\ tx' = [p \in Pids |-> IF p \in rows THEN [tx[p] EXCEPT !.status = "released"] ELSE tx[p]]
      /\ credits' = [p \in Pids |-> IF p \in rows THEN credits[p] + 1 ELSE credits[p]]
  BY DEF CommitPayout, paymentVars
<1>2. rows \in SUBSET Pids /\ \A p \in rows : p \in due /\ tx[p].status = "locked"
  BY DEF IInv, CommissionTypeOK, LedgerFacts
<1> HIDE DEF rows
<1>3. tx' = [p \in Pids |->
                IF p \in rows THEN [status |-> "released", kind |-> tx[p].kind] ELSE tx[p]]
  <2>1. \A p \in Pids : [tx[p] EXCEPT !.status = "released"]
                        = [status |-> "released", kind |-> tx[p].kind]
    BY DEF IInv, CommissionTypeOK
  <2> QED
    BY <1>1, <2>1
<1>4. UNCHANGED <<Earning, Stopped>>
  BY <1>1 DEF Earning, Stopped, Payable
<1>5. Ledger!Release(rows)
  BY <1>1, <1>2, <1>3, <1>4 DEF Ledger!Release, Earning, Stopped
<1> QED
  BY <1>2, <1>5 DEF Ledger!LedgerNext

\* The handler of a refund that commits is the refund of the ledger.
LEMMA RefundReversesIsARefund ==
  ASSUME IInv, LedgerFacts, NEW p \in Pids, RefundReverses(p)
  PROVE  Ledger!LedgerNext
<1>1. /\ UNCHANGED <<order, firstPaid, due, credits>>
      /\ job' = IF refund[p] = "job" THEN [job EXCEPT ![p] = "skipped"] ELSE job
      /\ tx' = IF tx[p].status = "locked" THEN [tx EXCEPT ![p].status = "reversed"] ELSE tx
      /\ flagged' = flagged \cup (IF tx[p].status = "released" THEN {p} ELSE {})
      /\ settled' = [settled EXCEPT ![p] = IF refund[p] = "none" THEN "early" ELSE "stopped"]
      /\ refund[p] \in {"none", "job", "done"}
  BY DEF RefundReverses, Flag, IInv, CommissionTypeOK
<1>2. /\ job \in [Pids -> {"none", "pending", "completed", "skipped"}]
      /\ settled \in [Pids -> {"no", "early", "stopped"}]
  BY DEF IInv, CommissionTypeOK, PaymentTypeOK
<1>3. tx' = [tx EXCEPT ![p] = IF tx[p].status = "locked"
                              THEN [status |-> "reversed", kind |-> tx[p].kind] ELSE tx[p]]
  <2>1. tx \in [Pids -> [status : {"none", "locked", "released", "reversed"},
                         kind : {"none", "first", "recurring"}]]
    BY DEF IInv, CommissionTypeOK
  <2>2. CASE tx[p].status = "locked"
    <3>1. tx' = [tx EXCEPT ![p].status = "reversed"]
      BY <1>1, <2>2
    <3>2. tx'[p] = [tx[p] EXCEPT !.status = "reversed"]
      BY <2>1, <3>1
    <3>3. tx[p] \in [status : {"none", "locked", "released", "reversed"},
                     kind : {"none", "first", "recurring"}]
      BY <2>1
    <3>4. tx'[p] = [status |-> "reversed", kind |-> tx[p].kind]
      BY <3>2, <3>3
    <3>5. /\ tx' = [q \in Pids |-> tx'[q]]
          /\ \A q \in Pids \ {p} : tx'[q] = tx[q]
      BY <2>1, <3>1
    <3> QED
      BY <2>1, <2>2, <3>4, <3>5
  <2>3. CASE tx[p].status # "locked"
    BY <1>1, <2>1, <2>3
  <2> QED
    BY <2>2, <2>3
<1>4. Earning' = Earning
  BY <1>1 DEF Earning, Payable
<1>5. \/ /\ job[p] # "none"
         /\ job' = [job EXCEPT ![p] = IF job[p] = "pending" THEN "skipped" ELSE job[p]]
         /\ Stopped' = Stopped \cup {p}
      \/ /\ p \notin Stopped
         /\ UNCHANGED <<job, Stopped>>
  <2>1. CASE refund[p] = "none"
    <3>1. settled[p] # "stopped" /\ job' = job
      BY <1>1, <2>1 DEF LedgerFacts
    <3>2. \A q \in Pids : settled'[q] = "stopped" <=> settled[q] = "stopped"
      BY <1>1, <1>2, <2>1, <3>1
    <3> QED
      BY <3>1, <3>2 DEF Stopped
  <2>2. CASE refund[p] \in {"job", "done"}
    <3>1. /\ refund[p] = "job" => job[p] = "pending"
          /\ refund[p] = "done" => job[p] \in {"completed", "skipped"}
      BY DEF IInv, RefundsHold
    <3>2. \A q \in Pids : settled'[q] = "stopped" <=> (settled[q] = "stopped" \/ q = p)
      BY <1>1, <1>2, <2>2
    <3>3. Stopped' = Stopped \cup {p}
      BY <3>2 DEF Stopped
    <3>4. job' = [job EXCEPT ![p] = IF job[p] = "pending" THEN "skipped" ELSE job[p]]
      BY <1>1, <1>2, <2>2, <3>1
    <3> QED
      BY <2>2, <3>1, <3>3, <3>4
  <2> QED
    BY <1>1, <2>1, <2>2
<1>6. Ledger!Refund(p)
  BY <1>1, <1>3, <1>4, <1>5 DEF Ledger!Refund, Earning, Stopped
<1> QED
  BY <1>6 DEF Ledger!LedgerNext

\* What every other step of a transaction writes is its own until it commits.
LEMMA LedgerStep ==
  IInv /\ LedgerFacts /\ OutboxMatchesActivations /\ [Next]_vars
      => [Ledger!LedgerNext]_Ledger!commissionLedgerVars
<1> SUFFICES ASSUME IInv, LedgerFacts, OutboxMatchesActivations, [Next]_vars
             PROVE  [Ledger!LedgerNext]_Ledger!commissionLedgerVars
  OBVIOUS
<1>1. ASSUME UNCHANGED <<order, job, tx, firstPaid, due, credits, settled, flagged>>
      PROVE  UNCHANGED Ledger!commissionLedgerVars
  BY <1>1 DEF Ledger!commissionLedgerVars, Payable
<1>2. CASE Pay
  BY <1>2, PayIsAPurchase
<1>3. ASSUME NEW k \in Workers, WorkerStep(k)
      PROVE  \/ Ledger!LedgerNext
             \/ UNCHANGED <<order, job, tx, firstPaid, due, credits, settled, flagged>>
  BY <1>3, CommitJobsIsASettle
  DEF WorkerStep, LockJobs, HandleJob, AbortJobs, paymentVars
<1>4. ASSUME NEW s \in Payouts, PayoutStep(s)
      PROVE  \/ Ledger!LedgerNext
             \/ UNCHANGED <<order, job, tx, firstPaid, due, credits, settled, flagged>>
  BY <1>4, CommitPayoutIsARelease
  DEF PayoutStep, LockPayout, AbortPayout, paymentVars
<1>5. ASSUME NEW p \in Pids, PartRefundFlags(p) PROVE Ledger!LedgerNext
  <2>1. /\ UNCHANGED <<order, job, tx, firstPaid, due, credits, settled>>
        /\ tx[p].status \in {"locked", "released"}
        /\ flagged' = flagged \cup {p}
    BY <1>5 DEF PartRefundFlags, Flag, paymentVars
  <2>2. Ledger!PartRefund(p)
    BY <2>1 DEF Ledger!PartRefund, Payable
  <2> QED
    BY <2>2 DEF Ledger!LedgerNext
<1>6. ASSUME NEW p \in Pids, RefundStep(p)
      PROVE  \/ Ledger!LedgerNext
             \/ UNCHANGED <<order, job, tx, firstPaid, due, credits, settled, flagged>>
  BY <1>5, <1>6, RefundReversesIsARefund
  DEF RefundStep, Refund, RefundSkipsJob, RefundFails, paymentVars
<1>7. ASSUME Saturday PROVE Ledger!LedgerNext
  <2>1. Ledger!Saturday
    BY <1>7 DEF Saturday, Ledger!Saturday, Payable, paymentVars
  <2> QED
    BY <2>1 DEF Ledger!LedgerNext
<1>8. CASE UNCHANGED vars
  BY <1>1, <1>8 DEF vars, paymentVars, commissionVars
<1> QED
  BY <1>1, <1>2, <1>3, <1>4, <1>6, <1>7, <1>8 DEF Next

\* Both start with no order, no job and no commission.
LEMMA LedgerStart == Init => Ledger!LedgerInit /\ LedgerFacts
<1> SUFFICES ASSUME Init PROVE Ledger!LedgerInit /\ LedgerFacts
  OBVIOUS
<1>1. /\ job = [p \in Pids |-> "none"]
      /\ \A o \in Orders : order[o].status = "none"
      /\ tx = [p \in Pids |-> [status |-> "none", kind |-> "none"]]
      /\ firstPaid = {} /\ due = {} /\ flagged = {}
      /\ credits = [p \in Pids |-> 0]
      /\ \A p \in Pids : settled[p] = "no"
  BY DEF Init, PaymentInit, NoRow
<1>2. Earning = {} /\ Stopped = {}
  BY <1>1 DEF Earning, Stopped, Payable
<1>3. Ledger!LedgerInit
  BY <1>1, <1>2 DEF Ledger!LedgerInit, Earning, Stopped
<1>4. \A k \in Workers, p \in Pids : worker[k].out[p] = "todo"
  BY DEF Init, IdleWorker
<1>5. LedgerFacts
  BY <1>1, <1>4 DEF Init, LedgerFacts
<1> QED
  BY <1>3, <1>5

\* However batches, payouts and refunds overlap, wait, fail and are run again,
\* referral_commission.py does what a programme would do that settles, pays out
\* and reverses in single steps: no job is settled twice or at a rate its buyer
\* had not reached, nothing is released before its Saturday or twice, and no
\* refund that found its job leaves a commission to be released.
THEOREM CommissionLedgerImplementation == Spec => ImplementsCommissionLedger
<1>1. Spec => []LedgerFacts
  BY LedgerStart, StepLedgerFacts, CommissionInvariance, PTL DEF Spec
<1>2. Spec => []OutboxMatchesActivations
  BY CommissionImplementsPayments, OutboxAlways, PTL DEF ImplementsPayments
<1> QED
  BY <1>1, <1>2, LedgerStart, LedgerStep, CommissionInvariance, PTL
  DEF Spec, ImplementsCommissionLedger, Ledger!LedgerSpec
=============================================================================
