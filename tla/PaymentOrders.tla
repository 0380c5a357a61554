--------------------------- MODULE PaymentOrders ---------------------------
(***************************************************************************)
(* services/payment_service.py and routes/payment_routes.py: one purchase, *)
(* from the order to the subscription (or the extra listing slot) and the  *)
(* row of the commission outbox.                                           *)
(*                                                                         *)
(* Razorpay is external.  What it says never becomes false, and its        *)
(* webhooks, like the checks of verify-payment, reach the database at any  *)
(* later time, in any order, repeatedly or not at all: captured and        *)
(* declined only grow, and a handler may run whenever its notice exists.   *)
(***************************************************************************)
EXTENDS Integers, FiniteSets

CONSTANTS
    Users,          \* users.id values
    Orders,         \* Razorpay orders, each with its payments row
    Pids,           \* Razorpay payment ids, one for each attempt to pay
    NoPid,          \* payments.payment_id before a payment is known
    NoOrder,        \* the plan of a user that no order bought
    Buyer,          \* [Orders -> Users], payments.user_id
    OrderOf,        \* [Pids -> Orders], the order an attempt belongs to
    ExtraOrders     \* orders for one extra listing slot (EXTRA_BUSINESS_PLAN)

VARIABLES
    order,          \* [Orders -> row], payments
    grants,         \* [Orders -> Nat], times the purchase was written to users
    plan,           \* [Users -> Orders \cup {NoOrder}], users.plan and its expiry
    job,            \* [Pids -> status], referral_commission_jobs
    captured,       \* payments Razorpay has captured
    declined        \* payments Razorpay has reported failed or cancelled

paymentVars == <<order, grants, plan, job, captured, declined>>

ASSUME PaymentAssumption ==
    /\ NoPid \notin Pids
    /\ NoOrder \notin Orders
    /\ Buyer \in [Orders -> Users]
    /\ OrderOf \in [Pids -> Orders]
    /\ ExtraOrders \subseteq Orders

PaymentInit ==
    /\ order = [o \in Orders |-> [status |-> "none", pid |-> NoPid]]
    /\ grants = [o \in Orders |-> 0]
    /\ plan = [u \in Users |-> NoOrder]
    /\ job = [p \in Pids |-> "none"]
    /\ captured = {}
    /\ declined = {}

Activated(o) == order[o].status = "activated"
Subscriptions == Orders \ ExtraOrders

-----------------------------------------------------------------------------

\* create_order.  The lookup for an order to reuse is not locked, so a second
\* order of one buyer and plan can exist beside the first.
CreateOrder(o) ==
    /\ order[o].status = "none"
    /\ order' = [order EXCEPT ![o].status = "created"]
    /\ UNCHANGED <<grants, plan, job, captured, declined>>

\* Razorpay.  It may capture a later attempt of an order it has captured.
Capture(p) ==
    /\ order[OrderOf[p]].status # "none"
    /\ captured' = captured \cup {p}
    /\ UNCHANGED <<order, grants, plan, job, declined>>

Decline(p) ==
    /\ order[OrderOf[p]].status # "none"
    /\ declined' = declined \cup {p}
    /\ UNCHANGED <<order, grants, plan, job, captured>>

\* Slip: the status of the locked row is not looked at.
Recoverable_AnyStatus(o) == order[o].status # "none"

\* NEEDS_ACTIVATION, and FAILED_STATES because every caller allows recovery.
Recoverable(o) == order[o].status \in {"created", "failed"}

\* enqueue_referral_commission_job: ON CONFLICT (payment_id) DO NOTHING.
Enqueue(p) == job' = [job EXCEPT ![p] = IF @ = "none" THEN "pending" ELSE @]

\* _mark_activated.
MarkActivated(o, p) == order' = [order EXCEPT ![o] = [status |-> "activated", pid |-> p]]

\* Slip: the job is left to a later request.
Activate_NoJob(p) ==
    LET o == OrderOf[p] IN
    /\ p \in captured
    /\ o \in Subscriptions
    /\ Recoverable(o)
    /\ grants' = [grants EXCEPT ![o] = @ + 1]
    /\ plan' = [plan EXCEPT ![Buyer[o]] = o]
    /\ MarkActivated(o, p)
    /\ UNCHANGED <<job, captured, declined>>

\* finalize_paid_order of a row that waits to be activated.  The row lock is
\* held from the load to the commit, so it is one step.
Activate(p) ==
    LET o == OrderOf[p] IN
    /\ p \in captured
    /\ o \in Subscriptions
    /\ Recoverable(o)
    /\ Enqueue(p)
    /\ grants' = [grants EXCEPT ![o] = @ + 1]
    /\ plan' = [plan EXCEPT ![Buyer[o]] = o]
    /\ MarkActivated(o, p)
    /\ UNCHANGED <<captured, declined>>

\* finalize_paid_order of an activated row: a duplicate notice, or the capture
\* of another attempt, which leaves a job of its own.
Duplicate(p) ==
    /\ p \in captured
    /\ OrderOf[p] \in Subscriptions
    /\ Activated(OrderOf[p])
    /\ Enqueue(p)
    /\ UNCHANGED <<order, grants, plan, captured, declined>>

\* finalize_extra_business_order; an activated row is left as it is.
AddSlot(p) ==
    LET o == OrderOf[p] IN
    /\ p \in captured
    /\ o \in ExtraOrders
    /\ Recoverable(o)
    /\ grants' = [grants EXCEPT ![o] = @ + 1]
    /\ MarkActivated(o, p)
    /\ UNCHANGED <<plan, job, captured, declined>>

\* mark_payment_failed, from the webhook.
MarkFailed(p) ==
    LET o == OrderOf[p] IN
    /\ p \in declined
    /\ order[o].status # "none"
    /\ ~Activated(o)
    /\ order' = [order EXCEPT ![o].status = "failed"]
    /\ UNCHANGED <<grants, plan, job, captured, declined>>

\* activate_subscription and activate_business_power_for_user: an admin
\* overwrites the plan; no order, no job.  The reset to the free plan, by an
\* admin or at the expiry (routes/decorators.py), writes the same.
AdminGrant(u) ==
    /\ plan' = [plan EXCEPT ![u] = NoOrder]
    /\ UNCHANGED <<order, grants, job, captured, declined>>

\* The commission side settles a set of pending jobs (module Commission).
SettleJobs ==
    /\ \E done \in [{p \in Pids : job[p] = "pending"} -> {"pending", "completed", "skipped"}] :
          job' = [p \in Pids |-> IF job[p] = "pending" THEN done[p] ELSE job[p]]
    /\ UNCHANGED <<order, grants, plan, captured, declined>>

PaymentStep ==
    \/ \E o \in Orders : CreateOrder(o)
    \/ \E p \in Pids : Capture(p) \/ Decline(p) \/ Activate(p) \/ Duplicate(p)
                       \/ AddSlot(p) \/ MarkFailed(p)
    \/ \E u \in Users : AdminGrant(u)

PaymentNext == PaymentStep \/ SettleJobs

PaymentSpec == PaymentInit /\ [][PaymentNext]_paymentVars

-----------------------------------------------------------------------------
(* Properties *)

PaymentTypeOK ==
    /\ order \in [Orders -> [status : {"none", "created", "failed", "activated"},
                             pid : Pids \cup {NoPid}]]
    /\ grants \in [Orders -> Nat]
    /\ plan \in [Users -> Orders \cup {NoOrder}]
    /\ job \in [Pids -> {"none", "pending", "completed", "skipped"}]
    /\ captured \subseteq Pids
    /\ declined \subseteq Pids

\* An order is applied to its buyer at most once, and exactly when its row says
\* "activated": replayed, reordered and concurrent webhooks and verifications
\* neither extend a subscription nor add a second slot (finalize_paid_order:
\* "activate at most once").
AppliedOnce ==
    \A o \in Orders : grants[o] = IF Activated(o) THEN 1 ELSE 0

\* Nobody gets a plan or a slot for money that was not captured for that very
\* order, whatever failed notices came in between.
ActivatedIsPaid ==
    \A o \in Orders : Activated(o) =>
        /\ order[o].pid \in captured
        /\ OrderOf[order[o].pid] = o

\* The plan of a user was bought by that user with an activated subscription
\* order: an extra slot or another buyer's order never becomes a plan.
PlanIsBought ==
    \A u \in Users : plan[u] # NoOrder =>
        plan[u] \in Subscriptions /\ Buyer[plan[u]] = u /\ Activated(plan[u])

\* The outbox misses no activated subscription and holds nothing else: the job
\* is written in the transaction of the activation, only for captured payments
\* of an activated subscription order, never for an extra slot.
OutboxMatchesActivations ==
    /\ \A o \in Subscriptions : Activated(o) => job[order[o].pid] # "none"
    /\ \A p \in Pids : job[p] # "none" =>
          OrderOf[p] \in Subscriptions /\ Activated(OrderOf[p]) /\ p \in captured

\* A late or repeated notice never undoes an activation or gives it to another
\* payment (mark_payment_failed: "Never regresses activated rows").
ActivationIsFinal ==
    [][\A o \in Orders : Activated(o) => order'[o] = order[o]]_paymentVars
=============================================================================
