----------------------------- MODULE PosBilling -----------------------------
(***************************************************************************)
(* POS plans: the billing routes of routes/pos_routes.py turn a captured   *)
(* payment into a paid order, and services/pos_billing_activation.py       *)
(* applies a paid order to the subscription of its owner.                  *)
(*                                                                         *)
(* An activation is a transaction of four statements.  It locks the row of *)
(* its order, then claims or locks the row of the subscription; the time   *)
(* it counts from is read before the second lock, the expiry is compared   *)
(* with the time after it.                                                 *)
(***************************************************************************)
EXTENDS Integers, FiniteSets

CONSTANTS
    Owners,         \* users.id values
    Orders,         \* pos_billing_orders rows, one for each Razorpay order
    Pids,           \* Razorpay payment ids
    NoPid,          \* razorpay_payment_id before a payment is known
    OwnerOf,        \* [Orders -> Owners], owner_user_id
    PlanOf,         \* [Orders -> {"starter", "growth"}], pos_plan
    OrderOf,        \* [Pids -> Orders], the order an attempt belongs to
    Month,          \* length of a paid period
    Wait,           \* longest time a transaction waits (statement_timeout)
    MaxTime         \* bound: the clock stops there

VARIABLES
    bill,           \* [Orders -> [status, pid, activated]]
    sub,            \* [Owners -> [plan, expires]], pos_subscriptions; plan "none": no row
    act,            \* [Orders -> [pc, at, target]], the activation of an order
    now,            \* the time of datetime.utcnow()
    captured,       \* payments Razorpay has captured
    declined        \* payments Razorpay has reported failed

billingVars == <<bill, sub, act, now, captured, declined>>

Plans == {"starter", "growth"}

ASSUME PosAssumption ==
    /\ NoPid \notin Pids
    /\ OwnerOf \in [Orders -> Owners]
    /\ PlanOf \in [Orders -> Plans]
    /\ OrderOf \in [Pids -> Orders]
    /\ Month \in Nat \ {0}
    /\ Wait \in Nat
    /\ MaxTime \in Nat

NoSub == [plan |-> "none", expires |-> 0]
IdleAct == [pc |-> "idle", at |-> 0, target |-> NoSub]

BillingInit ==
    /\ bill = [o \in Orders |-> [status |-> "none", pid |-> NoPid, activated |-> FALSE]]
    /\ sub = [u \in Owners |-> NoSub]
    /\ act = [o \in Orders |-> IdleAct]
    /\ now = 0
    /\ captured = {}
    /\ declined = {}

Running(o) == act[o].pc # "idle"

-----------------------------------------------------------------------------
(* Orders and payments.                                                    *)

\* create_billing_order.
CreateOrder(o) ==
    /\ bill[o].status = "none"
    /\ bill' = [bill EXCEPT ![o] = [@ EXCEPT !.status = "created"]]
    /\ UNCHANGED <<sub, act, now, captured, declined>>

\* Razorpay.
Capture(p) ==
    /\ bill[OrderOf[p]].status # "none"
    /\ captured' = captured \cup {p}
    /\ UNCHANGED <<bill, sub, act, now, declined>>

Decline(p) ==
    /\ bill[OrderOf[p]].status # "none"
    /\ declined' = declined \cup {p}
    /\ UNCHANGED <<bill, sub, act, now, captured>>

\* _finalize_pos_payment, from verify or the webhook.  A row that is paid
\* stays as it is, for the same payment and for another one.
Finalize(p) ==
    LET o == OrderOf[p] IN
    /\ p \in captured
    /\ bill[o].status # "paid"
    /\ bill' = [bill EXCEPT ![o] = [@ EXCEPT !.status = "paid", !.pid = p]]
    /\ UNCHANGED <<sub, act, now, captured, declined>>

\* _mark_pos_billing_order_failed, from the webhook.
MarkFailed(p) ==
    LET o == OrderOf[p] IN
    /\ p \in declined
    /\ bill[o].status # "paid"
    /\ bill' = [bill EXCEPT ![o] = [@ EXCEPT !.status = "failed"]]
    /\ UNCHANGED <<sub, act, now, captured, declined>>

-----------------------------------------------------------------------------
(* activate_paid_billing_order.                                            *)

\* is_pos_subscription_active.
Active(s) == s.plan # "none" /\ s.expires >= now

\* Slip: a renewal counts from now.
Target_FromNow(s, plan, at) == [plan |-> plan, expires |-> at + Month]

\* compute_activation_target: what the subscription s becomes.  A renewal
\* extends it, an active growth plan ignores a starter order, and every other
\* case starts a period at the time read before the lock.
Target(s, plan, at) ==
    IF ~Active(s) \/ (s.plan = "starter" /\ plan = "growth")
    THEN [plan |-> plan, expires |-> at + Month]
    ELSE IF s.plan = plan THEN [s EXCEPT !.expires = @ + Month]
    ELSE s

\* Slip: activated_at is not looked at under the row lock.
BeginActivation_Again(o) ==
    /\ ~Running(o)
    /\ bill[o].status = "paid"
    /\ act' = [act EXCEPT ![o] = [pc |-> "order", at |-> now, target |-> NoSub]]
    /\ UNCHANGED <<bill, sub, now, captured, declined>>

\* The order FOR UPDATE, its checks, and now = utcnow().
BeginActivation(o) ==
    /\ ~Running(o)
    /\ bill[o].status = "paid"
    /\ ~bill[o].activated
    /\ act' = [act EXCEPT ![o] = [pc |-> "order", at |-> now, target |-> NoSub]]
    /\ UNCHANGED <<bill, sub, now, captured, declined>>

\* Other activations of the same owner that have written or locked its row.
Rivals(o) ==
    {q \in Orders \ {o} : OwnerOf[q] = OwnerOf[o] /\ act[q].pc \in {"inserted", "decided"}}

\* INSERT ... ON CONFLICT (owner_user_id) DO NOTHING: waits for an insert that
\* has not committed, and passes over a row that has.
ClaimRow(o) ==
    LET s == sub[OwnerOf[o]] IN
    /\ act[o].pc = "order"
    /\ \/ /\ s.plan = "none"
          /\ Rivals(o) = {}
          /\ act' = [act EXCEPT ![o] = [@ EXCEPT !.pc = "inserted",
                         !.target = [plan |-> PlanOf[o], expires |-> act[o].at + Month]]]
       \/ /\ s.plan # "none"
          /\ act' = [act EXCEPT ![o] = [@ EXCEPT !.pc = "row"]]
    /\ UNCHANGED <<bill, sub, now, captured, declined>>

\* Slip: the row of the subscription is read without FOR UPDATE.
ReadRow_NoLock(o) ==
    LET s == sub[OwnerOf[o]] IN
    /\ act[o].pc = "row"
    /\ act' = [act EXCEPT ![o] = [@ EXCEPT !.pc = "decided",
                   !.target = Target(s, PlanOf[o], act[o].at)]]
    /\ UNCHANGED <<bill, sub, now, captured, declined>>

\* The subscription FOR UPDATE, and the decision.
ReadRow(o) ==
    LET s == sub[OwnerOf[o]] IN
    /\ act[o].pc = "row"
    /\ Rivals(o) = {}
    /\ act' = [act EXCEPT ![o] = [@ EXCEPT !.pc = "decided",
                   !.target = Target(s, PlanOf[o], act[o].at)]]
    /\ UNCHANGED <<bill, sub, now, captured, declined>>

\* The write to the subscription, activated_at, COMMIT.
CommitActivation(o) ==
    /\ act[o].pc \in {"inserted", "decided"}
    /\ sub' = [sub EXCEPT ![OwnerOf[o]] = act[o].target]
    /\ bill' = [bill EXCEPT ![o] = [@ EXCEPT !.activated = TRUE]]
    /\ act' = [act EXCEPT ![o] = IdleAct]
    /\ UNCHANGED <<now, captured, declined>>

\* A crash or a timed-out wait: ROLLBACK.
AbortActivation(o) ==
    /\ Running(o)
    /\ act' = [act EXCEPT ![o] = IdleAct]
    /\ UNCHANGED <<bill, sub, now, captured, declined>>

\* Time passes; no transaction outlives its longest wait.
Tick ==
    /\ now < MaxTime
    /\ \A o \in Orders : Running(o) => now < act[o].at + Wait
    /\ now' = now + 1
    /\ UNCHANGED <<bill, sub, act, captured, declined>>

OrderStep(o) ==
    \/ CreateOrder(o)
    \/ BeginActivation(o) \/ ClaimRow(o) \/ ReadRow(o)
    \/ CommitActivation(o) \/ AbortActivation(o)

PaymentStep(p) == Capture(p) \/ Decline(p) \/ Finalize(p) \/ MarkFailed(p)

BillingNext ==
    \/ \E o \in Orders : OrderStep(o)
    \/ \E p \in Pids : PaymentStep(p)
    \/ Tick

BillingSpec == BillingInit /\ [][BillingNext]_billingVars

-----------------------------------------------------------------------------
(* Properties *)

PosTypeOK ==
    /\ bill \in [Orders -> [status : {"none", "created", "paid", "failed"},
                            pid : Pids \cup {NoPid}, activated : BOOLEAN]]
    /\ sub \in [Owners -> [plan : Plans \cup {"none"}, expires : Nat]]
    /\ act \in [Orders -> [pc : {"idle", "order", "inserted", "row", "decided"}, at : Nat,
                           target : [plan : Plans \cup {"none"}, expires : Nat]]]
    /\ now \in Nat
    /\ captured \subseteq Pids
    /\ declined \subseteq Pids

\* The orders that have been applied to the subscription of u.
Applied(u) == {o \in Orders : OwnerOf[o] = u /\ bill[o].activated}

\* A subscription exists exactly for the owners with an applied order, and
\* each applied order is paid with a payment captured for that very order,
\* whatever failed notices arrive late.
AppliedIsPaid ==
    /\ \A o \in Orders : bill[o].activated =>
          /\ bill[o].status = "paid"
          /\ bill[o].pid \in captured
          /\ OrderOf[bill[o].pid] = o
    /\ \A u \in Owners : sub[u].plan # "none" <=> Applied(u) # {}

\* No order is applied twice: however often and however concurrently it is
\* activated, an owner never has more time ahead than the periods paid for
\* (activate_paid_billing_order: "the subscription period is never applied
\* twice for one paid order").
NoFreeTime ==
    \A u \in Owners : sub[u].expires <= now + Month * Cardinality(Applied(u))

\* An owner who always buys the same plan loses no paid period to concurrent
\* activations, to a first row two of them insert, or to an expiry near the
\* end: each adds a period, less at most the wait for the row ("a customer
\* must never lose already-paid time").
NoTimeLost ==
    \A u \in Owners :
        (\A o \in Applied(u) : PlanOf[o] = sub[u].plan) =>
            sub[u].expires >= (Month - Wait) * Cardinality(Applied(u))

\* A paid order stays paid by its payment, an applied one stays applied
\* (_mark_pos_billing_order_failed: "never regresses a paid order").
PaidIsFinal ==
    [][\A o \in Orders : bill[o].status = "paid" =>
          /\ bill'[o].status = "paid"
          /\ bill'[o].pid = bill[o].pid
          /\ bill[o].activated => bill'[o].activated]_billingVars

\* While a growth plan is active no order shortens it or turns it into a
\* starter plan, also when the order was activated against an older state of
\* the subscription (compute_activation_target, "downgrade protection").
GrowthIsKept ==
    [][\A u \in Owners : sub[u].plan = "growth" /\ Active(sub[u]) =>
          sub'[u].plan = "growth" /\ sub'[u].expires >= sub[u].expires]_billingVars

\* Locks, waits, repeated and concurrent activations add nothing to the promise
\* of PosSubscription: a paid order is applied once, to the subscription as the
\* order before left it, and all of its effect is in the commit.
Subscription == INSTANCE PosSubscription WITH
    paid <- {o \in Orders : bill[o].status = "paid"},
    applied <- {o \in Orders : bill[o].activated}
ImplementsSubscription == Subscription!SubscriptionSpec
=============================================================================
