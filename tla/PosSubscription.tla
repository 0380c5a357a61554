-------------------------- MODULE PosSubscription --------------------------
(***************************************************************************)
(* What POS billing promises, with no transactions in it: every paid order *)
(* is applied to the subscription of its owner once, in one step, and the  *)
(* step is one of three.  Module PosBilling, which follows the activation  *)
(* statement by statement, is shown to implement this module.              *)
(*                                                                         *)
(* The one trace that the statements leave is the wait: the moment that an *)
(* order is applied as of can be up to the longest wait before the commit. *)
(***************************************************************************)
EXTENDS Integers

CONSTANTS
    Owners,         \* users.id values
    Orders,         \* pos_billing_orders rows
    OwnerOf,        \* [Orders -> Owners]
    PlanOf,         \* [Orders -> {"starter", "growth"}]
    Month,          \* length of a paid period
    Wait            \* longest time a transaction waits

VARIABLES
    sub,            \* [Owners -> [plan, expires]], pos_subscriptions; plan "none": no row
    paid,           \* orders that have been paid
    applied,        \* orders that have been applied
    now             \* the time

subscriptionVars == <<sub, paid, applied, now>>

SubscriptionInit ==
    /\ sub = [u \in Owners |-> [plan |-> "none", expires |-> 0]]
    /\ paid = {}
    /\ applied = {}
    /\ now = 0

Pay(o) ==
    /\ o \notin paid
    /\ paid' = paid \cup {o}
    /\ UNCHANGED <<sub, applied, now>>

\* The moments as of which an order can be applied now.
Moments == {at \in 0..now : now <= at + Wait}

\* A period of its own: the first one, one after an expiry, and an upgrade.
StartPeriod(o) ==
    LET s == sub[OwnerOf[o]] IN
    /\ \/ s.plan = "none"
       \/ s.expires < now
       \/ s.plan = "starter" /\ PlanOf[o] = "growth"
    /\ \E at \in Moments :
          sub' = [sub EXCEPT ![OwnerOf[o]] = [plan |-> PlanOf[o], expires |-> at + Month]]

\* A renewal adds a period to what is left.
Renew(o) ==
    LET s == sub[OwnerOf[o]] IN
    /\ s.plan = PlanOf[o]
    /\ now <= s.expires + Wait
    /\ sub' = [sub EXCEPT ![OwnerOf[o]] = [plan |-> s.plan, expires |-> s.expires + Month]]

\* A starter order takes nothing from a growth plan.
KeepGrowth(o) ==
    LET s == sub[OwnerOf[o]] IN
    /\ s.plan = "growth" /\ PlanOf[o] = "starter"
    /\ now <= s.expires + Wait
    /\ sub' = sub

Apply(o) ==
    /\ o \in paid \ applied
    /\ applied' = applied \cup {o}
    /\ StartPeriod(o) \/ Renew(o) \/ KeepGrowth(o)
    /\ UNCHANGED <<paid, now>>

TimePasses ==
    /\ now' = now + 1
    /\ UNCHANGED <<sub, paid, applied>>

SubscriptionNext ==
    \/ \E o \in Orders : Pay(o) \/ Apply(o)
    \/ TimePasses

SubscriptionSpec == SubscriptionInit /\ [][SubscriptionNext]_subscriptionVars
=============================================================================
