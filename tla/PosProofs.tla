------------------------------ MODULE PosProofs ------------------------------
(***************************************************************************)
(* Proofs about the two modules of the POS product, which share no state:  *)
(* PosBilling, for any owners, orders, payments and lengths of a period    *)
(* and of a wait; PosShop, for any threads, products and lengths of sales. *)
(***************************************************************************)
EXTENDS PosBilling, PosShop, FiniteSetTheorems, SequenceTheorems, TLAPS

(***************************************************************************)
(* POS billing.                                                            *)
(***************************************************************************)
USE PosAssumption

Writing(o) == act[o].pc \in {"inserted", "decided"}

\* A paid order names a payment that was captured for it; an applied one is paid.
PaidIsCaptured ==
    \A o \in Orders :
        /\ bill[o].status = "paid" => bill[o].pid \in captured /\ OrderOf[bill[o].pid] = o
        /\ bill[o].activated => bill[o].status = "paid"

\* An activation that runs has a paid order that is not applied yet, and no
\* longer than the longest wait.
RunsOnce ==
    \A o \in Orders : Running(o) =>
        /\ bill[o].status = "paid" /\ ~bill[o].activated
        /\ act[o].at <= now /\ now <= act[o].at + Wait

\* One activation of an owner writes at a time.
WriterAlone ==
    \A o, q \in Orders : Writing(o) /\ Writing(q) /\ OwnerOf[o] = OwnerOf[q] => o = q

\* What an activation has decided still fits the subscription when it commits.
NewPeriod(o) == [plan |-> PlanOf[o], expires |-> act[o].at + Month]
Fits(o, s) ==
    /\ act[o].pc = "row" => s.plan # "none"
    /\ act[o].pc = "inserted" => s.plan = "none" /\ act[o].target = NewPeriod(o)
    /\ act[o].pc = "decided" => s.plan # "none" /\
         \/ s.expires < now /\ s.expires < act[o].at + Wait /\ act[o].target = NewPeriod(o)
         \/ s.plan = "starter" /\ PlanOf[o] = "growth" /\ act[o].target = NewPeriod(o)
         \/ /\ s.plan = PlanOf[o] /\ act[o].at <= s.expires
            /\ act[o].target = [s EXCEPT !.expires = @ + Month]
         \/ /\ s.plan = "growth" /\ PlanOf[o] = "starter" /\ act[o].at <= s.expires
            /\ act[o].target = s
WriterKnows == \A o \in Orders : Fits(o, sub[OwnerOf[o]])

\* A subscription comes from the orders applied to it.
SubscriptionIsApplied ==
    \A u \in Owners :
        /\ IsFiniteSet(Applied(u))
        /\ sub[u].plan = "none" => Applied(u) = {}
        /\ sub[u].plan # "none" => \E o \in Applied(u) : PlanOf[o] = sub[u].plan

PosInv ==
    /\ PosTypeOK
    /\ PaidIsCaptured
    /\ RunsOnce
    /\ WriterAlone
    /\ WriterKnows
    /\ SubscriptionIsApplied
    /\ NoFreeTime
    /\ NoTimeLost

LEMMA PosInitInv == BillingInit => PosInv
<1> SUFFICES ASSUME BillingInit PROVE PosInv
  OBVIOUS
<1> USE DEF BillingInit, NoSub, IdleAct
<1>1. /\ bill \in [Orders -> [status : {"none", "created", "paid", "failed"},
                              pid : Pids \cup {NoPid}, activated : BOOLEAN]]
      /\ act \in [Orders -> [pc : {"idle", "order", "inserted", "row", "decided"}, at : Nat,
                             target : [plan : Plans \cup {"none"}, expires : Nat]]]
  OBVIOUS
<1>2. PosTypeOK
  BY <1>1 DEF PosTypeOK
<1>3. \A u \in Owners : Applied(u) = {} /\ IsFiniteSet(Applied(u)) /\ Cardinality(Applied(u)) = 0
  BY FS_EmptySet DEF Applied
<1>4. NoFreeTime /\ NoTimeLost
  BY <1>3 DEF NoFreeTime, NoTimeLost
<1> QED
  BY <1>2, <1>3, <1>4 DEF PosInv, PaidIsCaptured, RunsOnce, Running, WriterAlone, Writing, WriterKnows, Fits,
                          SubscriptionIsApplied

\* Periods add up.
LEMMA OneMore ==
  ASSUME NEW k \in Int, NEW n \in Nat
  PROVE  k * (n + 1) = k * n + k /\ k * n \in Int
  OBVIOUS

\* Steps of the payment side: no order is applied, no subscription changes.
LEMMA PaymentKeeps ==
  ASSUME PosInv, PosTypeOK', UNCHANGED <<sub, act, now>>, captured \subseteq captured',
         \A o \in Orders :
            /\ bill'[o].activated = bill[o].activated
            /\ bill[o].status = "paid" => bill'[o].status = "paid" /\ bill'[o].pid = bill[o].pid
            /\ bill[o].status # "paid" /\ bill'[o].status = "paid" =>
                 bill'[o].pid \in captured /\ OrderOf[bill'[o].pid] = o
  PROVE  PosInv'
<1> USE DEF PosInv
<1>1. \A u \in Owners : Applied(u)' = Applied(u)
  BY DEF Applied
<1>2. PaidIsCaptured' /\ RunsOnce'
  BY DEF PaidIsCaptured, RunsOnce, Running
<1>3. WriterAlone' /\ WriterKnows'
  BY DEF WriterAlone, Writing, WriterKnows, Fits, NewPeriod
<1>4. SubscriptionIsApplied' /\ NoFreeTime' /\ NoTimeLost'
  BY <1>1 DEF SubscriptionIsApplied, NoFreeTime, NoTimeLost
<1> QED
  BY <1>2, <1>3, <1>4

LEMMA OrdersKeep ==
  ASSUME PosInv, \/ \E o \in Orders : CreateOrder(o)
                 \/ \E p \in Pids : PaymentStep(p)
  PROVE  PosInv'
<1> USE DEF PosInv
<1>1. CASE \E o \in Orders : CreateOrder(o)
  <2> PICK o \in Orders : CreateOrder(o)
    BY <1>1
  <2>1. PosTypeOK' /\ \A q \in Orders : /\ bill'[q].activated = bill[q].activated
                                        /\ bill'[q].status = "paid" <=> bill[q].status = "paid"
                                        /\ bill'[q].pid = bill[q].pid
    BY DEF CreateOrder, PosTypeOK
  <2> QED
    BY <2>1, PaymentKeeps DEF CreateOrder
<1>2. CASE \E p \in Pids : Capture(p) \/ Decline(p)
  <2>1. PosTypeOK' /\ captured \subseteq captured' /\ UNCHANGED <<bill, sub, act, now>>
    BY <1>2 DEF Capture, Decline, PosTypeOK
  <2> QED
    BY <2>1, PaymentKeeps
<1>3. CASE \E p \in Pids : Finalize(p) \/ MarkFailed(p)
  <2> PICK p \in Pids : Finalize(p) \/ MarkFailed(p)
    BY <1>3
  <2> DEFINE o == OrderOf[p]
  <2>1. /\ o \in Orders /\ bill[o].status # "paid"
        /\ UNCHANGED <<sub, act, now, captured, declined>>
        /\ \/ p \in captured /\ bill' = [bill EXCEPT ![o] = [bill[o] EXCEPT !.status = "paid", !.pid = p]]
           \/ bill' = [bill EXCEPT ![o] = [bill[o] EXCEPT !.status = "failed"]]
    BY DEF Finalize, MarkFailed
  <2>2. bill[o] \in [status : {"none", "created", "paid", "failed"},
                     pid : Pids \cup {NoPid}, activated : BOOLEAN]
    BY <2>1 DEF PosTypeOK
  <2>3. /\ bill'[o] \in [status : {"none", "created", "paid", "failed"},
                         pid : Pids \cup {NoPid}, activated : BOOLEAN]
        /\ bill'[o].activated = bill[o].activated
        /\ bill'[o].status = "paid" => bill'[o].pid = p /\ p \in captured
        /\ \A q \in Orders \ {o} : bill'[q] = bill[q]
        /\ bill' \in [Orders -> [status : {"none", "created", "paid", "failed"},
                                 pid : Pids \cup {NoPid}, activated : BOOLEAN]]
    <3> HIDE DEF o
    <3>1. PICK b : /\ bill' = [bill EXCEPT ![o] = b]
                   /\ b \in [status : {"none", "created", "paid", "failed"},
                             pid : Pids \cup {NoPid}, activated : BOOLEAN]
                   /\ b.activated = bill[o].activated
                   /\ b.status = "paid" => b.pid = p /\ p \in captured
      <4>1. CASE bill' = [bill EXCEPT ![o] = [bill[o] EXCEPT !.status = "failed"]]
        <5> WITNESS [bill[o] EXCEPT !.status = "failed"]
        <5> QED
          BY <2>2, <4>1
      <4>2. CASE p \in captured /\ bill' = [bill EXCEPT ![o] = [bill[o] EXCEPT !.status = "paid", !.pid = p]]
        <5> WITNESS [bill[o] EXCEPT !.status = "paid", !.pid = p]
        <5> QED
          BY <2>2, <4>2
      <4> QED
        BY <2>1, <4>1, <4>2
    <3> QED
      BY <2>1, <3>1 DEF PosTypeOK
  <2>4. PosTypeOK'
    BY <2>1, <2>3 DEF PosTypeOK
  <2>5. \A q \in Orders :
          /\ bill'[q].activated = bill[q].activated
          /\ bill[q].status = "paid" => bill'[q].status = "paid" /\ bill'[q].pid = bill[q].pid
          /\ bill[q].status # "paid" /\ bill'[q].status = "paid" =>
               bill'[q].pid \in captured /\ OrderOf[bill'[q].pid] = q
    BY <2>1, <2>3
  <2> QED
    BY <2>1, <2>4, <2>5, PaymentKeeps
<1> QED
  BY <1>1, <1>2, <1>3 DEF PaymentStep

\* Steps of one activation that write nothing yet.
LEMMA ActivationKeeps ==
  ASSUME PosInv, NEW o \in Orders, NEW a, act' = [act EXCEPT ![o] = a],
         a \in [pc : {"idle", "order", "inserted", "row", "decided"}, at : Nat,
                target : [plan : Plans \cup {"none"}, expires : Nat]],
         UNCHANGED <<bill, sub, now, captured, declined>>,
         a.pc # "idle" => /\ bill[o].status = "paid" /\ ~bill[o].activated
                          /\ a.at <= now /\ now <= a.at + Wait,
         a.pc \in {"inserted", "decided"} => Rivals(o) = {},
         Fits(o, sub[OwnerOf[o]])'
  PROVE  PosInv'
<1> USE DEF PosInv
<1>1. act'[o] = a /\ \A q \in Orders \ {o} : act'[q] = act[q]
  BY DEF PosTypeOK
<1>2. PosTypeOK'
  BY DEF PosTypeOK
<1>3. PaidIsCaptured' /\ RunsOnce'
  BY <1>1 DEF PaidIsCaptured, RunsOnce, Running
<1>4. WriterAlone'
  BY <1>1 DEF WriterAlone, Writing, Rivals
<1>5. WriterKnows'
  BY <1>1 DEF WriterKnows, Fits, NewPeriod
<1>6. \A u \in Owners : Applied(u)' = Applied(u)
  BY DEF Applied
<1>7. SubscriptionIsApplied' /\ NoFreeTime' /\ NoTimeLost'
  BY <1>6 DEF SubscriptionIsApplied, NoFreeTime, NoTimeLost
<1> QED
  BY <1>2, <1>3, <1>4, <1>5, <1>7

LEMMA BeginActivationKeeps ==
  ASSUME PosInv, NEW o \in Orders, BeginActivation(o)
  PROVE  PosInv'
<1> DEFINE a == [pc |-> "order", at |-> now, target |-> NoSub]
<1>1. /\ act' = [act EXCEPT ![o] = a]
      /\ UNCHANGED <<bill, sub, now, captured, declined>>
      /\ bill[o].status = "paid" /\ ~bill[o].activated
  BY DEF BeginActivation
<1>2. /\ a \in [pc : {"idle", "order", "inserted", "row", "decided"}, at : Nat,
                target : [plan : Plans \cup {"none"}, expires : Nat]]
      /\ a.pc = "order" /\ a.at <= now /\ now <= a.at + Wait
  BY DEF PosInv, PosTypeOK, NoSub
<1> HIDE DEF a
<1>3. Fits(o, sub[OwnerOf[o]])'
  BY <1>1, <1>2 DEF Fits, PosInv, PosTypeOK
<1> QED
  BY <1>1, <1>2, <1>3, ActivationKeeps

LEMMA ClaimRowKeeps ==
  ASSUME PosInv, NEW o \in Orders, ClaimRow(o)
  PROVE  PosInv'
<1> DEFINE s == sub[OwnerOf[o]]
<1>1. /\ act[o].pc = "order"
      /\ act[o] \in [pc : {"idle", "order", "inserted", "row", "decided"}, at : Nat,
                     target : [plan : Plans \cup {"none"}, expires : Nat]]
      /\ act \in [Orders -> [pc : {"idle", "order", "inserted", "row", "decided"}, at : Nat,
                             target : [plan : Plans \cup {"none"}, expires : Nat]]]
      /\ bill[o].status = "paid" /\ ~bill[o].activated /\ act[o].at <= now /\ now <= act[o].at + Wait
      /\ UNCHANGED <<bill, sub, now, captured, declined>>
  BY DEF ClaimRow, PosInv, PosTypeOK, RunsOnce, Running
<1>2. CASE s.plan = "none"
  <2> DEFINE a == [act[o] EXCEPT !.pc = "inserted", !.target = NewPeriod(o)]
  <2>1. /\ a \in [pc : {"idle", "order", "inserted", "row", "decided"}, at : Nat,
                  target : [plan : Plans \cup {"none"}, expires : Nat]]
        /\ a.pc = "inserted" /\ a.at = act[o].at /\ a.target = NewPeriod(o)
    <3>1. NewPeriod(o) \in [plan : Plans \cup {"none"}, expires : Nat]
      BY <1>1 DEF NewPeriod
    <3> QED
      BY <1>1, <3>1
  <2>2. act' = [act EXCEPT ![o] = a] /\ Rivals(o) = {}
    BY <1>2 DEF ClaimRow, NewPeriod
  <2> HIDE DEF a
  <2>3. act'[o] = a
    BY <1>1, <2>2
  <2>4. Fits(o, sub[OwnerOf[o]])'
    BY <1>1, <1>2, <2>1, <2>3 DEF Fits, NewPeriod
  <2> QED
    BY <1>1, <2>1, <2>2, <2>4, ActivationKeeps
<1>3. CASE s.plan # "none"
  <2> DEFINE a == [act[o] EXCEPT !.pc = "row"]
  <2>1. /\ a \in [pc : {"idle", "order", "inserted", "row", "decided"}, at : Nat,
                  target : [plan : Plans \cup {"none"}, expires : Nat]]
        /\ a.pc = "row" /\ a.at = act[o].at
    BY <1>1
  <2>2. act' = [act EXCEPT ![o] = a]
    BY <1>3 DEF ClaimRow
  <2> HIDE DEF a
  <2>3. act'[o] = a
    BY <1>1, <2>2
  <2>4. Fits(o, sub[OwnerOf[o]])'
    BY <1>1, <1>3, <2>1, <2>3 DEF Fits
  <2> QED
    BY <1>1, <2>1, <2>2, <2>4, ActivationKeeps
<1> QED
  BY <1>2, <1>3

LEMMA ReadRowKeeps ==
  ASSUME PosInv, NEW o \in Orders, ReadRow(o)
  PROVE  PosInv'
<1> DEFINE s == sub[OwnerOf[o]]
           target == Target(s, PlanOf[o], act[o].at)
           a == [act[o] EXCEPT !.pc = "decided", !.target = target]
<1>1. /\ act[o].pc = "row" /\ Rivals(o) = {} /\ act' = [act EXCEPT ![o] = a]
      /\ act[o] \in [pc : {"idle", "order", "inserted", "row", "decided"}, at : Nat,
                     target : [plan : Plans \cup {"none"}, expires : Nat]]
      /\ act \in [Orders -> [pc : {"idle", "order", "inserted", "row", "decided"}, at : Nat,
                             target : [plan : Plans \cup {"none"}, expires : Nat]]]
      /\ bill[o].status = "paid" /\ ~bill[o].activated /\ act[o].at <= now /\ now <= act[o].at + Wait
      /\ UNCHANGED <<bill, sub, now, captured, declined>>
      /\ now \in Nat /\ act[o].at \in Nat
  BY DEF ReadRow, PosInv, PosTypeOK, RunsOnce, Running
<1>2. s \in [plan : Plans \cup {"none"}, expires : Nat] /\ s.plan # "none" /\ PlanOf[o] \in Plans
  BY <1>1 DEF PosInv, PosTypeOK, WriterKnows, Fits
<1>3. /\ target \in [plan : Plans \cup {"none"}, expires : Nat]
      /\ \/ s.expires < now /\ target = NewPeriod(o)
         \/ s.plan = "starter" /\ PlanOf[o] = "growth" /\ target = NewPeriod(o)
         \/ s.plan = PlanOf[o] /\ act[o].at <= s.expires /\ target = [s EXCEPT !.expires = @ + Month]
         \/ s.plan = "growth" /\ PlanOf[o] = "starter" /\ act[o].at <= s.expires /\ target = s
  <2> HIDE DEF s
  <2>1. CASE ~Active(s)
    BY <1>1, <1>2, <2>1 DEF Target, Active, NewPeriod
  <2>2. CASE Active(s) /\ s.plan = "starter" /\ PlanOf[o] = "growth"
    BY <1>1, <1>2, <2>2 DEF Target, NewPeriod
  <2>3. CASE Active(s) /\ s.plan = PlanOf[o]
    BY <1>1, <1>2, <2>3 DEF Target, Active, Plans
  <2>4. CASE Active(s) /\ s.plan = "growth" /\ PlanOf[o] = "starter"
    BY <1>1, <1>2, <2>4 DEF Target, Active
  <2> QED
    BY <1>2, <2>1, <2>2, <2>3, <2>4 DEF Plans
<1> HIDE DEF target
<1>4. /\ a \in [pc : {"idle", "order", "inserted", "row", "decided"}, at : Nat,
                target : [plan : Plans \cup {"none"}, expires : Nat]]
      /\ a.pc = "decided" /\ a.at = act[o].at /\ a.target = target
  BY <1>1, <1>3
<1> HIDE DEF a
<1>5. act'[o] = a
  BY <1>1
<1>6. Fits(o, sub[OwnerOf[o]])'
  <2>1. NewPeriod(o)' = NewPeriod(o)
    BY <1>4, <1>5 DEF NewPeriod
  <2> QED
    BY <1>1, <1>2, <1>3, <1>4, <1>5, <2>1 DEF Fits
<1> QED
  BY <1>1, <1>4, <1>6, ActivationKeeps

LEMMA AbortActivationKeeps ==
  ASSUME PosInv, NEW o \in Orders, AbortActivation(o)
  PROVE  PosInv'
<1>1. /\ act' = [act EXCEPT ![o] = IdleAct]
      /\ UNCHANGED <<bill, sub, now, captured, declined>>
  BY DEF AbortActivation
<1>2. /\ IdleAct \in [pc : {"idle", "order", "inserted", "row", "decided"}, at : Nat,
                      target : [plan : Plans \cup {"none"}, expires : Nat]]
      /\ IdleAct.pc = "idle"
  BY DEF IdleAct, NoSub
<1>3. Fits(o, sub[OwnerOf[o]])'
  BY <1>1, <1>2 DEF Fits, PosInv, PosTypeOK
<1> QED
  BY <1>1, <1>2, <1>3, ActivationKeeps

LEMMA TickKeeps == PosInv /\ Tick => PosInv'
<1> SUFFICES ASSUME PosInv, Tick PROVE PosInv'
  OBVIOUS
<1> USE DEF PosInv
<1>1. /\ now' = now + 1 /\ now \in Nat /\ UNCHANGED <<bill, sub, act, captured, declined>>
      /\ \A o \in Orders : Running(o) => now < act[o].at + Wait
      /\ \A o \in Orders : act[o].at \in Nat
      /\ \A u \in Owners : sub[u].expires \in Nat
  BY DEF Tick, PosTypeOK
<1>2. PosTypeOK' /\ PaidIsCaptured' /\ WriterAlone'
  BY <1>1 DEF PosTypeOK, PaidIsCaptured, WriterAlone, Writing
<1>3. RunsOnce'
  BY <1>1 DEF RunsOnce, Running
<1>4. WriterKnows'
  BY <1>1 DEF WriterKnows, Fits, NewPeriod
<1>5. \A u \in Owners : Applied(u)' = Applied(u)
  BY <1>1 DEF Applied
<1>6. \A u \in Owners : Month * Cardinality(Applied(u)) \in Nat
  BY FS_CardinalityType DEF SubscriptionIsApplied
<1>7. SubscriptionIsApplied' /\ NoTimeLost'
  BY <1>1, <1>5 DEF SubscriptionIsApplied, NoTimeLost
<1>8. NoFreeTime'
  BY <1>1, <1>5, <1>6 DEF NoFreeTime
<1> QED
  BY <1>2, <1>3, <1>4, <1>7, <1>8

\* What a commit writes: one more order is applied, and the subscription of its
\* owner becomes the target that was decided.
LEMMA Committed ==
  ASSUME PosInv, NEW o \in Orders, CommitActivation(o)
  PROVE  /\ sub[OwnerOf[o]] \in [plan : Plans \cup {"none"}, expires : Nat]
         /\ act[o].target \in [plan : Plans, expires : Nat]
         /\ sub'[OwnerOf[o]] = act[o].target
         /\ \A u \in Owners \ {OwnerOf[o]} : sub'[u] = sub[u]
         /\ \A u \in Owners \ {OwnerOf[o]} : Applied(u)' = Applied(u)
         /\ o \notin Applied(OwnerOf[o])
         /\ Applied(OwnerOf[o])' = Applied(OwnerOf[o]) \cup {o}
         /\ \A q \in Orders : bill'[q].status = bill[q].status /\ bill'[q].pid = bill[q].pid
         /\ bill'[o].activated /\ \A q \in Orders \ {o} : bill'[q] = bill[q]
         /\ act'[o] = IdleAct /\ \A q \in Orders \ {o} : act'[q] = act[q]
         /\ PosTypeOK'
<1> USE DEF PosInv
<1>1. /\ act[o].pc \in {"inserted", "decided"}
      /\ sub' = [sub EXCEPT ![OwnerOf[o]] = act[o].target]
      /\ bill' = [bill EXCEPT ![o] = [bill[o] EXCEPT !.activated = TRUE]]
      /\ act' = [act EXCEPT ![o] = IdleAct]
      /\ UNCHANGED <<now, captured, declined>>
  BY DEF CommitActivation
<1>2. /\ bill[o] \in [status : {"none", "created", "paid", "failed"},
                      pid : Pids \cup {NoPid}, activated : BOOLEAN]
      /\ sub[OwnerOf[o]] \in [plan : Plans \cup {"none"}, expires : Nat]
      /\ act[o].at \in Nat /\ PlanOf[o] \in Plans
  BY DEF PosTypeOK
<1>3. act[o].target \in [plan : Plans, expires : Nat]
  <2>1. /\ NewPeriod(o) \in [plan : Plans, expires : Nat]
        /\ sub[OwnerOf[o]].plan # "none" => sub[OwnerOf[o]] \in [plan : Plans, expires : Nat]
    BY <1>2 DEF NewPeriod
  <2>2. sub[OwnerOf[o]].plan # "none" =>
           [sub[OwnerOf[o]] EXCEPT !.expires = @ + Month] \in [plan : Plans, expires : Nat]
    BY <1>2
  <2>3. Fits(o, sub[OwnerOf[o]])
    BY DEF WriterKnows
  <2> QED
    BY <1>1, <2>1, <2>2, <2>3 DEF Fits
<1>4. /\ sub'[OwnerOf[o]] = act[o].target
      /\ \A u \in Owners \ {OwnerOf[o]} : sub'[u] = sub[u]
      /\ sub' \in [Owners -> [plan : Plans \cup {"none"}, expires : Nat]]
  BY <1>1, <1>3 DEF PosTypeOK
<1>5. /\ [bill[o] EXCEPT !.activated = TRUE] \in [status : {"none", "created", "paid", "failed"},
                                                 pid : Pids \cup {NoPid}, activated : BOOLEAN]
      /\ bill'[o] = [bill[o] EXCEPT !.activated = TRUE]
      /\ \A q \in Orders \ {o} : bill'[q] = bill[q]
  BY <1>1, <1>2 DEF PosTypeOK
<1>6. \A q \in Orders : /\ bill'[q].status = bill[q].status /\ bill'[q].pid = bill[q].pid
                        /\ bill'[q].activated <=> q = o \/ bill[q].activated
  BY <1>2, <1>5
<1>7. /\ act'[o] = IdleAct /\ \A q \in Orders \ {o} : act'[q] = act[q]
      /\ act' \in [Orders -> [pc : {"idle", "order", "inserted", "row", "decided"}, at : Nat,
                              target : [plan : Plans \cup {"none"}, expires : Nat]]]
  BY <1>1 DEF PosTypeOK, IdleAct, NoSub
<1>8. PosTypeOK'
  BY <1>1, <1>4, <1>5, <1>7 DEF PosTypeOK
<1>9. ~bill[o].activated
  BY <1>1 DEF RunsOnce, Running
<1>10. /\ \A u \in Owners \ {OwnerOf[o]} : Applied(u)' = Applied(u)
       /\ o \notin Applied(OwnerOf[o])
       /\ Applied(OwnerOf[o])' = Applied(OwnerOf[o]) \cup {o}
  BY <1>6, <1>9 DEF Applied
<1> QED
  BY <1>2, <1>3, <1>4, <1>5, <1>6, <1>7, <1>8, <1>10

LEMMA CommitActivationKeeps ==
  ASSUME PosInv, NEW o \in Orders, CommitActivation(o)
  PROVE  PosInv'
<1> USE DEF PosInv
<1> DEFINE u == OwnerOf[o]
           s == sub[u]
           n == Cardinality(Applied(u))
           target == act[o].target
<1>1. /\ UNCHANGED <<now, captured, declined>> /\ now \in Nat
      /\ act[o].pc \in {"inserted", "decided"}
      /\ act[o].at \in Nat /\ act[o].at <= now /\ now <= act[o].at + Wait
      /\ Fits(o, s) /\ u \in Owners
  BY DEF CommitActivation, PosTypeOK, RunsOnce, Running, WriterKnows
<1>2. PaidIsCaptured' /\ RunsOnce'
  BY <1>1, Committed DEF PaidIsCaptured, RunsOnce, Running, IdleAct
<1>3. WriterAlone'
  BY Committed DEF WriterAlone, Writing, IdleAct
<1>4. WriterKnows'
  <2> SUFFICES ASSUME NEW q \in Orders \ {o}, OwnerOf[q] = u PROVE Fits(q, sub[u])'
    BY <1>1, Committed DEF WriterKnows, Fits, NewPeriod, IdleAct
  <2>1. act[q].pc \notin {"inserted", "decided"}
    BY <1>1 DEF WriterAlone, Writing
  <2> QED
    BY <2>1, Committed DEF Fits, Plans
<1>5. IsFiniteSet(Applied(u)) /\ IsFiniteSet(Applied(u))' /\ Cardinality(Applied(u))' = n + 1 /\ n \in Nat
  BY <1>1, Committed, FS_AddElement, FS_CardinalityType DEF SubscriptionIsApplied
<1>6. /\ PlanOf[o] \in Plans /\ NewPeriod(o).plan = PlanOf[o] /\ NewPeriod(o).expires = act[o].at + Month
      /\ s \in [plan : Plans \cup {"none"}, expires : Nat]
      /\ [s EXCEPT !.expires = @ + Month].plan = s.plan
      /\ [s EXCEPT !.expires = @ + Month].expires = s.expires + Month
  BY <1>1, Committed DEF NewPeriod
<1>7. SubscriptionIsApplied'
  <2>1. sub'[u].plan # "none"
    BY Committed DEF Plans
  <2>2. \E q \in Applied(u)' : PlanOf[q] = sub'[u].plan
    <3>1. target.plan = PlanOf[o] \/ (s.plan # "none" /\ target.plan = s.plan)
      BY <1>1, <1>6 DEF Fits
    <3> QED
      BY <1>1, <3>1, Committed DEF SubscriptionIsApplied
  <2> QED
    BY <1>5, <2>1, <2>2, Committed DEF SubscriptionIsApplied
<1>8. NoFreeTime'
  <2>1. Month * (n + 1) = Month * n + Month /\ Month * n \in Nat
    BY <1>5, OneMore
  <2>2. s.expires <= now + Month * n
    BY <1>1 DEF NoFreeTime
  <2>3. target.expires <= now + Month * n + Month
    <3> HIDE DEF u, s, n, target
    <3>1. target.expires = act[o].at + Month \/ target.expires = s.expires + Month
          \/ target.expires = s.expires
      BY <1>1, <1>6 DEF Fits, target
    <3> QED
      BY <1>1, <1>6, <2>1, <2>2, <3>1
  <2> QED
    BY <1>1, <1>5, <2>1, <2>3, Committed DEF NoFreeTime
<1>9. NoTimeLost'
  <2> DEFINE k == Month - Wait
  <2>1. k \in Int /\ k <= Month
    OBVIOUS
  <2>2. k * (n + 1) = k * n + k /\ k * n \in Int
    BY <1>5, <2>1, OneMore
  <2> SUFFICES ASSUME \A q \in Applied(u)' : PlanOf[q] = sub'[u].plan
               PROVE  target.expires >= k * (n + 1)
    BY <1>1, <1>5, Committed DEF NoTimeLost
  <2>3. PlanOf[o] = target.plan /\ \A q \in Applied(u) : PlanOf[q] = target.plan
    BY Committed
  <2>4. CASE act[o].pc = "inserted"
    <3>1. Applied(u) = {}
      BY <1>1, <2>4 DEF Fits, SubscriptionIsApplied
    <3>2. n = 0
      BY <3>1, FS_EmptySet
    <3>3. target.expires = act[o].at + Month
      BY <1>6, <1>1, <2>4 DEF Fits
    <3> QED
      BY <1>1, <2>1, <2>2, <3>2, <3>3
  <2>5. CASE act[o].pc = "decided"
    <3>1. s.plan = target.plan
      BY <1>1, <2>3, <2>5 DEF Fits, SubscriptionIsApplied
    <3>2. s.expires >= k * n
      BY <1>1, <2>3, <3>1 DEF NoTimeLost
    <3>3. \/ s.expires < act[o].at + Wait /\ target.expires = act[o].at + Month
          \/ target.expires = s.expires + Month
      BY <1>1, <1>6, <2>3, <2>5, <3>1 DEF Fits
    <3> HIDE DEF n, s, target
    <3> QED
      BY <1>1, <1>5, <1>6, <2>1, <2>2, <3>2, <3>3
  <2> QED
    BY <1>1, <2>4, <2>5
<1> QED
  BY <1>2, <1>3, <1>4, <1>7, <1>8, <1>9, Committed

\* The inductive invariant of POS billing.
THEOREM PosInvariance == BillingSpec => []PosInv
<1>1. PosInv /\ [BillingNext]_billingVars => PosInv'
  <2> SUFFICES ASSUME PosInv, [BillingNext]_billingVars PROVE PosInv'
    OBVIOUS
  <2>1. CASE UNCHANGED billingVars
    <3>1. \A u \in Owners : Applied(u)' = Applied(u)
      BY <2>1 DEF billingVars, Applied
    <3> QED
      BY <2>1, <3>1 DEF billingVars, PosInv, PosTypeOK, PaidIsCaptured, RunsOnce, Running, WriterAlone, Writing,
                        WriterKnows, Fits, NewPeriod, SubscriptionIsApplied, NoFreeTime, NoTimeLost
  <2>2. CASE BillingNext
    BY <2>2, OrdersKeep, BeginActivationKeeps, ClaimRowKeeps, ReadRowKeeps, CommitActivationKeeps,
       AbortActivationKeeps, TickKeeps DEF BillingNext, OrderStep
  <2> QED
    BY <2>1, <2>2
<1> QED
  BY <1>1, PosInitInv, PTL DEF BillingSpec

\* An applied order is paid with a payment captured for that order, and a
\* subscription exists exactly for the owners of applied orders.
THEOREM AppliedIsPaidAlways == BillingSpec => []AppliedIsPaid
<1>1. PosInv => AppliedIsPaid
  BY DEF PosInv, AppliedIsPaid, PaidIsCaptured, SubscriptionIsApplied
<1> QED
  BY <1>1, PosInvariance, PTL

\* No order is applied twice (activate_paid_billing_order).
THEOREM NoFreeTimeAlways == BillingSpec => []NoFreeTime
  BY PosInvariance, PTL DEF PosInv

\* Nobody loses a paid period to concurrent activations, but for the wait.
THEOREM NoTimeLostAlways == BillingSpec => []NoTimeLost
  BY PosInvariance, PTL DEF PosInv

\* A paid order stays paid, an applied one applied
\* (_mark_pos_billing_order_failed, _finalize_pos_payment).
THEOREM PaidIsFinalAlways == BillingSpec => PaidIsFinal
<1>1. PosInv /\ [BillingNext]_billingVars =>
        [\A o \in Orders : bill[o].status = "paid" =>
           /\ bill'[o].status = "paid"
           /\ bill'[o].pid = bill[o].pid
           /\ bill[o].activated => bill'[o].activated]_billingVars
  <2> SUFFICES ASSUME PosInv, BillingNext, NEW o \in Orders, bill[o].status = "paid"
               PROVE  /\ bill'[o].status = "paid"
                      /\ bill'[o].pid = bill[o].pid
                      /\ bill[o].activated => bill'[o].activated
    OBVIOUS
  <2>1. CASE \E q \in Orders : CreateOrder(q)
    BY <2>1 DEF CreateOrder, PosInv, PosTypeOK
  <2>2. CASE \E p \in Pids : Finalize(p) \/ MarkFailed(p)
    <3>1. bill'[o] = bill[o]
      BY <2>2 DEF Finalize, MarkFailed, PosInv, PosTypeOK
    <3> QED
      BY <3>1
  <2>3. CASE \E q \in Orders : CommitActivation(q)
    BY <2>3, Committed
  <2>4. CASE UNCHANGED bill
    BY <2>4
  <2> QED
    BY <2>1, <2>2, <2>3, <2>4 DEF BillingNext, OrderStep, PaymentStep, Capture, Decline, BeginActivation, ClaimRow,
                                  ReadRow, AbortActivation, Tick
<1> QED
  BY <1>1, PosInvariance, PTL DEF BillingSpec, PaidIsFinal

\* While a growth plan is active no order shortens or downgrades it
\* (compute_activation_target).
THEOREM GrowthIsKeptAlways == BillingSpec => GrowthIsKept
<1>1. PosInv /\ [BillingNext]_billingVars =>
        [\A u \in Owners : sub[u].plan = "growth" /\ Active(sub[u]) =>
           sub'[u].plan = "growth" /\ sub'[u].expires >= sub[u].expires]_billingVars
  <2> SUFFICES ASSUME PosInv, BillingNext, NEW u \in Owners, sub[u].plan = "growth", Active(sub[u])
               PROVE  sub'[u].plan = "growth" /\ sub'[u].expires >= sub[u].expires
    OBVIOUS
  <2>0. sub[u] \in [plan : Plans \cup {"none"}, expires : Nat]
    BY DEF PosInv, PosTypeOK
  <2>1. CASE \E o \in Orders : CommitActivation(o) /\ OwnerOf[o] = u
    <3> PICK o \in Orders : CommitActivation(o) /\ OwnerOf[o] = u
      BY <2>1
    <3>1. /\ Fits(o, sub[u]) /\ act[o].pc \in {"inserted", "decided"}
          /\ sub'[u] = act[o].target /\ sub[u].expires >= now /\ now \in Nat
      BY Committed DEF PosInv, PosTypeOK, WriterKnows, CommitActivation, Active
    <3>2. \/ act[o].target = [sub[u] EXCEPT !.expires = @ + Month]
          \/ act[o].target = sub[u]
      BY <2>0, <3>1 DEF Fits
    <3> QED
      BY <2>0, <3>1, <3>2
  <2>2. CASE sub'[u] = sub[u]
    BY <2>0, <2>2
  <2>3. \A o \in Orders : CommitActivation(o) /\ OwnerOf[o] # u => sub'[u] = sub[u]
    BY Committed
  <2> QED
    BY <2>1, <2>2, <2>3 DEF BillingNext, OrderStep, PaymentStep, CreateOrder, Capture, Decline, Finalize, MarkFailed,
                            BeginActivation, ClaimRow, ReadRow, AbortActivation, Tick
<1> QED
  BY <1>1, PosInvariance, PTL DEF BillingSpec, GrowthIsKept

-----------------------------------------------------------------------------
(* The refinement: a commit applies its order in one step of               *)
(* PosSubscription, as of the moment that the activation read; a captured  *)
(* payment pays it, and time passes in both.                               *)

PaidOrders == {o \in Orders : bill[o].status = "paid"}
AppliedOrders == {o \in Orders : bill[o].activated}

LEMMA CommitApplies ==
  ASSUME PosInv, NEW o \in Orders, CommitActivation(o)
  PROVE  Subscription!Apply(o)
<1> DEFINE u == OwnerOf[o]
           s == sub[u]
           at == act[o].at
           target == act[o].target
<1>1. /\ UNCHANGED now /\ now \in Nat /\ u \in Owners /\ Fits(o, s)
      /\ at \in Nat /\ at <= now /\ now <= at + Wait
      /\ act[o].pc \in {"inserted", "decided"}
      /\ bill[o].status = "paid" /\ ~bill[o].activated
      /\ sub' = [sub EXCEPT ![u] = target] /\ sub \in [Owners -> [plan : Plans \cup {"none"}, expires : Nat]]
  BY DEF CommitActivation, PosInv, PosTypeOK, RunsOnce, Running, WriterKnows
<1>2. s \in [plan : Plans \cup {"none"}, expires : Nat]
  BY <1>1
<1>3. PaidOrders' = PaidOrders
  BY Committed DEF PaidOrders
<1>4. AppliedOrders' = AppliedOrders \cup {o} /\ o \in PaidOrders \ AppliedOrders
  <2>1. \A q \in Orders : bill'[q].activated <=> q = o \/ bill[q].activated
    BY Committed
  <2> QED
    BY <1>1, <2>1 DEF PaidOrders, AppliedOrders
<1>5. at \in Subscription!Moments
  BY <1>1 DEF Subscription!Moments
<1>6. ASSUME target = NewPeriod(o),
             s.plan = "none" \/ s.expires < now \/ (s.plan = "starter" /\ PlanOf[o] = "growth")
      PROVE  Subscription!StartPeriod(o)
  <2>1. \E m \in Subscription!Moments :
            sub' = [sub EXCEPT ![u] = [plan |-> PlanOf[o], expires |-> m + Month]]
    <3>1. target = [plan |-> PlanOf[o], expires |-> at + Month]
      BY <1>6 DEF NewPeriod
    <3> HIDE DEF at, target
    <3> QED
      BY <1>1, <1>5, <3>1
  <2> HIDE DEF at, target
  <2> QED
    BY <1>6, <2>1 DEF Subscription!StartPeriod
<1>7. ASSUME s.plan = PlanOf[o], at <= s.expires, target = [s EXCEPT !.expires = @ + Month]
      PROVE  Subscription!Renew(o)
  <2>1. now <= s.expires + Wait
    BY <1>1, <1>2, <1>7
  <2>2. target = [plan |-> s.plan, expires |-> s.expires + Month]
    BY <1>2, <1>7
  <2>3. sub' = [sub EXCEPT ![u] = [plan |-> s.plan, expires |-> s.expires + Month]]
    BY <1>1, <2>2
  <2> HIDE DEF at, target
  <2> QED
    BY <1>7, <2>1, <2>3 DEF Subscription!Renew
<1>8. ASSUME s.plan = "growth", PlanOf[o] = "starter", at <= s.expires, target = s
      PROVE  Subscription!KeepGrowth(o)
  <2>1. now <= s.expires + Wait
    BY <1>1, <1>2, <1>8
  <2>2. sub' = sub
    <3> HIDE DEF target
    <3> QED
      BY <1>1, <1>8
  <2> HIDE DEF at, target
  <2> QED
    BY <1>8, <2>1, <2>2 DEF Subscription!KeepGrowth
<1>9. Subscription!StartPeriod(o) \/ Subscription!Renew(o) \/ Subscription!KeepGrowth(o)
  <2>1. \/ target = NewPeriod(o) /\
              (s.plan = "none" \/ s.expires < now \/ (s.plan = "starter" /\ PlanOf[o] = "growth"))
        \/ s.plan = PlanOf[o] /\ at <= s.expires /\ target = [s EXCEPT !.expires = @ + Month]
        \/ s.plan = "growth" /\ PlanOf[o] = "starter" /\ at <= s.expires /\ target = s
    <3> HIDE DEF s
    <3> QED
      BY <1>1 DEF Fits
  <2> HIDE DEF s, at, target
  <2> QED
    BY <1>6, <1>7, <1>8, <2>1
<1> QED
  BY <1>1, <1>3, <1>4, <1>9 DEF Subscription!Apply, PaidOrders, AppliedOrders

LEMMA SubscriptionStep ==
  PosInv /\ [BillingNext]_billingVars => [Subscription!SubscriptionNext]_(Subscription!subscriptionVars)
<1> SUFFICES ASSUME PosInv, [BillingNext]_billingVars
             PROVE  [Subscription!SubscriptionNext]_(Subscription!subscriptionVars)
  OBVIOUS
<1> USE DEF Subscription!SubscriptionNext, Subscription!subscriptionVars
<1>1. bill \in [Orders -> [status : {"none", "created", "paid", "failed"},
                           pid : Pids \cup {NoPid}, activated : BOOLEAN]]
  BY DEF PosInv, PosTypeOK
<1>2. ASSUME NEW o \in Orders, CommitActivation(o)
      PROVE  Subscription!SubscriptionNext
  BY <1>2, CommitApplies
<1>3. ASSUME NEW p \in Pids, Finalize(p)
      PROVE  Subscription!SubscriptionNext
  <2> DEFINE o == OrderOf[p]
  <2>1. /\ o \in Orders /\ bill[o].status # "paid" /\ UNCHANGED <<sub, now>>
        /\ bill' = [bill EXCEPT ![o] = [bill[o] EXCEPT !.status = "paid", !.pid = p]]
    BY <1>3 DEF Finalize
  <2>2. \A q \in Orders : /\ bill'[q].activated = bill[q].activated
                          /\ bill'[q].status = "paid" <=> q = o \/ bill[q].status = "paid"
    BY <1>1, <2>1
  <2> HIDE DEF o
  <2>3. PaidOrders' = PaidOrders \cup {o} /\ o \notin PaidOrders /\ AppliedOrders' = AppliedOrders
    BY <2>1, <2>2 DEF PaidOrders, AppliedOrders
  <2>4. Subscription!Pay(o)
    BY <2>1, <2>3 DEF Subscription!Pay, PaidOrders, AppliedOrders
  <2> QED
    BY <2>1, <2>4
<1>4. CASE Tick
  BY <1>4 DEF Tick, Subscription!TimePasses
<1>5. ASSUME UNCHANGED <<sub, now>>,
             \A q \in Orders : /\ bill'[q].activated = bill[q].activated
                               /\ bill'[q].status = "paid" <=> bill[q].status = "paid"
      PROVE  UNCHANGED Subscription!subscriptionVars
  <2>1. PaidOrders' = PaidOrders /\ AppliedOrders' = AppliedOrders
    BY <1>5 DEF PaidOrders, AppliedOrders
  <2> QED
    BY <1>5, <2>1 DEF PaidOrders, AppliedOrders
<1>6. ASSUME NEW o \in Orders, CreateOrder(o)
      PROVE  UNCHANGED Subscription!subscriptionVars
  <2>1. /\ \A q \in Orders : /\ bill'[q].activated = bill[q].activated
                             /\ bill'[q].status = "paid" <=> bill[q].status = "paid"
        /\ UNCHANGED <<sub, now>>
    BY <1>1, <1>6 DEF CreateOrder
  <2> QED
    BY <1>5, <2>1
<1>7. ASSUME NEW p \in Pids, MarkFailed(p)
      PROVE  UNCHANGED Subscription!subscriptionVars
  <2>1. OrderOf[p] \in Orders
    OBVIOUS
  <2>2. /\ \A q \in Orders : /\ bill'[q].activated = bill[q].activated
                             /\ bill'[q].status = "paid" <=> bill[q].status = "paid"
        /\ UNCHANGED <<sub, now>>
    BY <1>1, <1>7, <2>1 DEF MarkFailed
  <2> QED
    BY <1>5, <2>2
<1>8. CASE UNCHANGED <<bill, sub, now>>
  BY <1>8
<1> HIDE DEF Subscription!SubscriptionNext, Subscription!subscriptionVars
<1> QED
  BY <1>2, <1>3, <1>4, <1>6, <1>7, <1>8
     DEF BillingNext, OrderStep, PaymentStep, Capture, Decline, BeginActivation, ClaimRow, ReadRow,
         AbortActivation, billingVars

\* Activations that wait, fail, are repeated or overlap implement the promise of
\* PosSubscription (activate_paid_billing_order).
THEOREM SubscriptionImplementation == BillingSpec => ImplementsSubscription
<1>1. BillingInit => Subscription!SubscriptionInit
  BY DEF BillingInit, NoSub, Subscription!SubscriptionInit
<1> QED
  BY <1>1, SubscriptionStep, PosInvariance, PTL
     DEF BillingSpec, ImplementsSubscription, Subscription!SubscriptionSpec
HIDE PosAssumption

(***************************************************************************)
(* The shop.                                                               *)
(***************************************************************************)
USE ShopAssumption

Selling(t) == pc[t] \in {"line", "stock"}
Moving(t) == pc[t] \in {"receive", "adjust"}

\* A sale that waits for stock has a line; a delivery or a count is for a
\* product of the catalog; who does not sell holds nothing.
StagesFit ==
    \A t \in Threads :
        /\ pc[t] = "stock" => cart[t] # << >>
        /\ Moving(t) => form[t].product \in catalog
        /\ ~Selling(t) => held[t] = {} /\ sold[t] = Nothing /\ began[t] = {}

\* A stock row is locked by one sale at a time.
LocksExclude == \A t, u \in Threads : t # u => held[t] \cap held[u] = {}

\* What a sale will deduct is there, and stays there until it commits.
Reserved == \A t \in Threads : \A p \in held[t] : sold[t][p] <= stock[p]

\* A line on a product that was tracked when the sale began is deducted.
LinesDeducted == \A t \in Threads : \A p \in began[t] \ held[t] : sold[t][p] = 0

UntrackedEmpty == \A p \in Products \ tracked : stock[p] = 0

ShopInv ==
    /\ ShopTypeOK
    /\ StagesFit
    /\ LocksExclude
    /\ Reserved
    /\ LinesDeducted
    /\ UntrackedEmpty
    /\ NeverOversold
    /\ StockAccounted

LEMMA ShopInitInv == Init => ShopInv
<1> SUFFICES ASSUME Init PROVE ShopInv
  OBVIOUS
<1>1. ShopTypeOK
  BY DEF Init, ShopTypeOK, Nothing, NoForm, Stages
<1> QED
  BY <1>1 DEF Init, ShopInv, StagesFit, Selling, Moving, LocksExclude, Reserved, LinesDeducted,
              UntrackedEmpty, NeverOversold, StockAccounted, Nothing

\* The lines of a sale form a sequence of lines.
LEMMA CartsAreSeqs == Carts \subseteq Seq(Line)
  BY SeqDef DEF Carts

\* The next line of a waiting sale, and the lines after it.
LEMMA NextLine ==
  ASSUME ShopTypeOK, NEW t \in Threads, cart[t] # << >>
  PROVE  /\ Head(cart[t]).product \in Products
         /\ Head(cart[t]).quantity \in Nat
         /\ Tail(cart[t]) \in Seq(Line)
<1>1. cart[t] \in Seq(Line)
  BY DEF ShopTypeOK
<1>2. Head(cart[t]) \in Line /\ Tail(cart[t]) \in Seq(Line)
  BY <1>1, HeadTailProperties
<1> QED
  BY <1>2 DEF Line, Quantities

\* The end of a transaction drops locks and lines and changes nothing else.
LEMMA EndSaleKeeps ==
  ASSUME ShopInv, NEW t \in Threads, EndSale(t), UNCHANGED <<catalogVars, stockVars, form>>
  PROVE  ShopInv'
<1> USE DEF ShopInv, EndSale, catalogVars, stockVars
<1>1. ShopTypeOK'
  BY DEF ShopTypeOK, Nothing, Stages
<1>2. /\ pc'[t] = "idle" /\ held'[t] = {} /\ sold'[t] = Nothing /\ began'[t] = {}
      /\ \A u \in Threads \ {t} :
            /\ pc'[u] = pc[u] /\ cart'[u] = cart[u] /\ held'[u] = held[u]
            /\ sold'[u] = sold[u] /\ began'[u] = began[u]
  BY DEF ShopTypeOK
<1>3. StagesFit'
  BY <1>2 DEF StagesFit, Selling, Moving
<1>4. LocksExclude' /\ Reserved' /\ LinesDeducted'
  BY <1>2 DEF LocksExclude, Reserved, LinesDeducted
<1> QED
  BY <1>1, <1>3, <1>4 DEF UntrackedEmpty, NeverOversold, StockAccounted

\* Row p is set to q and the book follows, while no sale holds the row.
LEMMA SetStockKeeps ==
  ASSUME ShopInv, NEW p \in Products, NEW q \in Nat, p \in catalog', SetStock(p, q),
         book' = [book EXCEPT ![p] = q], catalog \subseteq catalog', catalog' \subseteq Products,
         active' \subseteq catalog', UNCHANGED saleVars, ~Locked(p),
         pc' \in [Threads -> Stages],
         form' \in [Threads -> [product : Products \cup {NoProduct}, quantity : Nat]],
         \A t \in Threads : \/ pc'[t] = pc[t] /\ form'[t] = form[t]
                            \/ Moving(t) /\ pc'[t] = "idle"
  PROVE  ShopInv'
<1> USE DEF ShopInv, SetStock, saleVars
<1>1. ShopTypeOK'
  BY DEF ShopTypeOK
<1>2. /\ stock'[p] = q /\ book'[p] = q
      /\ \A r \in Products \ {p} : stock'[r] = stock[r] /\ book'[r] = book[r]
  BY DEF ShopTypeOK
<1>3. StagesFit'
  BY DEF StagesFit, Selling, Moving, Stages
<1>4. Reserved'
  BY <1>2 DEF Reserved, Locked, ShopTypeOK
<1>5. LocksExclude' /\ LinesDeducted'
  BY DEF LocksExclude, LinesDeducted
<1>6. UntrackedEmpty' /\ NeverOversold' /\ StockAccounted'
  BY <1>2 DEF UntrackedEmpty, NeverOversold, StockAccounted
<1> QED
  BY <1>1, <1>3, <1>4, <1>5, <1>6

LEMMA TakeStockKeeps ==
  ASSUME ShopInv, NEW t \in Threads, TakeStock(t)
  PROVE  ShopInv'
<1> USE DEF ShopInv
<1> DEFINE p == Head(cart[t]).product
           q == Head(cart[t]).quantity
<1>1. /\ pc[t] = "stock" /\ cart[t] # << >>
      /\ \A u \in Threads : p \notin held[u]
  BY DEF TakeStock, Granted, Locked, StagesFit
<1>2. p \in Products /\ q \in Nat /\ Tail(cart[t]) \in Seq(Line)
  BY <1>1, NextLine
<1>3. /\ p \in tracked => q <= stock[p]
      /\ pc' = [pc EXCEPT ![t] = "line"]
      /\ cart' = [cart EXCEPT ![t] = Tail(cart[t])]
      /\ sold' = [sold EXCEPT ![t] = [sold[t] EXCEPT ![p] = q]]
      /\ held' = [held EXCEPT ![t] = IF p \in tracked THEN held[t] \cup {p} ELSE held[t]]
      /\ UNCHANGED <<catalog, active, tracked, stock, book, form, began>>
  BY DEF TakeStock, catalogVars, stockVars
<1> HIDE DEF p, q
<1>4. ShopTypeOK'
  <2>1. sold' \in [Threads -> [Products -> Nat]] /\ held' \in [Threads -> SUBSET tracked]
    BY <1>2, <1>3 DEF ShopTypeOK
  <2> QED
    BY <1>2, <1>3, <2>1 DEF ShopTypeOK, Stages
<1>5. /\ \A u \in Threads \ {t} : held'[u] = held[u] /\ sold'[u] = sold[u] /\ pc'[u] = pc[u]
                                  /\ cart'[u] = cart[u]
      /\ held'[t] = IF p \in tracked THEN held[t] \cup {p} ELSE held[t]
      /\ sold'[t][p] = q
      /\ \A r \in Products \ {p} : sold'[t][r] = sold[t][r]
      /\ pc'[t] = "line"
  BY <1>2, <1>3 DEF ShopTypeOK
<1>6. StagesFit'
  BY <1>1, <1>3, <1>5 DEF StagesFit, Selling, Moving
<1>7. LocksExclude'
  BY <1>1, <1>5 DEF LocksExclude
<1>8. Reserved'
  BY <1>1, <1>2, <1>3, <1>5 DEF Reserved, ShopTypeOK
<1>9. LinesDeducted'
  BY <1>2, <1>3, <1>5 DEF LinesDeducted, ShopTypeOK
<1> QED
  BY <1>3, <1>4, <1>6, <1>7, <1>8, <1>9 DEF UntrackedEmpty, NeverOversold, StockAccounted

LEMMA CommitSaleKeeps ==
  ASSUME ShopInv, NEW t \in Threads, CommitSale(t)
  PROVE  ShopInv'
<1> USE DEF ShopInv
<1>1. /\ pc' = [pc EXCEPT ![t] = "idle"]
      /\ cart' = [cart EXCEPT ![t] = << >>]
      /\ sold' = [sold EXCEPT ![t] = Nothing]
      /\ held' = [held EXCEPT ![t] = {}]
      /\ began' = [began EXCEPT ![t] = {}]
      /\ UNCHANGED <<catalog, active, tracked, form>>
  BY DEF CommitSale, EndSale, catalogVars
<1>2. /\ stock' \in [Products -> Int] /\ book' \in [Products -> Int]
      /\ \A p \in held[t] : stock'[p] = stock[p] - sold[t][p]
      /\ \A p \in Products \ held[t] : stock'[p] = stock[p]
      /\ \A p \in began[t] \cup held[t] : book'[p] = book[p] - sold[t][p]
      /\ \A p \in Products \ (began[t] \cup held[t]) : book'[p] = book[p]
  BY DEF CommitSale, ShopTypeOK
<1>3. held[t] \subseteq tracked /\ began[t] \subseteq tracked /\ tracked \subseteq Products
  BY DEF ShopTypeOK
<1>4. ShopTypeOK'
  BY <1>1, <1>2 DEF ShopTypeOK, Nothing, Stages
<1>5. /\ pc'[t] = "idle" /\ held'[t] = {} /\ sold'[t] = Nothing /\ began'[t] = {}
      /\ \A u \in Threads \ {t} :
            /\ pc'[u] = pc[u] /\ cart'[u] = cart[u] /\ held'[u] = held[u]
            /\ sold'[u] = sold[u] /\ began'[u] = began[u]
  BY <1>1 DEF ShopTypeOK
<1>6. StagesFit'
  BY <1>1, <1>5 DEF StagesFit, Selling, Moving
<1>7. LocksExclude' /\ LinesDeducted'
  BY <1>5 DEF LocksExclude, LinesDeducted
<1>8. Reserved'
  <2> SUFFICES ASSUME NEW u \in Threads \ {t}, NEW p \in held[u]
               PROVE  sold[u][p] <= stock'[p]
    BY <1>5 DEF Reserved
  <2>1. p \in Products /\ p \notin held[t]
    BY DEF LocksExclude, ShopTypeOK
  <2> QED
    BY <1>2, <2>1 DEF Reserved
<1>9. NeverOversold'
  <2> SUFFICES ASSUME NEW p \in Products PROVE stock'[p] >= 0
    BY DEF NeverOversold
  <2>1. CASE p \in held[t]
    <3>1. sold[t][p] <= stock[p] /\ sold[t][p] \in Nat /\ stock[p] \in Int
      BY <2>1 DEF Reserved, ShopTypeOK
    <3> QED
      BY <1>2, <2>1, <3>1
  <2>2. CASE p \notin held[t]
    BY <1>2, <2>2 DEF NeverOversold
  <2> QED
    BY <2>1, <2>2
<1>10. StockAccounted'
  <2> SUFFICES ASSUME NEW p \in Products PROVE stock'[p] = book'[p]
    BY DEF StockAccounted
  <2>1. CASE p \in held[t]
    BY <1>2, <2>1 DEF StockAccounted
  <2>2. CASE p \in began[t] \ held[t]
    BY <1>2, <2>2 DEF StockAccounted, LinesDeducted, ShopTypeOK
  <2>3. CASE p \notin began[t] \cup held[t]
    BY <1>2, <2>3 DEF StockAccounted
  <2> QED
    BY <2>1, <2>2, <2>3
<1>11. UntrackedEmpty'
  BY <1>1, <1>2, <1>3 DEF UntrackedEmpty
<1> QED
  BY <1>4, <1>6, <1>7, <1>8, <1>9, <1>10, <1>11

\* A thread takes up a sale, or goes to the next statement of one.
LEMMA SaleBeginKeeps ==
  ASSUME ShopInv, NEW t \in Threads,
         (\E c \in Carts : BeginSale(t, c)) \/ ReadProduct(t)
  PROVE  ShopInv'
<1> USE DEF ShopInv
<1>1. ASSUME NEW c \in Carts, BeginSale(t, c) PROVE ShopInv'
  <2>1. c \in Seq(Line)
    BY CartsAreSeqs
  <2>2. ShopTypeOK'
    BY <1>1, <2>1 DEF BeginSale, ShopTypeOK, Stages, catalogVars, stockVars
  <2>3. held[t] = {} /\ sold[t] = Nothing /\ \A p \in Products : sold[t][p] = 0
    BY <1>1 DEF BeginSale, StagesFit, Selling, Nothing
  <2>4. StagesFit'
    BY <1>1 DEF BeginSale, StagesFit, Selling, Moving, ShopTypeOK, catalogVars
  <2>5. LinesDeducted'
    BY <1>1, <2>3 DEF BeginSale, LinesDeducted, ShopTypeOK
  <2> QED
    BY <1>1, <2>2, <2>4, <2>5 DEF BeginSale, LocksExclude, Reserved, UntrackedEmpty,
        NeverOversold, StockAccounted, stockVars
<1>2. ASSUME ReadProduct(t) PROVE ShopInv'
  <2>1. ShopTypeOK' /\ StagesFit'
    BY <1>2 DEF ReadProduct, ShopTypeOK, Stages, StagesFit, Selling, Moving, catalogVars,
        stockVars, saleVars
  <2> QED
    BY <1>2, <2>1 DEF ReadProduct, LocksExclude, Reserved, LinesDeducted, UntrackedEmpty,
        NeverOversold, StockAccounted, stockVars, saleVars
<1> QED
  BY <1>1, <1>2

\* A delivery or a count begins, or fails before its upsert.
LEMMA MoveBeginKeeps ==
  ASSUME ShopInv, NEW t \in Threads,
         \/ \E stage \in {"receive", "adjust"}, p \in Products, q \in 0 .. MaxQuantity :
                BeginMove(t, stage, p, q)
         \/ AbortMove(t)
  PROVE  ShopInv'
<1> USE DEF ShopInv
<1>1. ASSUME NEW stage \in {"receive", "adjust"}, NEW p \in Products, NEW q \in 0 .. MaxQuantity,
             BeginMove(t, stage, p, q)
      PROVE  ShopTypeOK' /\ StagesFit'
  BY <1>1 DEF BeginMove, ShopTypeOK, Stages, StagesFit, Selling, Moving, catalogVars, stockVars,
      saleVars
<1>2. ASSUME AbortMove(t) PROVE ShopTypeOK' /\ StagesFit'
  BY <1>2 DEF AbortMove, EndForm, NoForm, ShopTypeOK, Stages, StagesFit, Selling, Moving,
      catalogVars, stockVars, saleVars
<1>3. UNCHANGED <<catalogVars, stockVars, saleVars>>
  BY DEF BeginMove, AbortMove
<1> QED
  BY <1>1, <1>2, <1>3 DEF LocksExclude, Reserved, LinesDeducted, UntrackedEmpty, NeverOversold,
      StockAccounted, stockVars, saleVars

\* The upsert of a delivery or a count.
LEMMA MoveKeeps ==
  ASSUME ShopInv, NEW t \in Threads, MoveStep(t)
  PROVE  ShopInv'
<1> USE DEF ShopInv
<1> DEFINE p == form[t].product
           q == form[t].quantity
           new == IF pc[t] = "receive" /\ p \in tracked THEN stock[p] + q ELSE q
<1>1. Moving(t) /\ ~Locked(p) /\ EndForm(t) /\ UNCHANGED <<catalogVars, saleVars>>
  BY DEF MoveStep, Receive, Adjust, Moving
<1>2. p \in catalog /\ p \in Products /\ q \in Nat
  BY <1>1 DEF StagesFit, ShopTypeOK
<1>3. stock[p] \in Nat /\ stock[p] = book[p] /\ (p \notin tracked => stock[p] = 0)
  BY <1>2 DEF ShopTypeOK, NeverOversold, StockAccounted, UntrackedEmpty
<1>4. new \in Nat
  BY <1>2, <1>3
<1>5. SetStock(p, new)
  BY DEF MoveStep, Receive, Adjust
<1>6. book' = [book EXCEPT ![p] = new]
  BY <1>2, <1>3 DEF MoveStep, Receive, Adjust
<1>7. /\ pc' \in [Threads -> Stages]
      /\ form' \in [Threads -> [product : Products \cup {NoProduct}, quantity : Nat]]
      /\ \A u \in Threads : \/ pc'[u] = pc[u] /\ form'[u] = form[u]
                            \/ Moving(u) /\ pc'[u] = "idle"
  BY <1>1 DEF EndForm, NoForm, ShopTypeOK, Stages
<1> HIDE DEF p, q, new
<1> QED
  BY <1>1, <1>2, <1>4, <1>5, <1>6, <1>7, SetStockKeeps DEF catalogVars, ShopTypeOK

LEMMA CatalogKeeps ==
  ASSUME ShopInv, CatalogStep
  PROVE  ShopInv'
<1> USE DEF ShopInv
<1>1. ASSUME NEW p \in Products, NEW q \in -1 .. MaxQuantity, CreateProduct(p, q), q >= 0
      PROVE  ShopInv'
  <2>1. ~Locked(p)
    BY <1>1 DEF CreateProduct, Locked, ShopTypeOK
  <2>2. /\ q \in Nat /\ p \in catalog' /\ SetStock(p, q) /\ book' = [book EXCEPT ![p] = q]
        /\ catalog \subseteq catalog' /\ catalog' \subseteq Products /\ active' \subseteq catalog'
        /\ UNCHANGED <<saleVars, pc, form>>
    BY <1>1 DEF CreateProduct, ShopTypeOK
  <2>3. /\ pc' \in [Threads -> Stages]
        /\ form' \in [Threads -> [product : Products \cup {NoProduct}, quantity : Nat]]
    BY <2>2 DEF ShopTypeOK
  <2> QED
    BY <2>1, <2>2, <2>3, SetStockKeeps
<1>2. ASSUME /\ catalog \subseteq catalog' /\ catalog' \subseteq Products
             /\ active' \subseteq catalog'
             /\ UNCHANGED <<stockVars, saleVars, pc, form>>
      PROVE  ShopInv'
  <2>1. ShopTypeOK'
    BY <1>2 DEF ShopTypeOK, stockVars, saleVars
  <2> QED
    BY <1>2, <2>1 DEF StagesFit, Selling, Moving, LocksExclude, Reserved, LinesDeducted,
        UntrackedEmpty, NeverOversold, StockAccounted, stockVars, saleVars
<1>3. ASSUME NEW p \in Products, NEW q \in -1 .. MaxQuantity, CreateProduct(p, q), ~(q >= 0)
      PROVE  ShopInv'
  BY <1>2, <1>3 DEF CreateProduct, ShopTypeOK
<1>4. ASSUME NEW p \in Products, NEW on \in BOOLEAN, UpdateProduct(p, on)
      PROVE  ShopInv'
  BY <1>2, <1>4 DEF UpdateProduct, ShopTypeOK
<1> QED
  BY <1>1, <1>3, <1>4 DEF CatalogStep

LEMMA ShopNextInv == ShopInv /\ [Next]_vars => ShopInv'
<1> SUFFICES ASSUME ShopInv, [Next]_vars PROVE ShopInv'
  OBVIOUS
<1>1. CASE CatalogStep
  BY <1>1, CatalogKeeps
<1>2. ASSUME NEW t \in Threads, Request(t) PROVE ShopInv'
  BY <1>2, SaleBeginKeeps, MoveBeginKeeps DEF Request
<1>3. ASSUME NEW t \in Threads, SaleStep(t) PROVE ShopInv'
  <2>1. CASE RefuseProduct(t) \/ RefuseLine(t)
    BY <2>1, EndSaleKeeps DEF RefuseProduct, RefuseLine
  <2> QED
    BY <1>3, <2>1, SaleBeginKeeps, TakeStockKeeps, CommitSaleKeeps DEF SaleStep
<1>4. ASSUME NEW t \in Threads, MoveStep(t) PROVE ShopInv'
  BY <1>4, MoveKeeps
<1>5. ASSUME NEW t \in Threads, AbortSale(t) \/ BreakCircle(t) PROVE ShopInv'
  BY <1>5, EndSaleKeeps DEF AbortSale, BreakCircle
<1>6. ASSUME NEW t \in Threads, AbortMove(t) PROVE ShopInv'
  BY <1>6, MoveBeginKeeps
<1>7. CASE UNCHANGED vars
  BY <1>7 DEF vars, catalogVars, stockVars, saleVars, ShopInv, ShopTypeOK, StagesFit, Selling,
      Moving, LocksExclude, Reserved, LinesDeducted, UntrackedEmpty, NeverOversold, StockAccounted
<1> QED
  BY <1>1, <1>2, <1>3, <1>4, <1>5, <1>6, <1>7 DEF Next

\* The locks of create_sale, from the FOR UPDATE to the commit, keep what a sale
\* has checked true until it deducts it.
THEOREM ShopInvariance == Spec => []ShopInv
  BY ShopInitInv, ShopNextInv, PTL DEF Spec

\* Catalog, stock rows, locks and requests keep their types.
THEOREM ShopTypeCorrect == Spec => []ShopTypeOK
<1>1. ShopInv => ShopTypeOK
  BY DEF ShopInv
<1> QED
  BY <1>1, ShopInvariance, PTL

\* No overlap of create_sale, receive_inventory and adjust_inventory sells more
\* than there is.
THEOREM NeverOversoldAlways == Spec => []NeverOversold
<1>1. ShopInv => NeverOversold
  BY DEF ShopInv
<1> QED
  BY <1>1, ShopInvariance, PTL

\* Every delivery, count and committed sale is in the stock exactly once.
THEOREM StockAccountedAlways == Spec => []StockAccounted
<1>1. ShopInv => StockAccounted
  BY DEF ShopInv
<1> QED
  BY <1>1, ShopInvariance, PTL
=============================================================================
