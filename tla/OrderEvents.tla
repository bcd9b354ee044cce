---------------------------- MODULE OrderEvents ----------------------------
(***************************************************************************)
(* What Wix says of its orders and what becomes of it: the events of one   *)
(* member's orders for one plan, adapters/wix/wix-adapter.js that parses   *)
(* them (L2), core/event-routing.js that turns them into jobs, the jobs    *)
(* (queue-worker.js, one step each: MemberAccess has their steps), and the *)
(* sweep of reconciliation.js, which reads the orders themselves           *)
(* (wix-order-classification.js).                                          *)
(*                                                                         *)
(* An event carries its order as it was when the event was sent.  Events   *)
(* arrive in any order; jobs are taken in any order, because a busy        *)
(* member's job is put off and a failed one tried again.  Access is by     *)
(* plan: no job compares the order of its event with the order the row was *)
(* granted for.                                                            *)
(***************************************************************************)
EXTENDS Integers, FiniteSets

CONSTANTS
  PlanOrders,        \* the member's orders of the plan
  Histories      \* the scenarios: [orders, events, inOrder, swept, parks],
                 \* events being the bound on the events Wix sends

ASSUME OrdersAssumption ==
  \A h \in Histories : /\ h.orders \subseteq PlanOrders /\ IsFiniteSet(h.orders) /\ h.events \in Nat
                        /\ {h.inOrder, h.swept, h.parks} \subseteq BOOLEAN

Statuses == {"NONE", "DRAFT", "PENDING", "ACTIVE", "PAUSED", "ENDED", "CANCELED"}
(* lastPaymentStatus; PAID stands for PAID, TRIAL and none at all          *)
(* (PAYING_PAYMENT_STATUSES), UNPAID for UNPAID and PENDING, FAILED for    *)
(* FAILED and REFUNDED.                                                    *)
Payments == {"PAID", "UNPAID", "FAILED"}
NoOrder  == [status |-> "NONE", pay |-> "UNPAID", future |-> FALSE]

VARIABLES
  history,    \* the scenario
  planOrder,      \* the orders, in Wix
  sent,       \* how many events Wix has sent
  transit,    \* events sent and not yet delivered
  jobs,       \* jobs not yet run
  row,        \* the source row under the plan: none, active, failed
  parked,     \* a row of the door waits for a start, under no plan
  user,       \* the Kisi user: none, on, off (access_enabled false)
  role,       \* the user holds the plan's door role
  seen,       \* sweeps in a row that found the plan ended (its strike)
  everPaid    \* history variable: the orders that have been active and paid

wix  == <<planOrder, sent>>
db   == <<row, parked, user, role>>
vars == <<history, planOrder, sent, transit, jobs, row, parked, user, role, seen, everPaid>>

-----------------------------------------------------------------------------
(* wix-order-classification.js.                                            *)

IsPaying(o) == o.status = "ACTIVE" /\ o.pay = "PAID"
HasEnded(o) == o.status \in {"ENDED", "CANCELED"}

Bought == {o \in history.orders : planOrder[o].status # "NONE"}
Paying == \E o \in Bought : IsPaying(planOrder[o])
Lapsed == Bought # {} /\ \A o \in Bought : HasEnded(planOrder[o])
In     == role /\ user = "on"

-----------------------------------------------------------------------------
(* wix-adapter.js _normalizeEventType.                                     *)

Normalized(raw) ==
  CASE raw \in {"orderPurchased", "orderUpdated"} -> "plan.purchased"
    [] raw = "orderStarted"           -> "plan.started"
    [] raw = "orderAutoRenewCanceled" -> "plan.autorenew_cancelled"
    [] raw \in {"orderCanceled", "orderEnded"} -> "plan.cancelled"
    [] raw = "orderPaused"            -> "payment.failed"
    [] raw = "orderResumed"           -> "payment.recovered"

(* A mutant of MayGrant: only the status of the order is looked at.        *)
GrantingUnpaid(e) == e.short \/ e.order.status = "ACTIVE"

(* parseEvent's guard: a grant needs an active order that was paid; an     *)
(* event of the short form says no status and is let through.              *)
MayGrant(e) == (e.short \/ e.order.status = "ACTIVE") /\ e.order.pay = "PAID"

(* parseEvent: the standard event's type.                                  *)
Parsed(e) ==
  LET type == Normalized(e.raw) IN
  IF type \in {"plan.purchased", "plan.started"} /\ ~MayGrant(e)
  THEN "plan.unpaid_order" ELSE type

(* event-routing.js and webhook-processor.js: the job, or none.            *)
JobOf(type) ==
  CASE type \in {"plan.purchased", "plan.started", "payment.recovered"} -> "grant"
    [] type \in {"plan.cancelled", "payment.failed"} -> "revoke"
    [] OTHER -> "none"

-----------------------------------------------------------------------------
(* The jobs.                                                               *)

(* resolveAndLock without a platform: somebody with access, or with rows   *)
(* that stand for it.                                                      *)
Known == row = "active" \/ (row = "failed" /\ role)

(* resolveIdentity, which uses the user on record as it is, then the role  *)
(* and the row (completeGrant).                                            *)
Give ==
  /\ user' = IF user = "none" THEN "on" ELSE user
  /\ role' = TRUE
  /\ row' = "active"
  /\ UNCHANGED parked

(* parkPendingStart, the user made before.  The resolver's mappings do not  *)
(* say which plan they are of, so its row is under no plan, beside the     *)
(* plan's own, and no later grant finds it.                                *)
Park ==
  /\ user' = IF user = "none" THEN "on" ELSE user
  /\ parked' = TRUE
  /\ UNCHANGED <<row, role>>

(* plan.cancelled: the plan's row goes and, unless another row stands for  *)
(* the door, the role; a user who holds a role is not deleted (guard D).   *)
TakeAway ==
  /\ Known
  /\ row' = "none"
  /\ IF parked THEN UNCHANGED <<role, user>> ELSE role' = FALSE /\ user' = "none"
  /\ UNCHANGED parked

(* payment.failed: the user is disabled and its active rows set aside.     *)
Suspend ==
  /\ Known
  /\ user' = IF user = "on" THEN "off" ELSE user
  /\ row' = IF row = "active" THEN "failed" ELSE row
  /\ UNCHANGED <<parked, role>>

(* payment.recovered: enabled again, whatever the order says of payment.   *)
Restore ==
  /\ Known
  /\ user' = IF user = "off" THEN "on" ELSE user
  /\ row' = IF row = "failed" THEN "active" ELSE row
  /\ UNCHANGED <<parked, role>>

(* The start date lies ahead: Wix starts the order when it comes.          *)
Ahead(j) == j.future /\ planOrder[j.of].future

(* queue-worker.js: a purchase of a later start is parked, a start is not. *)
MustWait(j) == j.type = "plan.purchased" /\ Ahead(j)

GrantsRow(j) ==
  /\ j.type \in {"plan.purchased", "plan.started"}
  /\ IF MustWait(j) THEN Park ELSE Give

Revokes(j)  == j.type = "plan.cancelled" /\ TakeAway
Suspends(j) == j.type = "payment.failed" /\ Suspend
Restores(j) == j.type = "payment.recovered" /\ Restore

(* A member nobody knows: the job ends quietly.                            *)
NobodyFound(j) ==
  /\ j.type \in {"plan.cancelled", "payment.failed", "payment.recovered"}
  /\ ~Known
  /\ UNCHANGED db

RunJob(j) ==
  /\ j \in jobs
  /\ jobs' = jobs \ {j}
  /\ GrantsRow(j) \/ Revokes(j) \/ Suspends(j) \/ Restores(j) \/ NobodyFound(j)
  /\ UNCHANGED <<history, wix, transit, seen, everPaid>>

-----------------------------------------------------------------------------
(* Delivery: parse, route, enqueue (WebhookIngress has the steps).         *)

Job(type, o, future) == [type |-> type, of |-> o, future |-> future]

Next1(e) == \A f \in transit : e.n <= f.n

Deliver(e) ==
  /\ e \in transit
  /\ history.inOrder => Next1(e) /\ jobs = {}
  /\ transit' = transit \ {e}
  /\ jobs' = IF JobOf(Parsed(e)) = "none" THEN jobs
             ELSE jobs \cup {Job(Parsed(e), e.of, e.order.future)}
  /\ UNCHANGED <<history, wix, db, seen, everPaid>>

-----------------------------------------------------------------------------
(* Wix: an order changes and its event is sent.                            *)

Becomes(o, new, raw) ==
  /\ o \in history.orders /\ sent < history.events
  /\ planOrder' = [planOrder EXCEPT ![o] = new]
  /\ sent' = sent + 1
  /\ \E short \in (IF history.parks THEN BOOLEAN ELSE {FALSE}) :
       transit' = transit \cup
         {[n |-> sent', raw |-> raw, of |-> o, order |-> new, short |-> short]}
  /\ everPaid' = IF IsPaying(new) THEN everPaid \cup {o} ELSE everPaid
  /\ UNCHANGED <<history, jobs, db, seen>>

Placed(status, pay, future) == [status |-> status, pay |-> pay, future |-> future]

(* Bought: paid, to be paid, declined, a draft, or to start later, which   *)
(* Wix calls pending.  parseEvent stops a pending order, so a later start  *)
(* reaches the jobs only in the scenarios with parks, in the short form.   *)
Buy(o) ==
  /\ planOrder[o].status = "NONE"
  /\ \E new \in {Placed("ACTIVE", "PAID", FALSE), Placed("ACTIVE", "UNPAID", FALSE),
                 Placed("ACTIVE", "FAILED", FALSE), Placed("DRAFT", "UNPAID", FALSE),
                 Placed("PENDING", "PAID", TRUE)} :
       Becomes(o, new, "orderPurchased")

(* A payment, or a declined renewal.                                       *)
Pays(o) ==
  /\ planOrder[o].status \in {"DRAFT", "ACTIVE"} /\ planOrder[o].pay # "PAID"
  /\ Becomes(o, Placed("ACTIVE", "PAID", planOrder[o].future), "orderUpdated")

Declines(o) ==
  /\ IsPaying(planOrder[o]) /\ ~planOrder[o].future
  /\ Becomes(o, [planOrder[o] EXCEPT !.pay = "FAILED"], "orderUpdated")

PlanStarts(o) ==
  /\ planOrder[o].future /\ planOrder[o].status \in {"PENDING", "ACTIVE"}
  /\ Becomes(o, Placed("ACTIVE", planOrder[o].pay, FALSE), "orderStarted")

Pauses(o) ==
  /\ planOrder[o].status = "ACTIVE" /\ ~planOrder[o].future
  /\ Becomes(o, [planOrder[o] EXCEPT !.status = "PAUSED"], "orderPaused")

Resumes(o) ==
  /\ planOrder[o].status = "PAUSED"
  /\ Becomes(o, [planOrder[o] EXCEPT !.status = "ACTIVE"], "orderResumed")

(* The member will not renew; what is paid runs on.                        *)
StopsRenewing(o) ==
  /\ planOrder[o].status = "ACTIVE"
  /\ Becomes(o, planOrder[o], "orderAutoRenewCanceled")

OrderEnds(o) ==
  /\ planOrder[o].status \in {"ACTIVE", "PAUSED", "PENDING"}
  /\ \/ Becomes(o, [planOrder[o] EXCEPT !.status = "CANCELED"], "orderCanceled")
     \/ /\ planOrder[o].status = "ACTIVE"
        /\ Becomes(o, [planOrder[o] EXCEPT !.status = "ENDED"], "orderEnded")

-----------------------------------------------------------------------------
(* reconciliation.js: what a sweep does for this member and plan, from the *)
(* orders and the doors as they are now.                                   *)

(* The strike, counted in sweeps: the second finding in a row.             *)
Strike == seen + 1 >= 2

(* 3A: a paying member without the door.  The event names no start date.   *)
SweepGrants == Paying /\ ~role

(* The census of the strikes: a plan that ended and whose row is active.   *)
Counted == Lapsed /\ role /\ row = "active"

(* 3B: every order has ended and the door is open.                         *)
SweepRevokes == Counted /\ Strike

Sweep ==
  /\ history.swept
  /\ seen' = IF Counted THEN (IF Strike THEN 0 ELSE seen + 1)
             ELSE IF Paying THEN 0 ELSE seen
  /\ jobs' = jobs
       \cup {Job("plan.purchased", o, FALSE) :
               o \in {b \in Bought : SweepGrants /\ IsPaying(planOrder[b])}}
       \cup {Job("plan.cancelled", o, FALSE) : o \in {b \in Bought : SweepRevokes}}
  /\ <<jobs', seen'>> # <<jobs, seen>>
  /\ UNCHANGED <<history, wix, transit, db, everPaid>>

-----------------------------------------------------------------------------
OrdersInit ==
  /\ history \in Histories
  /\ planOrder = [o \in PlanOrders |-> NoOrder]
  /\ sent = 0 /\ transit = {} /\ jobs = {}
  /\ row = "none" /\ parked = FALSE /\ user = "none" /\ role = FALSE
  /\ seen = 0 /\ everPaid = {}

OrderChanges ==
  \E o \in PlanOrders : \/ Buy(o) \/ Pays(o) \/ Declines(o) \/ PlanStarts(o) \/ Pauses(o)
                    \/ Resumes(o) \/ StopsRenewing(o) \/ OrderEnds(o)

OrdersNext ==
  \/ OrderChanges
  \/ \E e \in transit : Deliver(e)
  \/ \E j \in jobs : RunJob(j)
  \/ Sweep

(* Wix delivers and sends again until it is answered; the workers run; the *)
(* sweep is a timer.  Nothing makes an order change.                       *)
OrdersFairness ==
  /\ WF_vars(\E e \in transit : Deliver(e))
  /\ WF_vars(\E j \in jobs : RunJob(j))
  /\ WF_vars(Sweep)

OrdersSpec == OrdersInit /\ [][OrdersNext]_vars /\ OrdersFairness

-----------------------------------------------------------------------------
(* The types, and the numbers of the events, which no two share.           *)
OrdersTypeOK ==
  /\ history \in Histories
  /\ planOrder \in [PlanOrders -> [status : Statuses, pay : Payments, future : BOOLEAN]]
  /\ sent \in 0..history.events
  /\ \A e, f \in transit : e.n = f.n => e = f
  /\ row \in {"none", "active", "failed"} /\ parked \in BOOLEAN
  /\ user \in {"none", "on", "off"} /\ role \in BOOLEAN
  /\ seen \in 0..1 /\ everPaid \subseteq PlanOrders

(* Whatever order the events come in, a member whose orders were never     *)
(* active and paid is never let in (wix-adapter.js's guard, the sweep's    *)
(* classes): drafts, offline orders and declined ones open nothing.        *)
UnpaidStaysOut == role => everPaid # {}

(* Told in order of a single order, the events alone keep the door right:  *)
(* with nothing left to deliver or to run, an order that is paid and begun *)
(* is in (also when its renewal was called off), one that is paused or not *)
(* begun is out, so is one that ended unless its start was once parked,    *)
(* and one whose renewal was declined keeps what it had.                   *)
InOrderFollows ==
  history.inOrder /\ ~history.swept /\ Cardinality(history.orders) = 1
    /\ transit = {} /\ jobs = {} =>
    \A o \in Bought :
      /\ IsPaying(planOrder[o]) /\ ~planOrder[o].future => In
      /\ planOrder[o].status = "PAUSED" => ~In
      /\ HasEnded(planOrder[o]) /\ ~parked => ~In
      /\ planOrder[o].future => ~In

(* However events are reordered and whatever jobs cross the sweep, once    *)
(* Wix is quiet the door comes right: a paying member who is not suspended *)
(* gets in for good, and one whose every order has ended is out for good,  *)
(* unless a start of theirs was parked.                                    *)
SweepSettles == <>[](history.swept => /\ Paying /\ user # "off" => In
                                      /\ Lapsed /\ ~parked => ~In)

(* What the events may never do, in whatever order.                        *)
OrdersHold == OrdersTypeOK /\ UnpaidStaysOut /\ InOrderFollows

(* A member whose orders have ended is out in the end (OPERATOR_FAQ.md:    *)
(* "AccessSync removes their door access at the next sync"), also one      *)
(* whose start was parked: the parked row is under no plan, no start turns *)
(* it into the plan's, and to the cancel it is another source of the door. *)
EndedIsOut == history.swept => <>[](Lapsed => ~In)

(* A member who pays and whom nothing suspends any more is let in.  A      *)
(* pause that arrives late, or a new order bought while suspended, leaves  *)
(* the Kisi user disabled, and nothing enables it but payment.recovered.   *)
PayingGetsIn == history.swept => <>[](Paying => In)
=============================================================================
