---------------------------- MODULE EventsProofs ----------------------------
(***************************************************************************)
(* Theorems about the way of an event: WebhookIngress, for every set of    *)
(* events and requests, and JobQueue, for any number of members, plans,    *)
(* jobs and clicks, of attempts, failures and faults; and about the check  *)
(* of a gym's key (HealthCheck), for any locations, doors and periods.     *)
(***************************************************************************)
EXTENDS WebhookIngress, JobQueue, HealthCheck, FiniteSetTheorems, SequenceTheorems, WellFoundedInduction, TLAPS

-----------------------------------------------------------------------------
(* Type correctness.                                                       *)

LEMMA TypeInit == Init => TypeOK
BY IngressAssumption DEF Init, TypeOK

LEMMA TypeNext == TypeOK /\ [Next]_vars => TypeOK'
<1> SUFFICES ASSUME TypeOK, [Next]_vars PROVE TypeOK'
  OBVIOUS
<1> DEFINE Handlers == [at : {"check", "mark", "add", "unmark", "done", "failed"}, event : Events, answered : BOOLEAN]
           Sets == /\ processed' \subseteq Events /\ jobs' \subseteq Events /\ acked' \subseteq Events
                   /\ faults' \in 0 .. MaxFaults /\ happened' \subseteq Faults
           Made == made' \in [Events -> 0 .. 2]
           Reqs == req' \in [Requests -> {Free} \cup Handlers]
<1> SUFFICES Sets /\ Made /\ Reqs
  BY DEF TypeOK
<1>0. \A r \in Requests : req[r] # Free => req[r] \in Handlers /\ req[r].event \in Events
  BY DEF TypeOK
<1>a. ASSUME NEW r \in Requests, NEW h \in {Free} \cup Handlers, req' = [req EXCEPT ![r] = h] PROVE Reqs
  BY <1>a DEF TypeOK
<1>b. ASSUME NEW r \in Requests, req[r] # Free,
             NEW p \in {"check", "mark", "add", "unmark", "done", "failed"}, Go(r, p)
      PROVE  Reqs
  <2>1. [req[r] EXCEPT !.at = p] \in Handlers
    BY <1>0, <1>b
  <2> QED BY <1>a, <1>b, <2>1 DEF Go
<1>c. ASSUME (\E f \in {"slow", "crash", "add", "add_lost", "unmark", "db", "db_lost"} : Fault(f)) \/ NoFault
      PROVE  faults' \in 0 .. MaxFaults /\ happened' \subseteq Faults
  BY <1>c, IngressAssumption DEF TypeOK, Fault, NoFault
<1>1. ASSUME NEW r \in Requests, NEW e \in Events, Deliver(r, e) PROVE Sets /\ Made /\ Reqs
  BY <1>1, <1>a DEF Deliver, TypeOK
<1>2. ASSUME NEW r \in Requests, Check(r) PROVE Sets /\ Made /\ Reqs
  <2>1. req[r] # Free
    BY <1>2 DEF Check, Free
  <2>2. Reqs
    BY <1>2, <1>b, <2>1 DEF Check
  <2> QED BY <1>2, <1>c, <2>2 DEF Check, TypeOK
<1>3. ASSUME NEW r \in Requests, Mark(r) PROVE Sets /\ Made /\ Reqs
  <2>1. req[r] # Free
    BY <1>3 DEF Mark, Free
  <2>2. Reqs
    BY <1>3, <1>b, <2>1 DEF Mark
  <2> QED BY <1>0, <1>3, <1>c, <2>1, <2>2 DEF Mark, TypeOK
<1>4. ASSUME NEW r \in Requests, Add(r) PROVE Sets /\ Made /\ Reqs
  <2>1. req[r] # Free
    BY <1>4 DEF Add, Free
  <2>2. Reqs
    BY <1>4, <1>b, <2>1 DEF Add
  <2>3. Made /\ jobs' \subseteq Events
    BY <1>0, <1>4, <2>1 DEF Add, Queued, TypeOK
  <2> QED BY <1>4, <1>c, <2>2, <2>3 DEF Add, TypeOK
<1>5. ASSUME NEW r \in Requests, Unmark(r) PROVE Sets /\ Made /\ Reqs
  <2>1. req[r] # Free
    BY <1>5 DEF Unmark, Free
  <2>2. Reqs
    BY <1>5, <1>b, <2>1 DEF Unmark
  <2> QED BY <1>5, <1>c, <2>2 DEF Unmark, TypeOK
<1>6. ASSUME NEW r \in Requests, Answer(r) PROVE Sets /\ Made /\ Reqs
  <2>1. req[r] # Free
    BY <1>6 DEF Answer, Free
  <2> QED BY <1>0, <1>6, <1>a, <2>1 DEF Answer, TypeOK
<1>7. ASSUME NEW r \in Requests, BudgetOut(r) PROVE Sets /\ Made /\ Reqs
  <2>1. req[r] # Free
    BY <1>7 DEF BudgetOut, Free
  <2>2. [req[r] EXCEPT !.answered = TRUE] \in Handlers
    BY <1>0, <2>1
  <2>3. Reqs
    BY <1>7, <1>a, <2>2 DEF BudgetOut
  <2> QED BY <1>7, <1>c, <2>3 DEF BudgetOut, TypeOK
<1>8. CASE Crash
  BY <1>8, <1>c DEF Crash, TypeOK
<1>9. CASE (\E e \in Events : Forget(e)) \/ UNCHANGED vars
  BY <1>9 DEF Forget, vars, TypeOK
<1> QED BY <1>1, <1>2, <1>3, <1>4, <1>5, <1>6, <1>7, <1>8, <1>9 DEF Next, Step

(* Every state has its type, and no more faults than the bound.            *)
THEOREM TypeCorrect == Spec => []TypeOK
<1>1. Init => TypeOK
  BY TypeInit
<1>2. TypeOK /\ [Next]_vars => TypeOK'
  BY TypeNext
<1> QED BY <1>1, <1>2, PTL DEF Spec

-----------------------------------------------------------------------------
(* Faults are remembered.                                                  *)

LEMMA HappenedStays == [Next]_vars => happened \subseteq happened'
<1> SUFFICES ASSUME [Next]_vars PROVE happened \subseteq happened'
  OBVIOUS
<1>1. ASSUME NEW f, Fault(f) PROVE happened \subseteq happened'
  BY <1>1 DEF Fault
<1>2. ASSUME NEW r \in Requests, Step(r) PROVE happened \subseteq happened'
  BY <1>1, <1>2 DEF Step, Check, Mark, Add, Unmark, Answer, NoFault
<1>3. ASSUME NEW r \in Requests, BudgetOut(r) PROVE happened \subseteq happened'
  BY <1>1, <1>3 DEF BudgetOut
<1>4. CASE Crash
  BY <1>1, <1>4 DEF Crash
<1> QED BY <1>2, <1>3, <1>4 DEF Next, Deliver, Forget, vars

-----------------------------------------------------------------------------
(* One handler per event.                                                  *)

(* As long as no handler was slow, Serial is kept: Wix sends an event      *)
(* again only when its last handler has answered, and nothing is left      *)
(* running.                                                                *)
LEMMA SerialNext ==
  ASSUME TypeOK, Serial, [Next]_vars, "slow" \notin happened'
  PROVE  Serial'
<1> USE DEF Serial, Busy, TypeOK, Free
<1>1. ASSUME NEW r \in Requests, NEW e \in Events, Deliver(r, e) PROVE Serial'
  <2>1. /\ req' = [req EXCEPT ![r] = [at |-> "check", event |-> e, answered |-> FALSE]]
        /\ \A x \in Requests : ~Busy(x, e)
    BY <1>1 DEF Deliver
  <2> QED BY <2>1
<1>2. ASSUME NEW r \in Requests, NEW step \in {"mark", "add", "unmark", "done", "failed"},
             req[r] # Free, Go(r, step)
      PROVE  Serial'
  <2>1. \A x \in Requests : req[x] # Free <=> req'[x] # Free
    BY <1>2 DEF Go
  <2>2. \A x \in Requests : req[x] # Free => req'[x].event = req[x].event /\ req'[x].answered = req[x].answered
    BY <1>2 DEF Go
  <2> QED BY <2>1, <2>2
<1>3. ASSUME NEW r \in Requests, Check(r) \/ Mark(r) \/ Add(r) \/ Unmark(r) PROVE Serial'
  <2>1. req[r] # Free
    BY <1>3 DEF Check, Mark, Add, Unmark
  <2> QED BY <1>2, <1>3, <2>1 DEF Check, Mark, Add, Unmark
<1>4. ASSUME NEW r \in Requests, Answer(r) PROVE Serial'
  <2>1. \A x \in Requests : req'[x] # Free => req'[x] = req[x]
    BY <1>4 DEF Answer
  <2> QED BY <2>1
<1>5. ASSUME NEW r \in Requests, BudgetOut(r) PROVE FALSE
  BY <1>5 DEF BudgetOut, Fault
<1>6. CASE Crash
  BY <1>6 DEF Crash
<1>7. CASE UNCHANGED req
  BY <1>7
<1> QED BY <1>1, <1>3, <1>4, <1>5, <1>6, <1>7 DEF Next, Step, Forget, vars

-----------------------------------------------------------------------------
(* No event twice.                                                         *)

(* What OnceInv says of events and of one handler.                         *)
Marked   == \A e \in Events : made[e] <= 1 /\ (made[e] > 0 => e \in processed)
Fresh(r) ==
  /\ req[r].at \in {"mark", "add", "unmark"} => made[req[r].event] = 0
  /\ req[r].at = "add" => req[r].event \in processed
  /\ req[r].at = "mark" => req[r].event \notin processed
  /\ req[r].at = "done" /\ Route[req[r].event] = "routed" => req[r].event \in processed

LEMMA OnceParts == OnceInv <=> Serial /\ Marked /\ \A r \in Requests : Fresh(r)
BY DEF OnceInv, Marked, Fresh

LEMMA OnceInit == Init => OnceInv
BY DEF Init, OnceInv, Serial, Free, Busy

(* The other handlers are of other events, which a handler's step leaves   *)
(* as they are.                                                            *)
LEMMA FreshElsewhere ==
  ASSUME TypeOK, Serial, NEW r \in Requests, req[r] # Free,
         NEW x \in Requests \ {r}, Fresh(x), req'[x] = req[x],
         \A e \in Events \ {req[r].event} : made'[e] = made[e] /\ (e \in processed' <=> e \in processed)
  PROVE  Fresh(x)'
<1>1. CASE req[x] = Free
  BY <1>1 DEF Fresh, Free
<1>2. CASE req[x] # Free
  <2>1. req[x].event \in Events \ {req[r].event}
    BY <1>2 DEF TypeOK, Serial, Busy
  <2> QED BY <2>1 DEF Fresh
<1> QED BY <1>1, <1>2

LEMMA OnceNext ==
  ASSUME TypeOK, OnceInv, [Next]_vars, ~Late'
  PROVE  OnceInv'
<1>1. Serial /\ TypeOK' /\ Serial' /\ Marked /\ \A r \in Requests : Fresh(r)
  BY TypeNext, SerialNext, OnceParts DEF Late
<1> SUFFICES Marked' /\ \A x \in Requests : Fresh(x)'
  BY <1>1 DEF OnceInv, Marked, Fresh
<1>a. ASSUME NEW r \in Requests, req[r] # Free, NEW p \in {"mark", "add", "unmark", "done", "failed"}, Go(r, p)
      PROVE  /\ req[r].event \in Events /\ req'[r].event = req[r].event /\ req'[r].at = p
             /\ \A x \in Requests \ {r} : req'[x] = req[x]
  BY <1>a DEF Go, TypeOK
<1>b. ASSUME NEW r \in Requests, req[r] # Free, Fresh(r)', Marked', NEW e \in Events, req[r].event = e,
             \A x \in Requests \ {r} : req'[x] = req[x],
             \A f \in Events \ {e} : made'[f] = made[f] /\ (f \in processed' <=> f \in processed)
      PROVE  Marked' /\ \A x \in Requests : Fresh(x)'
  BY <1>1, <1>b, FreshElsewhere
<1>2. ASSUME NEW r \in Requests, NEW e \in Events, Deliver(r, e) PROVE Marked' /\ \A x \in Requests : Fresh(x)'
  <2>1. req'[r].at = "check" /\ \A x \in Requests \ {r} : req'[x] = req[x]
    BY <1>2 DEF Deliver, TypeOK
  <2>2. UNCHANGED <<made, processed>>
    BY <1>2 DEF Deliver
  <2> QED BY <1>1, <2>1, <2>2 DEF Marked, Fresh
<1>3. ASSUME NEW r \in Requests, Check(r) PROVE Marked' /\ \A x \in Requests : Fresh(x)'
  <2>1. req[r] # Free /\ UNCHANGED <<made, processed>>
    BY <1>3 DEF Check, Free
  <2>2. PICK p \in {"mark", "done", "failed"} :
          /\ Go(r, p)
          /\ p = "done" => Route[req[r].event] = "invalid" \/ req[r].event \in processed
          /\ p = "mark" => req[r].event \notin processed
    BY <1>3 DEF Check
  <2>3. Marked'
    BY <1>1, <2>1 DEF Marked
  <2>4. Fresh(r)'
    BY <1>1, <1>a, <2>1, <2>2 DEF Fresh, Marked, TypeOK
  <2> QED BY <1>a, <1>b, <2>1, <2>2, <2>3, <2>4
<1>4. ASSUME NEW r \in Requests, Mark(r) PROVE Marked' /\ \A x \in Requests : Fresh(x)'
  <2>1. req[r] # Free /\ made' = made
    BY <1>4 DEF Mark, Free
  <2>2. PICK p \in {"add", "done", "failed"} :
          /\ Go(r, p)
          /\ p = "failed" => processed' \in {processed, processed \cup {req[r].event}}
          /\ p # "failed" => processed' = processed \cup {req[r].event}
    BY <1>4 DEF Mark
  <2>3. made[req[r].event] = 0
    BY <1>1, <1>4 DEF Mark, Fresh
  <2>4. Marked'
    BY <1>1, <2>1, <2>2 DEF Marked
  <2>5. Fresh(r)'
    BY <1>a, <2>1, <2>2, <2>3 DEF Fresh
  <2> QED BY <1>a, <1>b, <2>1, <2>2, <2>4, <2>5
<1>5. ASSUME NEW r \in Requests, Add(r) PROVE Marked' /\ \A x \in Requests : Fresh(x)'
  <2> DEFINE e == req[r].event
  <2>1. req[r] # Free /\ processed' = processed
    BY <1>5 DEF Add, Free
  <2>2. PICK p \in {"done", "unmark"} :
          /\ Go(r, p)
          /\ p = "done" => Queued(e)
          /\ p = "unmark" => UNCHANGED made
    BY <1>5 DEF Add, Fault, Late
  <2>3. e \in Events /\ made[e] = 0 /\ e \in processed
    BY <1>1, <1>5, <1>a, <2>1, <2>2 DEF Add, Fresh
  <2>4. \A f \in Events \ {e} : made'[f] = made[f]
    BY <2>2, <2>3 DEF Queued, TypeOK
  <2>5. made'[e] \in {0, 1} /\ (p = "unmark" => made'[e] = 0)
    BY <2>2, <2>3 DEF Queued, TypeOK
  <2>6. Marked'
    BY <1>1, <2>1, <2>3, <2>4, <2>5 DEF Marked
  <2>7. Fresh(r)'
    BY <1>a, <2>1, <2>2, <2>3, <2>5 DEF Fresh
  <2> QED BY <1>a, <1>b, <2>1, <2>2, <2>3, <2>4, <2>6, <2>7
<1>6. ASSUME NEW r \in Requests, Unmark(r) PROVE Marked' /\ \A x \in Requests : Fresh(x)'
  <2> DEFINE e == req[r].event
  <2>1. req[r] # Free /\ made' = made /\ Go(r, "failed") /\ processed' \in {processed, processed \ {e}}
    BY <1>6 DEF Unmark, Free
  <2>2. e \in Events /\ made[e] = 0
    BY <1>1, <1>6, <1>a, <2>1 DEF Unmark, Fresh
  <2>3. Marked'
    BY <1>1, <2>1, <2>2 DEF Marked
  <2>4. Fresh(r)'
    BY <1>a, <2>1 DEF Fresh
  <2> QED BY <1>a, <1>b, <2>1, <2>2, <2>3, <2>4
<1>7. ASSUME NEW r \in Requests, Answer(r) PROVE Marked' /\ \A x \in Requests : Fresh(x)'
  <2>1. \A x \in Requests : req'[x] = Free \/ req'[x] = req[x]
    BY <1>7 DEF Answer, TypeOK
  <2>2. UNCHANGED <<made, processed>>
    BY <1>7 DEF Answer
  <2> QED BY <1>1, <2>1, <2>2 DEF Marked, Fresh, Free
<1>8. ASSUME NEW r \in Requests, BudgetOut(r) PROVE FALSE
  BY <1>8 DEF BudgetOut, Fault, Late
<1>9. CASE Crash
  <2>1. UNCHANGED <<made, processed>> /\ \A x \in Requests : req'[x] = Free
    BY <1>9 DEF Crash
  <2> QED BY <1>1, <2>1 DEF Marked, Fresh, Free
<1>10. CASE (\E e \in Events : Forget(e)) \/ UNCHANGED vars
  BY <1>1, <1>10 DEF Forget, vars, Marked, Fresh
<1> QED BY <1>2, <1>3, <1>4, <1>5, <1>6, <1>7, <1>8, <1>9, <1>10 DEF Next, Step

-----------------------------------------------------------------------------
(* No event lost while handlers answer in time.                            *)

(* What AckInv says of one event.                                          *)
Kept(e) ==
  /\ e \in jobs => made[e] > 0
  /\ Route[e] = "routed" =>
       /\ e \in acked => made[e] > 0
       /\ e \in processed =>
            made[e] > 0 \/ \E r \in Requests : Busy(r, e) /\ req[r].at \in {"add", "unmark"}
       /\ \A r \in Requests : Busy(r, e) /\ req[r].at = "done" => made[e] > 0

LEMMA AckParts == TypeOK => (AckInv <=> Serial /\ \A e \in Events : Kept(e))
BY DEF AckInv, Kept, TypeOK

LEMMA AckInit == Init => AckInv
BY DEF Init, AckInv, Serial, Free, Busy

(* A step of another event's handler leaves an event's part alone.         *)
LEMMA KeptElsewhere ==
  ASSUME NEW e \in Events, Kept(e), NEW r \in Requests, ~Busy(r, e), ~Busy(r, e)',
         \A x \in Requests \ {r} : req'[x] = req[x],
         made'[e] = made[e], e \in jobs' => e \in jobs,
         e \in acked' => e \in acked, e \in processed' => e \in processed
  PROVE  Kept(e)'
BY DEF Kept, Busy

LEMMA AckNext ==
  ASSUME TypeOK, AckInv, [Next]_vars, happened' \cap {"slow", "crash", "unmark", "db_lost"} = {}
  PROVE  AckInv'
<1>1. Serial /\ TypeOK' /\ Serial' /\ \A e \in Events : Kept(e)
  BY TypeNext, SerialNext, AckParts
<1> SUFFICES ASSUME NEW e \in Events PROVE Kept(e)'
  BY <1>1, AckParts DEF AckInv, Kept, TypeOK
<1> USE DEF TypeOK, Free
<1>2. ASSUME NEW r \in Requests, NEW f \in Events, Deliver(r, f) PROVE Kept(e)'
  <2>1. \A x \in Requests \ {r} : req'[x] = req[x]
    BY <1>1, <1>2 DEF Deliver
  <2>2. ~Busy(r, e) /\ req'[r].at = "check"
    BY <1>1, <1>2 DEF Deliver, Busy
  <2> QED BY <1>1, <1>2, <2>1, <2>2 DEF Deliver, Kept, Busy
<1>3. ASSUME NEW r \in Requests, Check(r) \/ Mark(r) \/ Add(r) \/ Unmark(r) \/ Answer(r), ~Busy(r, e)
      PROVE  Kept(e)'
  <2> DEFINE f == req[r].event
  <2>1. f \in Events \ {e} /\ req[r] # Free
    BY <1>1, <1>3 DEF Check, Mark, Add, Unmark, Answer, Busy
  <2>2. \A x \in Requests \ {r} : req'[x] = req[x]
    BY <1>1, <1>3 DEF Check, Mark, Add, Unmark, Answer, Go
  <2>3. ~Busy(r, e)'
    BY <1>1, <1>3, <2>1 DEF Check, Mark, Add, Unmark, Answer, Go, Busy
  <2>4. made'[e] = made[e] /\ (e \in jobs' => e \in jobs)
    BY <1>1, <1>3, <2>1 DEF Check, Mark, Add, Unmark, Answer, Queued
  <2>5. (e \in acked' => e \in acked) /\ (e \in processed' => e \in processed)
    BY <1>1, <1>3, <2>1 DEF Check, Mark, Add, Unmark, Answer
  <2> QED BY <1>1, <1>3, <2>2, <2>3, <2>4, <2>5, KeptElsewhere
<1>4. ASSUME NEW r \in Requests, Busy(r, e), Check(r) \/ Mark(r) \/ Add(r) \/ Unmark(r) \/ Answer(r)
      PROVE  Kept(e)'
  <2>1. req[r].event = e /\ \A x \in Requests \ {r} : ~Busy(x, e)
    BY <1>1, <1>4 DEF Serial, Busy
  <2>2. \A x \in Requests \ {r} : req'[x] = req[x]
    BY <1>1, <1>4 DEF Check, Mark, Add, Unmark, Answer, Go
  <2>3. \A x \in Requests \ {r} : ~Busy(x, e)'
    BY <2>1, <2>2 DEF Busy
  <2>4. CASE Check(r)
    <3>1. e \in processed /\ Route[e] = "routed" => made[e] > 0
      BY <1>1, <2>1, <2>4 DEF Check, Kept, Busy
    <3> QED BY <1>1, <2>1, <2>3, <2>4, <3>1 DEF Check, Go, Kept, Busy
  <2>5. CASE Mark(r)
    <3>1. e \in processed /\ Route[e] = "routed" => made[e] > 0
      BY <1>1, <2>1, <2>5 DEF Mark, Kept, Busy
    <3>2. Route[e] = "routed" => req'[r].at \in {"add", "failed"} /\ Busy(r, e)'
      BY <1>1, <1>4, <2>1, <2>5 DEF Mark, Go, Busy, Fault
    <3>3. req'[r].at = "failed" => processed' = processed
      BY <1>1, <2>5 DEF Mark, Go, Fault
    <3> QED BY <1>1, <2>1, <2>3, <2>5, <3>1, <3>2, <3>3 DEF Mark, Kept, Busy
  <2>6. CASE Add(r)
    <3>1. Busy(r, e)' /\ req'[r].at \in {"done", "unmark"}
      BY <1>1, <1>4, <2>1, <2>6 DEF Add, Go, Busy
    <3>2. CASE Queued(e)
      <4>1. made'[e] > 0
        BY <1>1, <3>2 DEF Queued, Kept
      <4> QED BY <4>1 DEF Kept
    <3>3. CASE UNCHANGED <<jobs, made>> /\ req'[r].at = "unmark"
      BY <1>1, <2>1, <2>3, <2>6, <3>1, <3>3 DEF Add, Kept, Busy
    <3> QED BY <1>1, <2>1, <2>6, <3>2, <3>3 DEF Add, Go
  <2>7. CASE Unmark(r)
    <3>1. processed' = processed \ {e} /\ req'[r].at = "failed"
      BY <1>1, <2>1, <2>7 DEF Unmark, Go, Fault
    <3> QED BY <1>1, <2>1, <2>3, <2>7, <3>1 DEF Unmark, Kept, Busy
  <2>8. CASE Answer(r)
    <3>1. Route[e] = "routed" /\ e \in acked' => made[e] > 0
      BY <1>1, <1>4, <2>1, <2>8 DEF Answer, Kept, Busy
    <3>2. e \in processed /\ Route[e] = "routed" => made[e] > 0
      BY <1>1, <2>1, <2>8 DEF Answer, Kept, Busy
    <3>3. req'[r] = Free
      BY <1>1, <2>8 DEF Answer
    <3> QED BY <1>1, <2>3, <2>8, <3>1, <3>2, <3>3 DEF Answer, Kept, Busy
  <2> QED BY <1>4, <2>4, <2>5, <2>6, <2>7, <2>8
<1>5. ASSUME NEW r \in Requests, BudgetOut(r) PROVE FALSE
  BY <1>5 DEF BudgetOut, Fault
<1>6. CASE Crash
  BY <1>6 DEF Crash, Fault
<1>7. ASSUME NEW f \in Events, Forget(f) PROVE Kept(e)'
  BY <1>1, <1>7 DEF Forget, Kept, Busy
<1>8. CASE UNCHANGED vars
  BY <1>1, <1>8 DEF vars, Kept, Busy
<1> QED BY <1>2, <1>3, <1>4, <1>5, <1>6, <1>7, <1>8 DEF Next, Step

-----------------------------------------------------------------------------
(* No event lost while the queue refuses no job, however late the answers. *)

(* What AddInv says of one event.                                          *)
Owed(e) == e \in acked \/ e \in processed \/ \E r \in Requests : Busy(r, e) /\ req[r].at = "done"
Followed(e) ==
  /\ e \in jobs => made[e] > 0
  /\ Route[e] = "routed" =>
       /\ Owed(e) => made[e] > 0 \/ Coming(e)
       /\ \A r \in Requests : Busy(r, e) /\ req[r].at = "unmark" => made[e] > 0

LEMMA AddParts == TypeOK => (AddInv <=> \A e \in Events : Followed(e))
BY DEF AddInv, Followed, Owed, TypeOK

LEMMA AddInit == Init => AddInv
BY DEF Init, AddInv, Free, Busy

LEMMA AddNext ==
  ASSUME TypeOK, AddInv, [Next]_vars, happened' \cap {"add", "crash", "unmark", "db_lost"} = {}
  PROVE  AddInv'
<1>1. TypeOK' /\ \A e \in Events : Followed(e)
  BY TypeNext, AddParts
<1> SUFFICES ASSUME NEW e \in Events PROVE Followed(e)'
  BY <1>1, AddParts DEF AddInv, Followed, Owed, Coming, Busy, TypeOK
<1>a. \A r \in Requests : Busy(r, e) => req[r].event = e /\ req[r] # Free
  BY DEF Busy
<1> DEFINE Others(r) == \A x \in Requests \ {r} : req'[x] = req[x]
<1>2. ASSUME NEW r \in Requests, NEW f \in Events, Deliver(r, f) PROVE Followed(e)'
  <2>1. Others(r) /\ req[r] = Free /\ req'[r].at = "check"
    BY <1>2 DEF Deliver, TypeOK
  <2>2. UNCHANGED <<made, jobs, acked, processed>>
    BY <1>2 DEF Deliver
  <2>3. Coming(e) => Coming(e)'
    BY <2>1 DEF Coming, Free
  <2> QED BY <1>1, <2>1, <2>2, <2>3 DEF Followed, Owed, Busy
<1>3. ASSUME NEW r \in Requests, NEW p \in {"mark", "done", "failed"}, req[r].at = "check", Go(r, p),
             UNCHANGED <<made, jobs, acked, processed>>,
             p = "done" => Route[req[r].event] = "invalid" \/ req[r].event \in processed
      PROVE  Followed(e)'
  <2>1. Others(r) /\ req[r] # Free /\ req'[r].at = p /\ req'[r].event = req[r].event
    BY <1>3 DEF Go, TypeOK, Free
  <2>2. Coming(e) => Coming(e)'
    BY <1>3, <2>1 DEF Coming, Free
  <2>3. Route[e] = "routed" /\ Owed(e)' => Owed(e)
    BY <1>3, <2>1 DEF Owed, Busy
  <2>4. \A x \in Requests : Busy(x, e)' /\ req'[x].at = "unmark" => Busy(x, e) /\ req[x].at = "unmark"
    BY <1>3, <2>1 DEF Busy
  <2> QED BY <1>1, <1>3, <2>2, <2>3, <2>4 DEF Followed
<1>4. ASSUME NEW r \in Requests, Check(r) PROVE Followed(e)'
  BY <1>3, <1>4 DEF Check, NoFault
<1>5. ASSUME NEW r \in Requests, Mark(r) PROVE Followed(e)'
  <2>1. PICK p \in {"add", "done", "failed"} :
          /\ Go(r, p)
          /\ p = "failed" => processed' = processed
          /\ p # "failed" => processed' = processed \cup {req[r].event}
          /\ Route[req[r].event] = "routed" => p # "done"
    BY <1>5 DEF Mark, Fault
  <2>2. UNCHANGED <<made, jobs, acked>> /\ req[r].at = "mark" /\ req[r] # Free
    BY <1>5 DEF Mark, Free
  <2>3. Others(r) /\ req'[r].at = p /\ req'[r].event = req[r].event /\ req'[r] # Free
    BY <2>1, <2>2 DEF Go, TypeOK, Free
  <2>4. Coming(e) => Coming(e)'
    BY <2>2, <2>3 DEF Coming, Free
  <2>5. Route[e] = "routed" /\ Owed(e)' => Owed(e) \/ Coming(e)'
    <3>1. CASE req[r].event = e
      BY <2>1, <2>2, <2>3, <3>1 DEF Owed, Busy, Coming
    <3>2. CASE req[r].event # e
      BY <2>1, <2>2, <2>3, <3>2 DEF Owed, Busy
    <3> QED BY <3>1, <3>2
  <2>6. \A x \in Requests : Busy(x, e)' /\ req'[x].at = "unmark" => Busy(x, e) /\ req[x].at = "unmark"
    BY <2>1, <2>2, <2>3 DEF Busy
  <2> QED BY <1>1, <2>2, <2>4, <2>5, <2>6 DEF Followed
<1>6. ASSUME NEW r \in Requests, Add(r) PROVE Followed(e)'
  <2>1. PICK p \in {"done", "unmark"} : Go(r, p) /\ Queued(req[r].event)
    BY <1>6 DEF Add, Fault
  <2>2. UNCHANGED <<processed, acked>> /\ req[r].at = "add" /\ req[r] # Free
    BY <1>6 DEF Add, Free
  <2>3. Others(r) /\ req'[r].at = p /\ req'[r].event = req[r].event
    BY <2>1, <2>2 DEF Go, TypeOK, Free
  <2>4. CASE req[r].event = e
    <3>1. made'[e] > 0
      BY <1>1, <2>1, <2>4 DEF Queued, TypeOK, Followed
    <3> QED BY <3>1 DEF Followed
  <2>5. CASE req[r].event # e
    <3>1. made'[e] = made[e] /\ (e \in jobs' => e \in jobs)
      BY <2>1, <2>2, <2>5 DEF Queued, TypeOK
    <3>2. Coming(e) => Coming(e)'
      BY <2>2, <2>3, <2>5 DEF Coming, Free
    <3>3. \A x \in Requests : Busy(x, e)' => Busy(x, e) /\ req'[x] = req[x]
      BY <2>2, <2>3, <2>5 DEF Busy
    <3> QED BY <1>1, <2>2, <3>1, <3>2, <3>3 DEF Followed, Owed
  <2> QED BY <2>4, <2>5
<1>7. ASSUME NEW r \in Requests, Unmark(r) PROVE Followed(e)'
  <2>1. /\ Go(r, "failed") /\ processed' \subseteq processed /\ UNCHANGED <<made, jobs, acked>>
        /\ req[r].at = "unmark" /\ req[r] # Free
    BY <1>7 DEF Unmark, Free
  <2>2. Others(r) /\ req'[r].at = "failed" /\ req'[r].event = req[r].event
    BY <2>1 DEF Go, TypeOK, Free
  <2>3. Coming(e) => Coming(e)'
    BY <2>1, <2>2 DEF Coming, Free
  <2>4. \A x \in Requests : Busy(x, e)' /\ req'[x].at \in {"done", "unmark"} => Busy(x, e) /\ req'[x] = req[x]
    BY <2>1, <2>2 DEF Busy
  <2> QED BY <1>1, <2>1, <2>3, <2>4 DEF Followed, Owed
<1>8. ASSUME NEW r \in Requests, Answer(r) PROVE Followed(e)'
  <2>1. req[r].at \in {"done", "failed"} /\ UNCHANGED <<made, jobs, processed>> /\ Others(r) /\ req'[r] = Free /\ req[r] # Free
    BY <1>8 DEF Answer, TypeOK, Free
  <2>2. e \in acked' => Owed(e)
    BY <1>8, <2>1 DEF Answer, Owed, Busy
  <2>3. Coming(e) => Coming(e)'
    BY <2>1 DEF Coming, Free
  <2>4. \A x \in Requests : Busy(x, e)' => Busy(x, e) /\ req'[x] = req[x]
    BY <2>1 DEF Busy
  <2> QED BY <1>1, <2>1, <2>2, <2>3, <2>4 DEF Followed, Owed
<1>9. ASSUME NEW r \in Requests, BudgetOut(r) PROVE Followed(e)'
  <2>1. UNCHANGED <<made, jobs, processed, acked>> /\ Others(r) /\ req[r] # Free
    BY <1>9 DEF BudgetOut, Free
  <2>2. req'[r].at = req[r].at /\ req'[r].event = req[r].event /\ req'[r] # Free
    BY <1>9, <2>1 DEF BudgetOut, TypeOK, Free
  <2>3. Coming(e) <=> Coming(e)'
    BY <2>1, <2>2 DEF Coming
  <2>4. \A x \in Requests : (Busy(x, e) <=> Busy(x, e)') /\ (Busy(x, e) => req'[x].at = req[x].at)
    BY <2>1, <2>2 DEF Busy
  <2> QED BY <1>1, <2>1, <2>3, <2>4 DEF Followed, Owed
<1>10. CASE Crash
  BY <1>10 DEF Crash, Fault
<1>11. CASE (\E f \in Events : Forget(f)) \/ UNCHANGED vars
  BY <1>1, <1>11 DEF Forget, vars, Followed, Owed, Coming, Busy
<1> QED BY <1>2, <1>4, <1>5, <1>6, <1>7, <1>8, <1>9, <1>10, <1>11 DEF Next, Step

-----------------------------------------------------------------------------
(* The three invariants together, and what they are for.                   *)

LEMMA IngressInit == Init => IngressInv
BY TypeInit, OnceInit, AckInit, AddInit DEF IngressInv

LEMMA IngressNext == IngressInv /\ [Next]_vars => IngressInv'
<1> SUFFICES ASSUME IngressInv, [Next]_vars PROVE IngressInv'
  OBVIOUS
<1>1. TypeOK /\ TypeOK'
  BY TypeNext DEF IngressInv
<1>2. happened \subseteq happened'
  BY HappenedStays
<1>3. ASSUME ~Late' PROVE OnceInv'
  <2>1. ~Late
    BY <1>2, <1>3 DEF Late
  <2> QED BY <1>1, <1>3, <2>1, OnceNext DEF IngressInv
<1>4. ASSUME Sound', "slow" \notin happened' PROVE AckInv'
  <2>1. Sound /\ "slow" \notin happened
    BY <1>2, <1>4 DEF Sound
  <2>2. happened' \cap {"slow", "crash", "unmark", "db_lost"} = {}
    BY <1>4 DEF Sound
  <2> QED BY <1>1, <2>1, <2>2, AckNext DEF IngressInv
<1>5. ASSUME Sound', "add" \notin happened' PROVE AddInv'
  <2>1. Sound /\ "add" \notin happened
    BY <1>2, <1>5 DEF Sound
  <2>2. happened' \cap {"add", "crash", "unmark", "db_lost"} = {}
    BY <1>5 DEF Sound
  <2> QED BY <1>1, <2>1, <2>2, AddNext DEF IngressInv
<1> QED BY <1>1, <1>3, <1>4, <1>5 DEF IngressInv

LEMMA IngressAlways == Spec => []IngressInv
BY IngressInit, IngressNext, PTL DEF Spec

(* While handlers answer in time and the queue says what it did, no event  *)
(* is made a job twice, whatever crashes, refused jobs, failed unmarks and *)
(* forgotten job ids happen (webhook-processor.js, mark before enqueue).   *)
THEOREM NoEventTwice == Spec => []OncePerEvent
<1>1. IngressInv => OncePerEvent
  BY DEF IngressInv, OnceInv, OncePerEvent
<1> QED BY <1>1, IngressAlways, PTL

(* While nothing crashes, the database says what it did and no job is      *)
(* refused behind a 503, an event Wix has seen a 200 for is queued,        *)
(* however slow handlers are, or however often the queue refuses jobs      *)
(* (wix-connector.js, step 2).                                             *)
THEOREM NothingAckedIsLost == Spec => []AckedIsQueued
<1>1. IngressInv => AckedIsQueued
  <2> SUFFICES ASSUME IngressInv, Sound, NEW e \in acked, Route[e] = "routed"
               PROVE  made[e] > 0 \/ Coming(e)
    BY DEF AckedIsQueued
  <2>1. e \in Events
    BY DEF IngressInv, TypeOK
  <2>2. CASE "slow" \notin happened
    BY <2>1, <2>2 DEF IngressInv, AckInv
  <2>3. CASE "slow" \in happened
    BY <2>1, <2>3 DEF IngressInv, AddInv, Sound
  <2> QED BY <2>2, <2>3
<1> QED BY <1>1, IngressAlways, PTL

-----------------------------------------------------------------------------
(* The refinement.  A handler's step decides the fate of its own event     *)
(* only, a crash that of every event which is marked and not yet queued.   *)

UnderWay(e) == \E r \in Requests : Busy(r, e) /\ req[r].at \in {"add", "unmark"}

LEMMA FateOf ==
  ASSUME TypeOK, NEW e \in Events, made[e] <= 1
  PROVE  /\ made[e] = 1 => Fate(e) = "queued"
         /\ made[e] # 1 => Fate(e) = IF e \in processed /\ ~UnderWay(e) THEN "lost" ELSE "new"
BY DEF TypeOK, Fate, UnderWay, Busy

LEMMA FateKept ==
  ASSUME NEW e \in Events, made'[e] = made[e], e \in processed' <=> e \in processed, UnderWay(e)' <=> UnderWay(e)
  PROVE  Fate(e)' = Fate(e)
BY DEF Fate, UnderWay, Busy

(* What a step of r leaves of the other events.                            *)
LEMMA FateElsewhere ==
  ASSUME NEW r \in Requests, NEW e \in Events, req[r] # Free, req[r].event # e,
         req'[r] = Free \/ req'[r].event = req[r].event,
         \A x \in Requests \ {r} : req'[x] = req[x],
         made'[e] = made[e], e \in processed' <=> e \in processed
  PROVE  Fate(e)' = Fate(e)
<1>1. UnderWay(e)' <=> UnderWay(e)
  BY DEF UnderWay, Busy
<1> QED BY <1>1, FateKept

LEMMA InboxInit == Init => Inbox!Init
<1> SUFFICES ASSUME Init PROVE Inbox!Init
  OBVIOUS
<1>1. \A e \in Routed : Fate(e) = "new"
  BY DEF Init, Fate, Routed
<1>2. Late = FALSE
  BY DEF Init, Late
<1> QED BY <1>1, <1>2 DEF Init, Inbox!Init

LEMMA InboxNext == IngressInv /\ [Next]_vars => [Inbox!Next]_(Inbox!vars)
<1> DEFINE Promised == Inbox!Next \/ UNCHANGED Inbox!vars
<1> SUFFICES ASSUME IngressInv, [Next]_vars PROVE Promised
  OBVIOUS
<1>1. TypeOK /\ TypeOK' /\ IngressInv' /\ happened \subseteq happened'
  BY IngressNext, HappenedStays DEF IngressInv
<1>2. CASE Late'
  <2>1. [e \in Routed |-> Fate(e)]' \in [Routed -> Inbox!Fates]
    BY DEF Fate, Inbox!Fates
  <2> QED BY <1>2, <2>1 DEF Inbox!Next, Inbox!Slip
<1>3. CASE ~Late'
  <2>1. Late = FALSE /\ Late' = FALSE /\ OnceInv /\ OnceInv'
    BY <1>1, <1>3 DEF Late, IngressInv
  <2>2. \A e \in Events : made[e] <= 1 /\ made'[e] <= 1
    BY <2>1 DEF OnceInv
  <2>3. Routed \subseteq Events
    BY DEF Routed
  <2>z. ASSUME acked' \cap Routed = acked \cap Routed, \A e \in Routed : Fate(e)' = Fate(e)
        PROVE  Promised
    BY <2>1, <2>z DEF Inbox!vars
  <2>a. ASSUME NEW gone \in SUBSET Routed, acked' \cap Routed = acked \cap Routed,
               \A e \in gone : Fate(e) = "new" /\ Fate(e)' = "lost",
               \A e \in Routed \ gone : Fate(e)' = Fate(e)
        PROVE  Promised
    <3>1. Inbox!Lose(gone)
      BY <2>1, <2>a DEF Inbox!Lose
    <3> QED BY <3>1 DEF Inbox!Next
  <2>b. ASSUME NEW e \in Events, acked' \cap Routed = acked \cap Routed,
               \A x \in Routed \ {e} : Fate(x)' = Fate(x),
               e \in Routed => Fate(e)' = Fate(e) \/ (Fate(e) = "new" /\ Fate(e)' \in {"queued", "lost"})
        PROVE  Promised
    <3>1. CASE e \in Routed /\ Fate(e) = "new" /\ Fate(e)' = "queued"
      <4>1. Inbox!Queue(e)
        BY <2>1, <2>b, <3>1 DEF Inbox!Queue
      <4> QED BY <3>1, <4>1 DEF Inbox!Next
    <3>2. CASE e \in Routed /\ Fate(e) = "new" /\ Fate(e)' = "lost"
      <4>1. {e} \in SUBSET Routed
        BY <3>2
      <4>2. \A x \in {e} : Fate(x) = "new" /\ Fate(x)' = "lost"
        BY <3>2
      <4> QED BY <2>a, <2>b, <4>1, <4>2
    <3>3. CASE e \notin Routed \/ Fate(e)' = Fate(e)
      <4>1. \A x \in Routed : Fate(x)' = Fate(x)
        BY <2>b, <3>3
      <4> QED BY <2>z, <2>b, <4>1
    <3> QED BY <2>b, <3>1, <3>2, <3>3
  \* A step that decides the fate of r's event.
  <2>c. ASSUME NEW r \in Requests, NEW e \in Events, e = req[r].event, req[r] # Free, req[r].at \in {"mark", "add", "unmark"}, acked' = acked,
               req'[r] # Free, req'[r].event = req[r].event, \A x \in Requests \ {r} : req'[x] = req[x],
               \A x \in Events \ {e} : made'[x] = made[x] /\ (x \in processed' <=> x \in processed)
        PROVE  Promised
    <3>2. \A x \in Routed \ {e} : Fate(x)' = Fate(x)
      BY <2>3, <2>c, FateElsewhere
    <3>3. Fate(e) = "new"
      <4>1. made[e] = 0 /\ (e \notin processed \/ UnderWay(e))
        BY <2>1, <2>c DEF OnceInv, UnderWay, Busy
      <4> QED BY <1>1, <2>2, <4>1, FateOf
    <3>4. Fate(e)' \in {"new", "queued", "lost"}
      <4>1. made'[e] <= 1
        BY <2>2
      <4> QED BY <1>1, <4>1 DEF Fate, TypeOK
    <3>5. acked' \cap Routed = acked \cap Routed
      BY <2>c
    <3>6. e \in Routed => Fate(e)' = Fate(e) \/ (Fate(e) = "new" /\ Fate(e)' \in {"queued", "lost"})
      BY <3>3, <3>4
    <3> QED BY <2>b, <3>2, <3>5, <3>6
  <2>4. ASSUME NEW r \in Requests, NEW e \in Events, Deliver(r, e) PROVE Promised
    <3>1. \A x \in Routed : UnderWay(x)' <=> UnderWay(x)
      BY <1>1, <2>4 DEF Deliver, UnderWay, Busy, TypeOK, Free
    <3>2. \A x \in Routed : Fate(x)' = Fate(x)
      BY <2>3, <2>4, <3>1, FateKept DEF Deliver
    <3> QED BY <2>z, <2>4, <3>2 DEF Deliver
  <2>5. ASSUME NEW r \in Requests, Check(r) PROVE Promised
    <3>1. /\ req[r] # Free /\ req'[r] # Free /\ req'[r].event = req[r].event
          /\ req'[r].at \in {"done", "mark", "failed"}
          /\ \A x \in Requests \ {r} : req'[x] = req[x]
      BY <1>1, <2>5 DEF Check, Go, TypeOK, Free
    <3>2. \A x \in Routed : UnderWay(x)' <=> UnderWay(x)
      BY <2>5, <3>1 DEF UnderWay, Busy, Check
    <3>3. \A x \in Routed : Fate(x)' = Fate(x)
      BY <2>3, <2>5, <3>2, FateKept DEF Check
    <3> QED BY <2>z, <2>5, <3>3 DEF Check
  <2>6. ASSUME NEW r \in Requests, Mark(r) PROVE Promised
    <3>0. PICK e \in Events : e = req[r].event
      BY <1>1, <2>6 DEF Mark, TypeOK, Free
    <3>1. /\ req[r] # Free /\ req'[r] # Free /\ req'[r].event = req[r].event
          /\ \A x \in Requests \ {r} : req'[x] = req[x]
      BY <1>1, <2>6 DEF Mark, Go, TypeOK, Free
    <3> QED BY <2>6, <2>c, <3>0, <3>1 DEF Mark
  <2>7. ASSUME NEW r \in Requests, Add(r) PROVE Promised
    <3>0. PICK e \in Events : e = req[r].event
      BY <1>1, <2>7 DEF Add, TypeOK, Free
    <3>1. /\ req[r] # Free /\ req'[r] # Free /\ req'[r].event = req[r].event
          /\ \A x \in Requests \ {r} : req'[x] = req[x]
      BY <1>1, <2>7 DEF Add, Go, TypeOK, Free
    <3>2. \A x \in Events \ {e} : made'[x] = made[x]
      BY <1>1, <2>7, <3>0 DEF Add, Queued, TypeOK
    <3> QED BY <2>7, <2>c, <3>0, <3>1, <3>2 DEF Add
  <2>8. ASSUME NEW r \in Requests, Unmark(r) PROVE Promised
    <3>0. PICK e \in Events : e = req[r].event
      BY <1>1, <2>8 DEF Unmark, TypeOK, Free
    <3>1. /\ req[r] # Free /\ req'[r] # Free /\ req'[r].event = req[r].event
          /\ \A x \in Requests \ {r} : req'[x] = req[x]
      BY <1>1, <2>8 DEF Unmark, Go, TypeOK, Free
    <3> QED BY <2>8, <2>c, <3>0, <3>1 DEF Unmark
  <2>9. ASSUME NEW r \in Requests, Answer(r) PROVE Promised
    <3>0. PICK e \in Events : e = req[r].event
      BY <1>1, <2>9 DEF Answer, TypeOK, Free
    <3>1. req[r] # Free /\ req'[r] = Free /\ \A x \in Requests \ {r} : req'[x] = req[x]
      BY <1>1, <2>9 DEF Answer, TypeOK, Free
    <3>2. \A x \in Routed : UnderWay(x)' <=> UnderWay(x)
      BY <2>9, <3>1 DEF UnderWay, Busy, Answer
    <3>3. \A x \in Routed : Fate(x)' = Fate(x)
      BY <2>3, <2>9, <3>2, FateKept DEF Answer
    <3>4. CASE acked' = acked \/ e \notin Routed
      <4>1. acked' \cap Routed = acked \cap Routed
        BY <2>9, <3>0, <3>4 DEF Answer
      <4> QED BY <2>z, <3>3, <4>1
    <3>5. CASE acked' # acked /\ e \in Routed
      <4>1. req[r].at = "done" /\ acked' = acked \cup {e}
        BY <2>9, <3>0, <3>5 DEF Answer
      <4>2. e \in processed /\ ~UnderWay(e)
        BY <2>1, <2>3, <3>0, <3>1, <3>5, <4>1 DEF OnceInv, Serial, Routed, UnderWay, Busy
      <4>3. Fate(e) # "new"
        BY <1>1, <2>2, <2>3, <3>5, <4>2, FateOf
      <4>4. Inbox!Tell(e)
        BY <2>1, <3>3, <3>5, <4>1, <4>3 DEF Inbox!Tell
      <4> QED BY <3>5, <4>4 DEF Inbox!Next
    <3> QED BY <3>4, <3>5
  <2>10. ASSUME NEW r \in Requests, BudgetOut(r) PROVE FALSE
    BY <1>3, <2>10 DEF BudgetOut, Fault, Late
  <2>11. ASSUME Crash PROVE Promised
    <3> DEFINE gone == {e \in Routed : Fate(e) = "new" /\ e \in processed}
    <3>1. \A e \in Events : ~UnderWay(e)'
      BY <2>11 DEF Crash, UnderWay, Busy
    <3>2. made' = made /\ processed' = processed /\ acked' = acked
      BY <2>11 DEF Crash
    <3>3. ASSUME NEW e \in gone PROVE Fate(e)' = "lost"
      <4>1. made[e] # 1
        BY <1>1, <2>2, <2>3, FateOf
      <4>2. made'[e] <= 1 /\ made'[e] # 1 /\ e \in processed' /\ e \in Events
        BY <2>2, <2>3, <3>2, <4>1
      <4> QED BY <1>1, <3>1, <4>2 DEF Fate, UnderWay, Busy, TypeOK
    <3>4. ASSUME NEW e \in Routed \ gone PROVE Fate(e)' = Fate(e)
      BY <3>1, <3>2, <3>4, <2>3 DEF Fate, UnderWay, Busy
    <3> QED BY <2>a, <3>2, <3>3, <3>4
  <2>12. ASSUME NEW e \in Events, Forget(e) PROVE Promised
    <3>1. \A x \in Routed : Fate(x)' = Fate(x)
      BY <2>12 DEF Forget, Fate
    <3> QED BY <2>z, <2>12, <3>1 DEF Forget
  <2>13. CASE UNCHANGED vars
    BY <2>13 DEF vars, Inbox!vars, Fate, Late
  <2> QED BY <2>4, <2>5, <2>6, <2>7, <2>8, <2>9, <2>10, <2>11, <2>12, <2>13 DEF Next, Step
<1> QED BY <1>2, <1>3

(* The handler implements the inbox: as long as no handler outlives its    *)
(* answer and the queue says what it did, the fate of every event that has *)
(* a route is decided once and no 200 goes out before it is, whatever      *)
(* crashes, is refused, is lost by the database or is forgotten.           *)
THEOREM TheInboxIsKept == Spec => KeepsInbox
<1>1. Init => Inbox!Init
  BY InboxInit
<1>2. IngressInv /\ [Next]_vars => [Inbox!Next]_(Inbox!vars)
  BY InboxNext
<1> QED BY <1>1, <1>2, IngressAlways, PTL DEF Spec, KeepsInbox, Inbox!Spec

-----------------------------------------------------------------------------
-----------------------------------------------------------------------------
(* What the variables hold.                                                *)

Items == [who : Members, plan : Plans, event : {"grant", "revoke"}]

Pending == {"waiting", "delayed", "active"}

Jobs ==
  [at : Pending \cup {"done", "failed"}, work : Items, made : Nat, max : Nat \ {0},
   run : Nat, row : Nat, stalls : 0 .. MaxStalledCount + 1]

Rows ==
  [work : Items, code : Codes, status : {"failed", "resolved"}, recent : BOOLEAN,
   fresh : BOOLEAN, old : BOOLEAN, count : Nat \ {0},
   told : {"no", "spared", "mailed", "logged"}]

(* Ids are taken in turn, no attempt is made beyond the last, and a job    *)
(* that stalled too often is not given out again.                          *)
QueueFits ==
  /\ queue \in [JobIds -> {Unused} \cup Jobs]
  /\ \A j \in JobIds : Exists(j) =>
       /\ queue[j].made <= queue[j].max
       /\ queue[j].at \in Pending =>
            queue[j].made < queue[j].max /\ queue[j].stalls <= MaxStalledCount
  /\ \E n \in Nat : \A j \in JobIds : Exists(j) <=> j <= n

RunsFit ==
  /\ IsFiniteSet(runs)
  /\ runs \subseteq [job : JobIds, no : Nat \ {0}, at : {"begun", "working", "lapsed"}]
  /\ \A r \in runs : Exists(r.job)

LockFits == memberLock \in [Members -> JobIds \cup {NoJob}]

ErrorsFit == errorQueue \in Seq(Rows)

SamePlan(v, w) == v.who = w.who /\ v.plan = w.plan

(* A letter is of a job that failed; what it is about to count up is a row *)
(* of the same person and plan.                                            *)
LetterFits(l) ==
  /\ l \in [job : JobIds, code : Codes, at : {"find", "write", "cause", "tell"},
            row : Nat, new : BOOLEAN]
  /\ queue[l.job].at = "failed"
  /\ l.row <= Len(errorQueue)
  /\ l.at = "cause" => l.row # 0
  /\ l.at = "write" /\ l.row # 0 => SamePlan(errorQueue[l.row].work, queue[l.job].work)

LettersFit == \A l \in letters : LetterFits(l)

(* A click that has queued its job again knows the job by its row.         *)
ClickFits(k) ==
  /\ k \in [at : {"add", "resolve"}, row : Nat \ {0}, job : JobIds \cup {NoJob}]
  /\ k.row <= Len(errorQueue)
  /\ k.at = "resolve" /\ k.job # NoJob =>
       /\ Exists(k.job) /\ queue[k.job].row # 0
       /\ queue[k.job].work = errorQueue[k.row].work

ClicksFit ==
  /\ DOMAIN clicks = Clicks
  /\ \A c \in Clicks : clicks[c] = Unused \/ ClickFits(clicks[c])

Fits == QueueFits /\ RunsFit /\ LockFits /\ ErrorsFit /\ LettersFit /\ ClicksFit
-----------------------------------------------------------------------------
(* The inductive invariant.                                                *)

(* Where no job is given out twice, each run is its job's only one.        *)
RunsApart ==
  "stall" \notin jobHappened =>
    /\ \A r \in runs : Current(r) /\ (r.at = "working" => memberLock[Who(r.job)] = r.job)
    /\ \A r, s \in runs : r.job = s.job => r = s

(* A failure is on its way to the list, on it, or sent round again.        *)
Seen(j) ==
  \/ \E l \in letters : l.job = j /\ l.at \in {"find", "write"}
  \/ \E i \in 1 .. Len(errorQueue) : /\ errorQueue[i].status = "failed"
                                     /\ SamePlan(errorQueue[i].work, queue[j].work)
  \/ \E k \in JobIds : /\ k > j /\ Exists(k) /\ queue[k].row # 0
                       /\ SamePlan(queue[k].work, queue[j].work)

InSight ==
  jobHappened \cap {"db", "crash", "crossed", "dismissed"} = {} =>
    \A j \in JobIds : HasFailed(j) => Seen(j)

(* A row of which no one is told yet has a letter that will see to it, and *)
(* one that was spared an earlier one of its cause that was not.           *)
HasLetter(i) == \E l \in letters : l.row = i /\ l.at \in {"cause", "tell"}

HasFirst(i) ==
  \E k \in 1 .. Len(errorQueue) :
     k < i /\ errorQueue[k].code = errorQueue[i].code /\ errorQueue[k].told # "spared"

Telling ==
  "crash" \notin jobHappened =>
    \A i \in 1 .. Len(errorQueue) :
      /\ errorQueue[i].told = "no" => HasLetter(i)
      /\ errorQueue[i].told = "spared" => HasFirst(i)

(* Who is mailed, or about to be, is the first of the hour.                *)
First(i) ==
  \A k \in 1 .. Len(errorQueue) :
    ~ /\ k < i /\ errorQueue[k].fresh
      /\ errorQueue[k].code = errorQueue[i].code
      /\ errorQueue[k].work.event = errorQueue[i].work.event

FirstsOnly ==
  /\ \A l \in letters : l.at = "tell" /\ l.row # 0 => First(l.row)
  /\ \A i \in 1 .. Len(errorQueue) : errorQueue[i].told = "mailed" => First(i)

QueueInv == Fits /\ RunsApart /\ InSight /\ Telling /\ FirstsOnly
-----------------------------------------------------------------------------
(* What every step leaves of the jobs and of the rows.                     *)

JobsStay ==
  \A j \in JobIds : Exists(j) =>
    /\ Exists(j)' /\ queue'[j].work = queue[j].work /\ queue'[j].row = queue[j].row
    /\ queue[j].at = "failed" => queue'[j] = queue[j]

RowsStay ==
  /\ Len(errorQueue') >= Len(errorQueue)
  /\ \A i \in 1 .. Len(errorQueue) :
       /\ errorQueue'[i].work = errorQueue[i].work /\ errorQueue'[i].code = errorQueue[i].code
       /\ errorQueue'[i].fresh => errorQueue[i].fresh

LEMMA JobIdsAreNumbers == JobIds \subseteq Nat \ {0} /\ NoJob \notin JobIds
BY JobAssumption, FS_CardinalityType

\* The first jobs are numbered without a gap, each item of the scenario once.
LEMMA NumberedGives ==
    ASSUME NEW ws, IsFiniteSet(ws)
    PROVE  Numbered(ws) \in [1 .. Cardinality(ws) -> ws]
<1>1. PICK f \in [1 .. Cardinality(ws) -> ws] : \A a, b \in DOMAIN f : f[a] = f[b] => a = b
  BY FS_CardinalityType DEF ExistsBijection, Bijection, Injection, IsInjective
<1> QED BY <1>1 DEF Numbered

\* There is a number for a job's next run.
LEMMA RunNumber ==
    ASSUME RunsFit, NEW j \in JobIds
    PROVE  (CHOOSE k \in 1 .. Cardinality(runs) + 1 : \A r \in runs : r.job = j => r.no # k)
             \in Nat \ {0}
<1> DEFINE n == Cardinality(runs)
           used == {r.no : r \in runs}
           f == [r \in runs |-> r.no]
<1>1. n \in Nat
  BY FS_CardinalityType DEF RunsFit
<1>2. IsFiniteSet(used) /\ Cardinality(used) <= n
  <2>1. f \in Surjection(runs, used)
    BY DEF Surjection
  <2> HIDE DEF used, f
  <2> QED BY <2>1, FS_Surjection DEF RunsFit
<1>3. IsFiniteSet(1 .. n + 1) /\ Cardinality(1 .. n + 1) = n + 1
  BY <1>1, FS_Interval
<1>4. \E k \in 1 .. n + 1 : k \notin used
  <2>1. SUFFICES ASSUME 1 .. n + 1 \subseteq used PROVE FALSE
    OBVIOUS
  <2>2. Cardinality(1 .. n + 1) <= Cardinality(used)
    BY <1>2, <2>1, FS_Subset
  <2>3. Cardinality(used) \in Nat
    BY <1>2, FS_CardinalityType
  <2> QED BY <1>1, <1>2, <1>3, <2>2, <2>3
<1>5. \E k \in 1 .. n + 1 : \A r \in runs : r.job = j => r.no # k
  BY <1>4
<1> QED BY <1>1, <1>5

\* A free id is the one after the last that was given.
LEMMA NextIdIsFree ==
    ASSUME QueueFits, NEW j \in JobIds, ~Exists(j)
    PROVE  /\ NextId \in JobIds /\ ~Exists(NextId)
           /\ \A k \in JobIds : Exists(k) <=> k <= NextId - 1
<1>1. PICK n \in Nat : \A k \in JobIds : Exists(k) <=> k <= n
  BY DEF QueueFits
<1>2. n + 1 \in JobIds
  BY <1>1, JobAssumption, FS_CardinalityType
<1>3. ~Exists(n + 1) /\ \A k \in JobIds : k < n + 1 => Exists(k)
  BY <1>1, <1>2, JobIdsAreNumbers
<1>4. /\ NextId \in JobIds /\ ~Exists(NextId)
      /\ \A k \in JobIds : k < NextId => Exists(k)
  BY <1>2, <1>3 DEF NextId
<1>5. NextId = n + 1
  BY <1>1, <1>2, <1>3, <1>4, JobIdsAreNumbers
<1> QED BY <1>1, <1>4, <1>5
\* A job that is not done with moves on as what it was.
LEMMA JobMoves ==
    ASSUME QueueFits, NEW j \in JobIds, Exists(j), queue[j].at # "failed",
           NEW x \in Jobs, Put(j, x), x.work = queue[j].work, x.row = queue[j].row,
           x.made <= x.max, x.at \in Pending => x.made < x.max /\ x.stalls <= MaxStalledCount
    PROVE  QueueFits' /\ JobsStay
<1>1. queue' = [queue EXCEPT ![j] = x]
  BY DEF Put
<1>2. queue' \in [JobIds -> {Unused} \cup Jobs]
  BY <1>1 DEF QueueFits
<1>3. x.at # "unused"
  BY DEF Jobs, Pending
<1>4. \A k \in JobIds : Exists(k)' <=> Exists(k)
  BY <1>1, <1>3 DEF QueueFits, Exists
<1>5. \A k \in JobIds : queue'[k] = IF k = j THEN x ELSE queue[k]
  BY <1>1 DEF QueueFits
<1> QED BY <1>2, <1>3, <1>4, <1>5 DEF QueueFits, JobsStay

LEMMA JobsRest ==
    ASSUME QueueFits, UNCHANGED queue
    PROVE  QueueFits' /\ JobsStay
<1>1. \A j \in JobIds : Exists(j)' <=> Exists(j)
  BY DEF Exists
<1> QED BY <1>1 DEF QueueFits, JobsStay

\* A job that exists is a record of a job.
LEMMA JobIsThere ==
    ASSUME QueueFits, NEW j \in JobIds, Exists(j)
    PROVE  queue[j] \in Jobs
BY DEF QueueFits, Exists, Unused

LEMMA RunIsThere ==
    ASSUME QueueFits, RunsFit, NEW r \in runs
    PROVE  /\ r \in [job : JobIds, no : Nat \ {0}, at : {"begun", "working", "lapsed"}]
           /\ Exists(r.job) /\ queue[r.job] \in Jobs /\ Who(r.job) \in Members
<1>1. r.job \in JobIds /\ Exists(r.job)
  BY DEF RunsFit
<1>2. queue[r.job] \in Jobs
  BY <1>1, JobIsThere
<1> QED BY <1>1, <1>2 DEF RunsFit, Who, Jobs, Items

LEMMA JobAttempted ==
    ASSUME NEW q \in Jobs, NEW at \in {"failed", "delayed"}
    PROVE  LET x == [q EXCEPT !.at = at, !.made = @ + 1]
           IN  /\ x \in Jobs /\ x.work = q.work /\ x.row = q.row
               /\ x.made = q.made + 1 /\ x.max = q.max /\ x.at = at /\ x.stalls = q.stalls
<1> DEFINE x == [q EXCEPT !.at = at, !.made = @ + 1]
<1>1. x.made = q.made + 1
  BY DEF Jobs
<1>2. x.work = q.work /\ x.row = q.row /\ x.max = q.max /\ x.at = at /\ x.stalls = q.stalls
  BY DEF Jobs
<1>3. x \in Jobs
  <2> DEFINE y == [q EXCEPT !.at = at]
  <2>1. y \in Jobs
    BY DEF Jobs, Pending
  <2>2. x = [y EXCEPT !.made = @ + 1]
    BY DEF Jobs
  <2> HIDE DEF x, y
  <2> QED BY <2>1, <2>2 DEF Jobs
<1> HIDE DEF x
<1> QED BY <1>1, <1>2, <1>3 DEF x

LEMMA JobStalled ==
    ASSUME NEW q \in Jobs, q.stalls <= MaxStalledCount, NEW at \in {"waiting", "failed"}
    PROVE  LET x == [q EXCEPT !.at = at, !.stalls = @ + 1]
           IN  x \in Jobs /\ x.at = at /\ x.stalls = q.stalls + 1
<1> DEFINE y == [q EXCEPT !.at = at]
           n == q.stalls + 1
<1>1. y \in Jobs /\ y.at = at
  BY DEF Jobs, Pending
<1>2. n \in 0 .. MaxStalledCount + 1
  BY DEF Jobs, MaxStalledCount
<1>3. [q EXCEPT !.at = at, !.stalls = @ + 1] = [y EXCEPT !.stalls = n]
  BY DEF Jobs
<1> HIDE DEF y, n
<1>4. [y EXCEPT !.stalls = n] \in Jobs /\ [y EXCEPT !.stalls = n].at = at
      /\ [y EXCEPT !.stalls = n].stalls = n
  BY <1>1, <1>2 DEF Jobs
<1> QED BY <1>3, <1>4 DEF n

LEMMA QueueStays ==
    ASSUME Fits, JobNext
    PROVE  QueueFits' /\ JobsStay
<1> USE DEF Fits
<1>1. ASSUME NEW j \in JobIds, Exists(j), Take(j)
      PROVE  QueueFits' /\ JobsStay
  <2> DEFINE n == CHOOSE k \in 1 .. Cardinality(runs) + 1 : \A r \in runs : r.job = j => r.no # k
             x == [queue[j] EXCEPT !.at = "active", !.run = n]
  <2>1. queue[j] \in Jobs /\ n \in Nat
    BY <1>1, JobIsThere, RunNumber
  <2>2. queue[j].at = "waiting" /\ Put(j, x)
    BY <1>1 DEF Take
  <2> HIDE DEF n
  <2>3. /\ x \in Jobs /\ x.work = queue[j].work /\ x.row = queue[j].row
        /\ x.made < x.max /\ x.stalls <= MaxStalledCount
    BY <1>1, <2>1, <2>2 DEF Jobs, QueueFits, Pending
  <2> HIDE DEF x
  <2>4. x.made <= x.max
    BY <2>3 DEF Jobs
  <2> QED BY <1>1, <2>2, <2>3, <2>4, JobMoves
<1>2. ASSUME NEW j \in JobIds, Exists(j), Wake(j)
      PROVE  QueueFits' /\ JobsStay
  <2> DEFINE x == [queue[j] EXCEPT !.at = "waiting"]
  <2>1. queue[j] \in Jobs
    BY <1>2, JobIsThere
  <2>2. queue[j].at \in Pending /\ Put(j, x)
    BY <1>2 DEF Wake, Pending
  <2>3. /\ x \in Jobs /\ x.work = queue[j].work /\ x.row = queue[j].row
        /\ x.made < x.max /\ x.stalls <= MaxStalledCount
    BY <1>2, <2>1, <2>2 DEF Jobs, QueueFits, Pending
  <2>4. x.made <= x.max /\ queue[j].at # "failed"
    BY <2>2, <2>3 DEF Jobs, Pending
  <2> HIDE DEF x
  <2> QED BY <1>2, <2>2, <2>3, <2>4, JobMoves
<1>2a. ASSUME NEW j \in JobIds, Exists(j), Stalled(j) \/ StalledAgain(j)
       PROVE  QueueFits' /\ JobsStay
  <2>1. queue[j] \in Jobs /\ queue[j].at = "active"
    BY <1>2a, JobIsThere DEF Stalled, StalledAgain, Unheard
  <2>2. queue[j].made < queue[j].max /\ queue[j].stalls <= MaxStalledCount
    BY <1>2a, <2>1 DEF QueueFits, Pending
  <2>3. PICK at \in {"waiting", "failed"} :
          /\ Put(j, [queue[j] EXCEPT !.at = at, !.stalls = @ + 1])
          /\ at = "waiting" => queue[j].stalls < MaxStalledCount
    BY <1>2a DEF Stalled, StalledAgain
  <2>4. PICK x : x = [queue[j] EXCEPT !.at = at, !.stalls = @ + 1]
    OBVIOUS
  <2>5. x \in Jobs /\ x.at = at /\ x.stalls = queue[j].stalls + 1
    BY <2>1, <2>2, <2>4, JobStalled
  <2>6. x.work = queue[j].work /\ x.row = queue[j].row /\ x.made = queue[j].made /\ x.max = queue[j].max
    BY <2>1, <2>4 DEF Jobs
  <2>7. x.made <= x.max /\ (x.at \in Pending => x.made < x.max /\ x.stalls <= MaxStalledCount)
    BY <2>1, <2>2, <2>3, <2>5, <2>6 DEF Jobs, Pending, MaxStalledCount
  <2> QED BY <1>2a, <2>1, <2>3, <2>4, <2>5, <2>6, <2>7, JobMoves
<1>3. ASSUME NEW r \in runs, Current(r), NEW at \in {"delayed", "done"},
             Put(r.job, [queue[r.job] EXCEPT !.at = at])
      PROVE  QueueFits' /\ JobsStay
  <2> DEFINE x == [queue[r.job] EXCEPT !.at = at]
  <2>1. r.job \in JobIds /\ Exists(r.job) /\ queue[r.job] \in Jobs
    BY <1>3, RunIsThere
  <2>2. queue[r.job].at = "active"
    BY <1>3 DEF Current
  <2>3. /\ x \in Jobs /\ x.work = queue[r.job].work /\ x.row = queue[r.job].row
        /\ x.made < x.max /\ x.stalls <= MaxStalledCount
    BY <1>3, <2>1, <2>2 DEF Jobs, QueueFits, Pending
  <2>4. x.made <= x.max /\ queue[r.job].at # "failed"
    BY <2>2, <2>3 DEF Jobs
  <2>5. Put(r.job, x)
    BY <1>3
  <2> HIDE DEF x
  <2> QED BY <2>1, <2>3, <2>4, <2>5, JobMoves
<1>4. ASSUME NEW r \in runs, NEW code \in Codes, Fail(r, code), Current(r)
      PROVE  QueueFits' /\ JobsStay
  <2> DEFINE over == Unrecoverable(code) \/ queue[r.job].made + 1 >= queue[r.job].max
             at == IF over THEN "failed" ELSE "delayed"
             x == [queue[r.job] EXCEPT !.at = at, !.made = @ + 1]
  <2>1. r.job \in JobIds /\ Exists(r.job) /\ queue[r.job] \in Jobs
    BY <1>4, RunIsThere
  <2>2. queue[r.job].at = "active" /\ Put(r.job, x)
    BY <1>4 DEF Current, Fail
  <2>3. queue[r.job].made < queue[r.job].max /\ queue[r.job].stalls <= MaxStalledCount
    BY <2>1, <2>2 DEF QueueFits, Pending
  <2>4. /\ x \in Jobs /\ x.work = queue[r.job].work /\ x.row = queue[r.job].row
        /\ x.made <= x.max
        /\ x.at \in Pending => x.made < x.max /\ x.stalls <= MaxStalledCount
    <3>1. queue[r.job].made \in Nat /\ queue[r.job].max \in Nat
      BY <2>1 DEF Jobs
    <3>2. /\ x \in Jobs /\ x.work = queue[r.job].work /\ x.row = queue[r.job].row
          /\ x.made = queue[r.job].made + 1 /\ x.max = queue[r.job].max
          /\ x.at = at /\ x.stalls = queue[r.job].stalls
      <4>1. at \in {"failed", "delayed"}
        OBVIOUS
      <4> HIDE DEF at
      <4> QED BY <2>1, <4>1, JobAttempted
    <3>3. ~over => queue[r.job].made + 1 < queue[r.job].max
      BY <3>1
    <3> HIDE DEF x, over
    <3> QED BY <2>3, <3>1, <3>2, <3>3 DEF Pending
  <2>5. Put(r.job, x) /\ queue[r.job].at # "failed"
    BY <2>2
  <2> HIDE DEF x
  <2> QED BY <2>1, <2>4, <2>5, JobMoves
<1>5. ASSUME NEW r \in runs, RunStep(r)
      PROVE  QueueFits' /\ JobsStay
  BY <1>3, <1>4, <1>5, JobsRest DEF RunStep, Lock, Park, Succeed, LapsedEnds, Fail
<1>6. ASSUME NEW c \in Clicks, NEW max \in {1, Attempts}, AddAgain(c, max)
      PROVE  QueueFits' /\ JobsStay
  <2> DEFINE i == clicks[c].row
             x == Job(errorQueue[i].work, max, i)
  <2>1. CASE UNCHANGED queue
    BY <2>1, JobsRest
  <2>2. CASE Put(NextId, x) /\ \E j \in JobIds : ~Exists(j)
    <3>1. /\ NextId \in JobIds /\ ~Exists(NextId)
          /\ \A k \in JobIds : Exists(k) <=> k <= NextId - 1
      BY <2>2, NextIdIsFree
    <3>2. i \in 1 .. Len(errorQueue)
      BY <1>6 DEF AddAgain, ClicksFit, ClickFits, Unused, ErrorsFit
    <3>3. errorQueue[i] \in Rows
      BY <3>2 DEF ErrorsFit
    <3>4. max \in Nat \ {0}
      BY JobAssumption
    <3>5. x \in Jobs /\ x.made = 0 /\ x.max = max /\ x.stalls = 0
      BY <3>2, <3>3, <3>4 DEF Job, Jobs, Rows, Pending, MaxStalledCount
    <3> HIDE DEF x
    <3>6. queue' = [queue EXCEPT ![NextId] = x]
      BY <2>2 DEF Put
    <3>7. \A k \in JobIds : queue'[k] = IF k = NextId THEN x ELSE queue[k]
      BY <3>6 DEF QueueFits
    <3>8. \A k \in JobIds : Exists(k)' <=> k = NextId \/ Exists(k)
      BY <3>5, <3>7 DEF Exists, Jobs, Pending
    <3>9. NextId \in Nat \ {0}
      BY <3>1, JobIdsAreNumbers
    <3>10. \A k \in JobIds : Exists(k)' <=> k <= NextId
      BY <3>1, <3>8, <3>9, JobIdsAreNumbers
    <3>11. queue' \in [JobIds -> {Unused} \cup Jobs]
      BY <3>5, <3>6 DEF QueueFits
    <3>12. \A k \in JobIds : Exists(k)' =>
             /\ queue'[k].made <= queue'[k].max
             /\ queue'[k].at \in Pending =>
                  queue'[k].made < queue'[k].max /\ queue'[k].stalls <= MaxStalledCount
      BY <3>4, <3>5, <3>7, <3>8 DEF QueueFits, MaxStalledCount
    <3>13. QueueFits'
      BY <3>9, <3>10, <3>11, <3>12 DEF QueueFits
    <3>14. JobsStay
      BY <3>1, <3>7, <3>8 DEF JobsStay
    <3> QED BY <3>13, <3>14
  <2> QED BY <1>6, <2>1, <2>2 DEF AddAgain
<1>7. ASSUME UNCHANGED queue
      PROVE  QueueFits' /\ JobsStay
  BY <1>7, JobsRest
<1> QED
  BY <1>1, <1>2, <1>2a, <1>5, <1>6, <1>7
  DEF JobNext, Handed, Expire, LetterStep, Find, Write, Cause, Tell, PressRetry, PressDismiss, Open,
      ClickStep, Resolve, WorkerCrash, TimePasses
-----------------------------------------------------------------------------
(* The rows.                                                               *)

LEMMA RowIsThere ==
    ASSUME ErrorsFit, NEW i \in 1 .. Len(errorQueue)
    PROVE  errorQueue[i] \in Rows /\ i \in DOMAIN errorQueue /\ Len(errorQueue) \in Nat
BY DEF ErrorsFit

\* A row changes, but not whose it is.
LEMMA RowMoves ==
    ASSUME ErrorsFit, NEW i \in 1 .. Len(errorQueue), NEW x \in Rows,
           errorQueue' = [errorQueue EXCEPT ![i] = x],
           x.work = errorQueue[i].work, x.code = errorQueue[i].code,
           x.fresh = errorQueue[i].fresh
    PROVE  ErrorsFit' /\ RowsStay
<1>1. errorQueue' \in Seq(Rows) /\ Len(errorQueue') = Len(errorQueue)
  BY ExceptSeq DEF ErrorsFit
<1>2. \A k \in 1 .. Len(errorQueue) : errorQueue'[k] = IF k = i THEN x ELSE errorQueue[k]
  BY DEF ErrorsFit
<1> QED BY <1>1, <1>2 DEF ErrorsFit, RowsStay

LEMMA RowIsMade ==
    ASSUME ErrorsFit, NEW x \in Rows, errorQueue' = Append(errorQueue, x)
    PROVE  /\ ErrorsFit' /\ RowsStay
           /\ Len(errorQueue') = Len(errorQueue) + 1 /\ Len(errorQueue) \in Nat
           /\ errorQueue'[Len(errorQueue) + 1] = x
           /\ \A k \in 1 .. Len(errorQueue) : errorQueue'[k] = errorQueue[k]
<1>1. /\ errorQueue' \in Seq(Rows) /\ Len(errorQueue') = Len(errorQueue) + 1
      /\ errorQueue'[Len(errorQueue) + 1] = x /\ Len(errorQueue) \in Nat
      /\ \A k \in 1 .. Len(errorQueue) : errorQueue'[k] = errorQueue[k]
  BY AppendProperties DEF ErrorsFit
<1> QED BY <1>1 DEF ErrorsFit, RowsStay

LEMMA RowsRest ==
    ASSUME ErrorsFit, UNCHANGED errorQueue
    PROVE  ErrorsFit' /\ RowsStay
BY DEF ErrorsFit, RowsStay

\* Who is told of a row is all that a letter changes of it in its last steps.
LEMMA RowIsTold ==
    ASSUME ErrorsFit, NEW i \in 1 .. Len(errorQueue), NEW how \in {"spared", "mailed", "logged"},
           errorQueue' = [errorQueue EXCEPT ![i].told = how]
    PROVE  /\ ErrorsFit' /\ RowsStay /\ Len(errorQueue') = Len(errorQueue)
           /\ \A k \in 1 .. Len(errorQueue) :
                /\ errorQueue'[k].told = IF k = i THEN how ELSE errorQueue[k].told
                /\ errorQueue'[k].fresh = errorQueue[k].fresh
                /\ errorQueue'[k].status = errorQueue[k].status
<1> DEFINE x == [errorQueue[i] EXCEPT !.told = how]
<1>1. errorQueue[i] \in Rows
  BY RowIsThere
<1>2. /\ x \in Rows /\ x.work = errorQueue[i].work /\ x.code = errorQueue[i].code
      /\ x.fresh = errorQueue[i].fresh /\ x.status = errorQueue[i].status /\ x.told = how
  BY <1>1 DEF Rows
<1>3. errorQueue' = [errorQueue EXCEPT ![i] = x]
  OBVIOUS
<1> HIDE DEF x
<1>4. \A k \in 1 .. Len(errorQueue) : errorQueue'[k] = IF k = i THEN x ELSE errorQueue[k]
  BY <1>3 DEF ErrorsFit
<1>5. Len(errorQueue') = Len(errorQueue)
  BY <1>3, ExceptSeq DEF ErrorsFit
<1> QED BY <1>2, <1>3, <1>4, <1>5, RowMoves

LEMMA RowReopens ==
    ASSUME NEW x \in Rows
    PROVE  /\ Reopened(x) \in Rows /\ Reopened(x).work = x.work /\ Reopened(x).code = x.code
           /\ Reopened(x).fresh = x.fresh /\ Reopened(x).told = x.told
           /\ Reopened(x).status = "failed"
<1> DEFINE y == [x EXCEPT !.status = "failed", !.recent = FALSE]
<1>1. y \in Rows
  BY DEF Rows
<1>2. Reopened(x) = [y EXCEPT !.count = @ + 1]
  BY DEF Rows, Reopened
<1>3. Reopened(x) \in Rows
  <2> HIDE DEF y
  <2> QED BY <1>1, <1>2 DEF Rows
<1>4. Reopened(x).work = x.work /\ Reopened(x).code = x.code
  BY DEF Rows, Reopened
<1>5. Reopened(x).fresh = x.fresh /\ Reopened(x).told = x.told
  BY DEF Rows, Reopened
<1>6. Reopened(x).status = "failed"
  BY DEF Rows, Reopened
<1> QED BY <1>3, <1>4, <1>5, <1>6

LEMMA RowResolves ==
    ASSUME NEW x \in Rows
    PROVE  LET y == [x EXCEPT !.status = "resolved", !.recent = TRUE]
           IN  y \in Rows /\ y.work = x.work /\ y.code = x.code /\ y.fresh = x.fresh
               /\ y.told = x.told
BY DEF Rows

\* A letter about a row is about one that there is.
LEMMA LetterRow ==
    ASSUME Fits, NEW l \in letters, l.row # 0
    PROVE  l.row \in 1 .. Len(errorQueue)
BY DEF Fits, LettersFit, LetterFits, ErrorsFit

LEMMA ClickRow ==
    ASSUME Fits, NEW c \in Clicks, clicks[c].at \in {"add", "resolve"}
    PROVE  ClickFits(clicks[c]) /\ clicks[c].row \in 1 .. Len(errorQueue)
BY DEF Fits, ClicksFit, ClickFits, Unused, ErrorsFit
\* What else may become of the rows: nobody is told of one by it.
ToldStays ==
  /\ Len(errorQueue') = Len(errorQueue)
  /\ \A k \in 1 .. Len(errorQueue) : errorQueue'[k].told = errorQueue[k].told

LEMMA RowCountsUp ==
    ASSUME ErrorsFit, NEW i \in 1 .. Len(errorQueue),
           errorQueue' = [errorQueue EXCEPT ![i] = Reopened(@)]
    PROVE  /\ ErrorsFit' /\ RowsStay /\ ToldStays
           /\ \A k \in 1 .. Len(errorQueue) :
                errorQueue'[k].status = IF k = i THEN "failed" ELSE errorQueue[k].status
<1> DEFINE x == Reopened(errorQueue[i])
<1>1. /\ x \in Rows /\ x.work = errorQueue[i].work /\ x.code = errorQueue[i].code
      /\ x.fresh = errorQueue[i].fresh /\ x.told = errorQueue[i].told /\ x.status = "failed"
  BY RowIsThere, RowReopens
<1>2. errorQueue' = [errorQueue EXCEPT ![i] = x]
  OBVIOUS
<1> HIDE DEF x
<1>3. \A k \in 1 .. Len(errorQueue) : errorQueue'[k] = IF k = i THEN x ELSE errorQueue[k]
  BY <1>2 DEF ErrorsFit
<1>4. Len(errorQueue') = Len(errorQueue)
  BY <1>1, <1>2, ExceptSeq DEF ErrorsFit
<1> QED BY <1>1, <1>2, <1>3, <1>4, RowMoves DEF ToldStays

LEMMA RowIsClosed ==
    ASSUME ErrorsFit, NEW i \in 1 .. Len(errorQueue),
           errorQueue' = [errorQueue EXCEPT ![i] = [@ EXCEPT !.status = "resolved", !.recent = TRUE]]
    PROVE  /\ ErrorsFit' /\ RowsStay /\ ToldStays
           /\ \A k \in 1 .. Len(errorQueue) :
                k # i => errorQueue'[k].status = errorQueue[k].status
<1> DEFINE x == [errorQueue[i] EXCEPT !.status = "resolved", !.recent = TRUE]
<1>1. /\ x \in Rows /\ x.work = errorQueue[i].work /\ x.code = errorQueue[i].code
      /\ x.fresh = errorQueue[i].fresh /\ x.told = errorQueue[i].told
  <2>1. errorQueue[i] \in Rows
    BY RowIsThere
  <2> HIDE DEF x
  <2> QED BY <2>1, RowResolves DEF x
<1>2. errorQueue' = [errorQueue EXCEPT ![i] = x]
  OBVIOUS
<1> HIDE DEF x
<1>3. \A k \in 1 .. Len(errorQueue) : errorQueue'[k] = IF k = i THEN x ELSE errorQueue[k]
  BY <1>2 DEF ErrorsFit
<1>4. Len(errorQueue') = Len(errorQueue)
  BY <1>1, <1>2, ExceptSeq DEF ErrorsFit
<1> QED BY <1>1, <1>2, <1>3, <1>4, RowMoves DEF ToldStays

LEMMA RowsAge ==
    ASSUME ErrorsFit, TimePasses
    PROVE  /\ ErrorsFit' /\ RowsStay /\ ToldStays
           /\ \A k \in 1 .. Len(errorQueue) : errorQueue'[k].status = errorQueue[k].status
<1> DEFINE Aged(x) == [x EXCEPT !.fresh = FALSE, !.old = ~x.fresh, !.recent = @ /\ x.fresh]
<1>1. ASSUME NEW x \in Rows
      PROVE  /\ Aged(x) \in Rows /\ Aged(x).work = x.work /\ Aged(x).code = x.code
             /\ Aged(x).told = x.told /\ Aged(x).status = x.status /\ ~Aged(x).fresh
  <2>1. ~Aged(x).fresh
    BY DEF Rows
  <2>2. /\ Aged(x).work = x.work /\ Aged(x).code = x.code
        /\ Aged(x).told = x.told /\ Aged(x).status = x.status
    BY DEF Rows
  <2>3. Aged(x) \in Rows
    <3> DEFINE y == [x EXCEPT !.fresh = FALSE, !.old = ~x.fresh]
    <3>1. y \in Rows
      BY DEF Rows
    <3>2. Aged(x) = [y EXCEPT !.recent = x.recent /\ x.fresh]
      BY DEF Rows
    <3>3. (x.recent /\ x.fresh) \in BOOLEAN
      OBVIOUS
    <3> HIDE DEF y, Aged
    <3> QED BY <3>1, <3>2, <3>3 DEF Rows
  <2> QED BY <2>1, <2>2, <2>3
<1>2. errorQueue' = [i \in 1 .. Len(errorQueue) |-> Aged(errorQueue[i])]
  <2>1. errorQueue' = [i \in DOMAIN errorQueue |-> Aged(errorQueue[i])]
    BY Zenon DEF TimePasses
  <2>2. DOMAIN errorQueue = 1 .. Len(errorQueue)
    BY DEF ErrorsFit
  <2> HIDE DEF Aged
  <2> QED BY <2>1, <2>2
<1> HIDE DEF Aged
<1>3. \A k \in 1 .. Len(errorQueue) : errorQueue'[k] = Aged(errorQueue[k])
  BY <1>2
<1>4. errorQueue' \in Seq(Rows) /\ Len(errorQueue') = Len(errorQueue)
  BY <1>1, <1>2, RowIsThere DEF ErrorsFit
<1> QED BY <1>1, <1>3, <1>4, RowIsThere DEF ErrorsFit, RowsStay, ToldStays

LEMMA NewRow ==
    ASSUME NEW w \in Items, NEW code \in Codes
    PROVE  /\ Row(w, code) \in Rows /\ Row(w, code).work = w /\ Row(w, code).code = code
           /\ Row(w, code).status = "failed" /\ Row(w, code).told = "no"
BY DEF Row, Rows

LEMMA LetterIsThere ==
    ASSUME Fits, NEW l \in letters
    PROVE  /\ l.job \in JobIds /\ l.code \in Codes /\ queue[l.job].at = "failed"
           /\ queue[l.job] \in Jobs /\ queue[l.job].work \in Items
<1>1. l.job \in JobIds /\ l.code \in Codes /\ queue[l.job].at = "failed"
  BY DEF Fits, LettersFit, LetterFits
<1>2. queue[l.job] \in Jobs
  BY <1>1, JobIsThere DEF Fits, Exists
<1> QED BY <1>1, <1>2 DEF Jobs

LEMMA ErrorsStay ==
    ASSUME Fits, JobNext
    PROVE  ErrorsFit' /\ RowsStay
<1>1. ErrorsFit
  BY DEF Fits
<1>2. ASSUME UNCHANGED errorQueue
      PROVE  ErrorsFit' /\ RowsStay
  BY <1>1, <1>2, RowsRest
<1>3. ASSUME NEW l \in letters, Write(l)
      PROVE  ErrorsFit' /\ RowsStay
  <2>1. CASE /\ l.row # 0
             /\ errorQueue' = [errorQueue EXCEPT ![l.row] = Reopened(@)]
    BY <1>1, <2>1, LetterRow, RowCountsUp
  <2>2. CASE errorQueue' = Append(errorQueue, Row(queue[l.job].work, l.code))
    BY <1>1, <2>2, LetterIsThere, NewRow, RowIsMade
  <2> QED BY <1>2, <1>3, <2>1, <2>2 DEF Write
<1>4. ASSUME NEW l \in letters, Cause(l) \/ Tell(l)
      PROVE  ErrorsFit' /\ RowsStay
  <2>1. Cause(l) => l.row # 0
    BY DEF Cause, Fits, LettersFit, LetterFits
  <2>2. CASE UNCHANGED errorQueue
    BY <1>2, <2>2
  <2>3. CASE errorQueue # errorQueue'
    <3>1. PICK how \in {"spared", "mailed", "logged"} :
            errorQueue' = [errorQueue EXCEPT ![l.row].told = how]
      BY <1>4, <2>3 DEF Cause, Tell
    <3>2. l.row # 0
      BY <1>4, <2>1, <2>3 DEF Cause, Tell
    <3>3. l.row \in 1 .. Len(errorQueue)
      BY <3>2, LetterRow
    <3> QED BY <1>1, <3>1, <3>3, RowIsTold
  <2> QED BY <2>2, <2>3
<1>5. ASSUME NEW c \in Clicks, Resolve(c)
      PROVE  ErrorsFit' /\ RowsStay
  <2>1. clicks[c].row \in 1 .. Len(errorQueue)
    BY <1>5, ClickRow DEF Resolve
  <2>2. \/ UNCHANGED errorQueue
        \/ errorQueue' = [errorQueue EXCEPT ![clicks[c].row] =
                            [@ EXCEPT !.status = "resolved", !.recent = TRUE]]
    BY <1>5 DEF Resolve
  <2> QED BY <1>1, <1>2, <2>1, <2>2, RowIsClosed
<1>6. ASSUME TimePasses
      PROVE  ErrorsFit' /\ RowsStay
  BY <1>1, <1>6, RowsAge
<1> QED
  BY <1>2, <1>3, <1>4, <1>5, <1>6
  DEF JobNext, Handed, Take, Wake, Stalled, StalledAgain, RunStep, Lock, Park, Succeed, LapsedEnds, Fail, Expire,
      LetterStep, Find, PressRetry, PressDismiss, Open, ClickStep, AddAgain, WorkerCrash
-----------------------------------------------------------------------------
(* The row a failure counts up.                                            *)

\* Of some rows there is the last that was made.
LEMMA LastOne ==
    ASSUME NEW n \in Nat, NEW best \in SUBSET (1 .. n), best # {}
    PROVE  \E i \in best : \A k \in best : k <= i
<1> DEFINE R == {ss \in Nat \X Nat : ss[1] < ss[2]}
           T == {n - i : i \in best}
<1>1. IsWellFoundedOn(R, Nat)
  BY NatLessThanWellFounded DEF OpToRel
<1>2. \A i \in best : i \in Nat /\ n - i \in Nat
  OBVIOUS
<1>3. T \subseteq Nat /\ T # {}
  BY <1>2
<1>4. PICK x \in T : \A y \in T : <<y, x>> \notin R
  <2> HIDE DEF R, T
  <2> QED BY <1>1, <1>3, WFMin
<1>5. PICK i \in best : x = n - i
  BY <1>4
<1>6. ASSUME NEW k \in best PROVE k <= i
  <2>1. n - k \in T /\ n - k \in Nat /\ x \in Nat
    BY <1>2, <1>3
  <2>2. ~(n - k < x)
    <3> HIDE DEF T
    <3> QED BY <1>4, <2>1
  <2> QED BY <1>2, <1>5, <2>2
<1> QED BY <1>6

LEMMA MatchGives ==
    ASSUME Fits, NEW l \in letters
    PROVE  \/ Match(l) = 0
           \/ /\ Match(l) \in 1 .. Len(errorQueue)
              /\ SamePlan(errorQueue[Match(l)].work, queue[l.job].work)
<1> DEFINE open == {i \in Matches(l) : errorQueue[i].status = "failed"}
           best == IF open # {} THEN open ELSE Matches(l)
<1>1. Matches(l) \subseteq 1 .. Len(errorQueue) /\ Len(errorQueue) \in Nat
  BY DEF Matches, Fits, ErrorsFit
<1>2. best \subseteq Matches(l)
  OBVIOUS
<1>3. Match(l) = IF best = {} THEN 0 ELSE CHOOSE i \in best : \A k \in best : k <= i
  BY DEF Match
<1> HIDE DEF best
<1>4. CASE best # {}
  <2>1. \E i \in best : \A k \in best : k <= i
    BY <1>1, <1>2, <1>4, LastOne
  <2>2. Match(l) \in Matches(l)
    BY <1>2, <1>3, <1>4, <2>1
  <2> QED BY <1>1, <2>2 DEF Matches, SameProblem, SamePlan
<1> QED BY <1>3, <1>4
-----------------------------------------------------------------------------
(* The runs and the lock.                                                  *)

LEMMA RunsStay ==
    ASSUME Fits, JobNext
    PROVE  RunsFit'
<1>1. RunsFit /\ JobsStay
  BY QueueStays DEF Fits
<1> DEFINE RunSet == [job : JobIds, no : Nat \ {0}, at : {"begun", "working", "lapsed"}]
<1>2. \A r \in runs : r \in RunSet /\ r.job \in JobIds /\ Exists(r.job)'
  BY <1>1 DEF RunsFit, JobsStay
<1>3. ASSUME NEW s \in RunSet, Exists(s.job)', NEW r, runs' = (runs \ {r}) \cup {s}
      PROVE  RunsFit'
  <2>1. IsFiniteSet(runs')
    BY <1>1, <1>3, FS_RemoveElement, FS_AddElement DEF RunsFit
  <2> QED BY <1>2, <1>3, <2>1 DEF RunsFit
<1>4. ASSUME UNCHANGED runs
      PROVE  RunsFit'
  BY <1>1, <1>2, <1>4 DEF RunsFit
<1>5. ASSUME NEW r \in runs, Ends(r)
      PROVE  RunsFit'
  <2>1. IsFiniteSet(runs')
    BY <1>1, <1>5, FS_RemoveElement DEF RunsFit, Ends
  <2> QED BY <1>2, <1>5, <2>1 DEF RunsFit, Ends
<1>6. ASSUME NEW j \in JobIds, Exists(j), Take(j)
      PROVE  RunsFit'
  <2> DEFINE n == CHOOSE k \in 1 .. Cardinality(runs) + 1 : \A r \in runs : r.job = j => r.no # k
             s == Run(j, n, "begun")
  <2>1. n \in Nat \ {0}
    BY <1>1, RunNumber
  <2>2. runs' = runs \cup {s}
    BY <1>6 DEF Take
  <2> HIDE DEF n
  <2>3. s \in RunSet /\ s.job = j
    BY <2>1 DEF Run
  <2> HIDE DEF s
  <2>4. IsFiniteSet(runs')
    BY <1>1, <2>2, FS_AddElement DEF RunsFit
  <2>5. Exists(j)'
    BY <1>1, <1>6 DEF JobsStay
  <2> QED BY <1>2, <2>2, <2>3, <2>4, <2>5 DEF RunsFit
<1>7. ASSUME NEW r \in runs, Lock(r)
      PROVE  RunsFit'
  <2> DEFINE s == [r EXCEPT !.at = "working"]
  <2>1. s \in RunSet /\ s.job = r.job
    BY <1>2
  <2>2. runs' = (runs \ {r}) \cup {s}
    BY <1>7 DEF Lock, Goes
  <2> HIDE DEF s
  <2> QED BY <1>2, <1>3, <2>1, <2>2
<1>8. ASSUME NEW m \in Members, Expire(m)
      PROVE  RunsFit'
  <2> DEFINE Dropped(r) == IF r.job = memberLock[m] /\ r.at = "working"
                        THEN [r EXCEPT !.at = "lapsed"] ELSE r
             f == [r \in runs |-> Dropped(r)]
  <2>1. runs' = {Dropped(r) : r \in runs}
    BY <1>8 DEF Expire
  <2>2. \A r \in runs : Dropped(r) \in RunSet /\ Dropped(r).job = r.job
    BY <1>2
  <2> HIDE DEF Dropped
  <2>3. f \in Surjection(runs, runs')
    BY <2>1 DEF Surjection
  <2>4. IsFiniteSet(runs')
    BY <1>1, <2>3, FS_Surjection DEF RunsFit
  <2> QED BY <1>2, <2>1, <2>2, <2>4 DEF RunsFit
<1>9. ASSUME runs' = {}
      PROVE  RunsFit'
  BY <1>9, FS_EmptySet DEF RunsFit
<1> QED
  BY <1>4, <1>5, <1>6, <1>7, <1>8, <1>9
  DEF JobNext, Handed, Wake, Stalled, StalledAgain, RunStep, Park, Succeed, LapsedEnds, Fail, LetterStep, Find, Write,
      Cause, Tell, PressRetry, PressDismiss, Open, ClickStep, AddAgain, Resolve, WorkerCrash,
      TimePasses

LEMMA LockStays ==
    ASSUME Fits, JobNext
    PROVE  LockFits'
<1>1. LockFits
  BY DEF Fits
<1>2. \A r \in runs : Who(r.job) \in Members /\ r.job \in JobIds
  BY RunIsThere DEF Fits, RunsFit
<1>3. ASSUME UNCHANGED memberLock
      PROVE  LockFits'
  BY <1>1, <1>3 DEF LockFits
<1>4. ASSUME NEW r \in runs, memberLock' = Freed(r)
      PROVE  LockFits'
  BY <1>1, <1>4 DEF LockFits, Freed
<1>5. ASSUME NEW r \in runs, Lock(r)
      PROVE  LockFits'
  BY <1>1, <1>2, <1>5 DEF LockFits, Lock
<1>6. ASSUME NEW m \in Members, Expire(m)
      PROVE  LockFits'
  BY <1>1, <1>6 DEF LockFits, Expire
<1> QED
  BY <1>3, <1>4, <1>5, <1>6
  DEF JobNext, Handed, Take, Wake, Stalled, StalledAgain, RunStep, Park, Succeed, Release, LapsedEnds, Fail, LetterStep,
      Find, Write, Cause, Tell, PressRetry, PressDismiss, Open, ClickStep, AddAgain, Resolve,
      WorkerCrash, TimePasses
-----------------------------------------------------------------------------
(* The letters and the clicks.                                             *)

LEMMA LetterStays ==
    ASSUME Fits, JobsStay, RowsStay, ErrorsFit', NEW l, LetterFits(l)
    PROVE  LetterFits(l)'
<1>1. Len(errorQueue) \in Nat /\ Len(errorQueue') \in Nat /\ Len(errorQueue) <= Len(errorQueue')
  BY DEF Fits, ErrorsFit, RowsStay
<1>2. /\ l.job \in JobIds /\ Exists(l.job) /\ l.row \in Nat
      /\ l.row # 0 => l.row \in 1 .. Len(errorQueue)
  BY <1>1 DEF LetterFits, Exists
<1>3. queue'[l.job].at = "failed" /\ queue'[l.job].work = queue[l.job].work
  BY <1>2 DEF LetterFits, JobsStay
<1>4. l.row # 0 => errorQueue'[l.row].work = errorQueue[l.row].work
  BY <1>2 DEF RowsStay
<1> QED BY <1>1, <1>2, <1>3, <1>4 DEF LetterFits

LEMMA LettersStay ==
    ASSUME Fits, JobNext
    PROVE  LettersFit'
<1>1. /\ \A l \in letters : LetterFits(l)'
      /\ JobsStay /\ RowsStay /\ ErrorsFit'
  BY QueueStays, ErrorsStay, LetterStays DEF Fits, LettersFit
<1>2. ASSUME letters' \subseteq letters
      PROVE  LettersFit'
  BY <1>1, <1>2 DEF LettersFit
<1>3. ASSUME NEW x, LetterFits(x)', letters' \subseteq letters \cup {x}
      PROVE  LettersFit'
  BY <1>1, <1>3 DEF LettersFit
<1>4. /\ Len(errorQueue) \in Nat /\ Len(errorQueue') \in Nat
      /\ Len(errorQueue') >= Len(errorQueue)
  BY <1>1 DEF Fits, ErrorsFit, RowsStay
<1> DEFINE LetterSet == [job : JobIds, code : Codes, at : {"find", "write", "cause", "tell"},
                         row : Nat, new : BOOLEAN]
<1>5. ASSUME NEW r \in runs, NEW code \in Codes, Fail(r, code)
      PROVE  LettersFit'
  <2> DEFINE x == Letter(r.job, code)
  <2>1. CASE letters' # letters
    <3>1. Current(r) /\ DeadLettered(r.job, code) /\ letters' = letters \cup {x}
      BY <1>5, <2>1 DEF Fail
    <3>2. r.job \in JobIds /\ Exists(r.job)
      BY RunIsThere DEF Fits, RunsFit
    <3>3. queue'[r.job] = [queue[r.job] EXCEPT !.at = "failed", !.made = @ + 1]
      BY <1>5, <3>1, <3>2 DEF Fail, Put, DeadLettered, Fits, QueueFits
    <3>4. queue'[r.job].at = "failed"
      BY <3>2, <3>3, JobIsThere DEF Fits, Jobs
    <3>5. x \in LetterSet /\ x.job = r.job /\ x.at = "find" /\ x.row = 0
      BY <3>2 DEF Letter
    <3> HIDE DEF x
    <3>6. LetterFits(x)'
      BY <1>4, <3>4, <3>5 DEF LetterFits
    <3> QED BY <1>3, <3>1, <3>6
  <2> QED BY <1>2, <2>1
<1>5a. ASSUME NEW j \in JobIds, Exists(j), StalledAgain(j)
       PROVE  LettersFit'
  <2> DEFINE x == Letter(j, "unknown")
  <2>1. CASE letters' = letters \cup {x}
    <3>1. queue'[j].at = "failed"
      <4>1. queue[j] \in Jobs
        BY <1>5a, JobIsThere DEF Fits
      <4>2. Put(j, [queue[j] EXCEPT !.at = "failed", !.stalls = @ + 1])
        BY <1>5a DEF StalledAgain
      <4> QED BY <4>1, <4>2 DEF Put, Fits, QueueFits, Jobs
    <3>2. x \in LetterSet /\ x.job = j /\ x.at = "find" /\ x.row = 0
      BY JobAssumption DEF Letter
    <3> HIDE DEF x
    <3>3. LetterFits(x)'
      BY <1>4, <3>1, <3>2 DEF LetterFits
    <3> QED BY <1>3, <2>1, <3>3
  <2> QED BY <1>2, <1>5a, <2>1 DEF StalledAgain
<1>6. ASSUME NEW l \in letters, Find(l)
      PROVE  LettersFit'
  <2>1. l \in LetterSet /\ queue'[l.job].at = "failed" /\ l.job \in JobIds
    BY <1>1 DEF LetterFits
  <2>2. UNCHANGED <<queue, errorQueue>>
    BY <1>6 DEF Find
  <2>3. CASE Moves(l, [l EXCEPT !.at = "tell", !.row = 0, !.new = TRUE])
    <3> DEFINE x == [l EXCEPT !.at = "tell", !.row = 0, !.new = TRUE]
    <3>1. x \in LetterSet /\ x.job = l.job /\ x.at = "tell" /\ x.row = 0
      BY <2>1
    <3>2. letters' \subseteq letters \cup {x}
      BY <2>3 DEF Moves
    <3> HIDE DEF x
    <3>3. LetterFits(x)'
      BY <1>4, <2>1, <3>1 DEF LetterFits
    <3> QED BY <1>3, <3>2, <3>3
  <2>4. CASE Moves(l, [l EXCEPT !.at = "write", !.row = Match(l)])
    <3>1. PICK n \in Nat :
            /\ n = Match(l) /\ n <= Len(errorQueue)
            /\ n # 0 => SamePlan(errorQueue[n].work, queue[l.job].work)
      BY <1>4, MatchGives
    <3> DEFINE x == [l EXCEPT !.at = "write", !.row = n]
    <3>2. letters' \subseteq letters \cup {x}
      BY <2>4, <3>1 DEF Moves
    <3>3. x \in LetterSet /\ x.job = l.job /\ x.at = "write" /\ x.row = n
      BY <2>1
    <3> HIDE DEF x
    <3>4. x.row # 0 => SamePlan(errorQueue'[x.row].work, queue'[x.job].work)
      BY <2>2, <3>1, <3>3
    <3>5. LetterFits(x)'
      BY <1>4, <2>1, <2>2, <3>1, <3>3, <3>4 DEF LetterFits, SamePlan
    <3> QED BY <1>3, <3>2, <3>5
  <2> QED BY <1>6, <2>3, <2>4 DEF Find
<1>7. ASSUME NEW l \in letters, Write(l)
      PROVE  LettersFit'
  <2>1. l \in LetterSet /\ queue'[l.job].at = "failed" /\ l.job \in JobIds
    BY <1>1 DEF LetterFits
  <2>2. CASE Moves(l, [l EXCEPT !.at = "tell", !.row = 0, !.new = TRUE])
    <3> DEFINE x == [l EXCEPT !.at = "tell", !.row = 0, !.new = TRUE]
    <3>1. x \in LetterSet /\ x.job = l.job /\ x.at = "tell" /\ x.row = 0
      BY <2>1
    <3>2. letters' \subseteq letters \cup {x}
      BY <2>2 DEF Moves
    <3> HIDE DEF x
    <3>3. LetterFits(x)'
      BY <1>4, <2>1, <3>1 DEF LetterFits
    <3> QED BY <1>3, <3>2, <3>3
  <2>3. CASE /\ errorQueue' = Append(errorQueue, Row(queue[l.job].work, l.code))
             /\ Moves(l, [l EXCEPT !.at = "cause", !.row = Len(errorQueue) + 1, !.new = TRUE])
    <3>1. PICK n \in Nat \ {0} : n = Len(errorQueue) + 1 /\ n <= Len(errorQueue')
      BY <1>4, <2>3, LetterIsThere, NewRow, RowIsMade DEF Fits
    <3> DEFINE x == [l EXCEPT !.at = "cause", !.row = n, !.new = TRUE]
    <3>2. letters' \subseteq letters \cup {x}
      BY <2>3, <3>1 DEF Moves
    <3>3. x \in LetterSet /\ x.job = l.job /\ x.at = "cause" /\ x.row = n
      BY <2>1, <3>1
    <3> HIDE DEF x
    <3>4. LetterFits(x)'
      BY <2>1, <3>1, <3>3 DEF LetterFits
    <3> QED BY <1>3, <3>2, <3>4
  <2>4. CASE letters' = letters \ {l}
    BY <1>2, <2>4
  <2> QED BY <1>7, <2>2, <2>3, <2>4 DEF Write
<1>8. ASSUME NEW l \in letters, Cause(l)
      PROVE  LettersFit'
  <2>1. l \in LetterSet /\ queue'[l.job].at = "failed" /\ l.row <= Len(errorQueue')
    BY <1>1 DEF LetterFits
  <2>2. CASE Moves(l, [l EXCEPT !.at = "tell"])
    <3> DEFINE x == [l EXCEPT !.at = "tell"]
    <3>1. x \in LetterSet /\ x.job = l.job /\ x.at = "tell" /\ x.row = l.row
      BY <2>1
    <3>2. letters' \subseteq letters \cup {x}
      BY <2>2 DEF Moves
    <3> HIDE DEF x
    <3>3. LetterFits(x)'
      BY <2>1, <3>1 DEF LetterFits
    <3> QED BY <1>3, <3>2, <3>3
  <2>3. CASE letters' = letters \ {l}
    BY <1>2, <2>3
  <2> QED BY <1>8, <2>2, <2>3 DEF Cause
<1>9. ASSUME NEW l \in letters, Tell(l)
      PROVE  LettersFit'
  BY <1>2, <1>9 DEF Tell
<1>10. ASSUME WorkerCrash \/ UNCHANGED letters
       PROVE  LettersFit'
  BY <1>2, <1>10 DEF WorkerCrash
<1> QED
  BY <1>5, <1>5a, <1>6, <1>7, <1>8, <1>9, <1>10
  DEF JobNext, Handed, Take, Wake, Stalled, RunStep, Lock, Park, Succeed, LapsedEnds, Expire, LetterStep,
      PressRetry, PressDismiss, Open, ClickStep, AddAgain, Resolve, TimePasses

LEMMA ClickStays ==
    ASSUME Fits, JobsStay, RowsStay, ErrorsFit', NEW k, ClickFits(k)
    PROVE  ClickFits(k)'
<1>1. Len(errorQueue) \in Nat /\ Len(errorQueue') \in Nat /\ Len(errorQueue) <= Len(errorQueue')
  BY DEF Fits, ErrorsFit, RowsStay
<1>2. k.row \in 1 .. Len(errorQueue) /\ k.job \in JobIds \cup {NoJob}
  BY <1>1 DEF ClickFits
<1>3. errorQueue'[k.row].work = errorQueue[k.row].work
  BY <1>2 DEF RowsStay
<1>4. k.at = "resolve" /\ k.job # NoJob =>
        /\ Exists(k.job)' /\ queue'[k.job].row = queue[k.job].row
        /\ queue'[k.job].work = queue[k.job].work
  BY <1>2 DEF ClickFits, JobsStay
<1> QED BY <1>1, <1>2, <1>3, <1>4 DEF ClickFits

LEMMA ClicksStay ==
    ASSUME Fits, JobNext
    PROVE  ClicksFit'
<1>1. /\ DOMAIN clicks = Clicks
      /\ \A c \in Clicks : clicks[c] = Unused \/ ClickFits(clicks[c])
      /\ \A k : ClickFits(k) => ClickFits(k)'
  BY QueueStays, ErrorsStay, ClickStays DEF Fits, ClicksFit
<1>2. ASSUME NEW c \in Clicks, NEW k, clicks' = [clicks EXCEPT ![c] = k],
             k = Unused \/ ClickFits(k)'
      PROVE  ClicksFit'
  <2>1. DOMAIN clicks' = Clicks /\ \A d \in Clicks : clicks'[d] = IF d = c THEN k ELSE clicks[d]
    BY <1>1, <1>2
  <2> QED BY <1>1, <1>2, <2>1 DEF ClicksFit, ClickFits
<1>3. ASSUME NEW c \in Clicks, NEW i \in DOMAIN errorQueue, NEW at \in {"add", "resolve"},
             Open(c, i, at)
      PROVE  ClicksFit'
  <2>0. PICK k : k = Asked(i, at)
    OBVIOUS
  <2>1. k \in [at : {"add", "resolve"}, row : Nat \ {0}, job : JobIds \cup {NoJob}]
    BY <2>0 DEF Asked, Fits, ErrorsFit
  <2>2. k.row = i /\ k.job = NoJob
    BY <2>0 DEF Asked
  <2>3. i <= Len(errorQueue')
    BY <1>3 DEF Open, Fits, ErrorsFit
  <2>4. clicks' = [clicks EXCEPT ![c] = k]
    BY <1>3, <2>0 DEF Open
  <2>5. ClickFits(k)'
    BY <2>1, <2>2, <2>3 DEF ClickFits
  <2> QED BY <1>2, <2>4, <2>5
<1>4. ASSUME NEW c \in Clicks, NEW max \in {1, Attempts}, AddAgain(c, max)
      PROVE  ClicksFit'
  <2> DEFINE i == clicks[c].row
             k == [clicks[c] EXCEPT !.at = "resolve", !.job = NextId]
  <2>1. CASE clicks' = [clicks EXCEPT ![c] = Unused]
    BY <1>2, <2>1
  <2>2. CASE /\ \E j \in JobIds : ~Exists(j)
             /\ Put(NextId, Job(errorQueue[i].work, max, i))
             /\ clicks' = [clicks EXCEPT ![c] = k]
    <3>1. ClickFits(clicks[c]) /\ i \in 1 .. Len(errorQueue) /\ i # 0
      BY <1>4, ClickRow DEF AddAgain
    <3>2. PICK n \in JobIds : n = NextId
      BY <2>2, NextIdIsFree DEF Fits
    <3>3. queue'[n] = Job(errorQueue[i].work, max, i)
      BY <2>2, <3>2 DEF Put, Fits, QueueFits
    <3>4. PICK x : x = k
      OBVIOUS
    <3>5. /\ x \in [at : {"add", "resolve"}, row : Nat \ {0}, job : JobIds \cup {NoJob}]
          /\ x.row = i /\ x.job = n
      BY <3>1, <3>2, <3>4 DEF ClickFits
    <3>6. queue'[n].at # "unused" /\ queue'[n].row # 0 /\ queue'[n].work = errorQueue[i].work
      BY <3>1, <3>3 DEF Job
    <3>7. UNCHANGED errorQueue
      BY <1>4 DEF AddAgain
    <3> HIDE DEF k
    <3>8. ClickFits(x)'
      BY <3>1, <3>5, <3>6, <3>7 DEF ClickFits, Exists
    <3> QED BY <1>2, <2>2, <3>4, <3>8
  <2> QED BY <1>4, <2>1, <2>2 DEF AddAgain
<1>5. ASSUME NEW c \in Clicks, Resolve(c)
      PROVE  ClicksFit'
  BY <1>2, <1>5 DEF Resolve
<1>6. ASSUME UNCHANGED clicks
      PROVE  ClicksFit'
  BY <1>1, <1>6 DEF ClicksFit, ClickFits
<1> QED
  BY <1>3, <1>4, <1>5, <1>6
  DEF JobNext, Handed, Take, Wake, Stalled, StalledAgain, RunStep, Lock, Park, Succeed, LapsedEnds, Fail, Expire,
      LetterStep, Find, Write, Cause, Tell, PressRetry, PressDismiss, ClickStep, WorkerCrash,
      TimePasses
LEMMA FitsStays ==
    ASSUME Fits, JobNext
    PROVE  Fits'
BY QueueStays, RunsStay, LockStays, ErrorsStay, LettersStay, ClicksStay DEF Fits
-----------------------------------------------------------------------------
(* One run at a time.                                                      *)

\* A fault stays known.
LEMMA KnownStays ==
    ASSUME JobNext
    PROVE  jobHappened \subseteq jobHappened'
BY DEF JobNext, Handed, Take, Wake, Stalled, StalledAgain, RunStep, Lock, Park, Succeed, Release, LapsedEnds, Fail,
       Expire, LetterStep, Find, Write, Cause, Tell, PressRetry, PressDismiss, Open, ClickStep,
       AddAgain, Resolve, WorkerCrash, TimePasses, Unheard, JobFault, NoMishap

LEMMA RunsStayApart ==
    ASSUME Fits, RunsApart, JobNext
    PROVE  RunsApart'
<1>1. SUFFICES ASSUME "stall" \notin jobHappened'
               PROVE  /\ \A r \in runs' : /\ Current(r)'
                                          /\ r.at = "working" => memberLock'[Who(r.job)'] = r.job
                      /\ \A r, s \in runs' : r.job = s.job => r = s
  BY DEF RunsApart
<1>2. /\ \A r \in runs : Current(r) /\ (r.at = "working" => memberLock[Who(r.job)] = r.job)
      /\ \A r, s \in runs : r.job = s.job => r = s
  BY <1>1, KnownStays DEF RunsApart
<1> DEFINE RunSet == [job : JobIds, no : Nat \ {0}, at : {"begun", "working", "lapsed"}]
           Apart == /\ \A r \in runs' : /\ Current(r)'
                                        /\ r.at = "working" => memberLock'[Who(r.job)'] = r.job
                    /\ \A r, s \in runs' : r.job = s.job => r = s
<1>3. \A r \in runs : /\ r \in RunSet /\ r.job \in JobIds /\ Exists(r.job)
                     /\ Who(r.job) \in Members /\ Who(r.job)' = Who(r.job)
                     /\ r.job # NoJob
  BY RunIsThere, QueueStays, JobIdsAreNumbers DEF Fits, RunsFit, JobsStay, Who
<1>4. ASSUME NEW r \in runs, runs' = runs \ {r},
             UNCHANGED memberLock \/ memberLock' = Freed(r),
             \A j \in JobIds : j # r.job => queue'[j] = queue[j]
      PROVE  Apart
  <2>1. ASSUME NEW s \in runs'
        PROVE  Current(s)' /\ (s.at = "working" => memberLock'[Who(s.job)'] = s.job)
    <3>1. s \in runs /\ s.job # r.job
      BY <1>2, <1>4
    <3>2. Current(s)'
      BY <1>2, <1>3, <1>4, <3>1 DEF Current
    <3>3. CASE memberLock' = Freed(r)
      BY <1>2, <1>3, <3>1, <3>2, <3>3 DEF Freed, Fits, LockFits
    <3> QED BY <1>2, <1>3, <1>4, <3>1, <3>2, <3>3
  <2> QED BY <1>2, <1>4, <2>1
<1>5. ASSUME UNCHANGED <<runs, memberLock>>,
             \A r \in runs : queue'[r.job] = queue[r.job]
      PROVE  Apart
  BY <1>2, <1>3, <1>5 DEF Current
<1>6. ASSUME NEW j \in JobIds, Exists(j), Take(j)
      PROVE  Apart
  <2> DEFINE n == CHOOSE k \in 1 .. Cardinality(runs) + 1 : \A r \in runs : r.job = j => r.no # k
  <2>1. PICK s : s = Run(j, n, "begun")
    OBVIOUS
  <2>2. queue' = [queue EXCEPT ![j] = [queue[j] EXCEPT !.at = "active", !.run = n]]
    BY <1>6 DEF Take, Put
  <2>3. runs' = runs \cup {s} /\ UNCHANGED memberLock /\ queue[j].at = "waiting"
    BY <1>6, <2>1 DEF Take
  <2>4. queue[j] \in Jobs
    BY <1>6, JobIsThere DEF Fits
  <2> HIDE DEF n
  <2>5. s.job = j /\ s.no = n /\ s.at = "begun"
    BY <2>1 DEF Run
  <2>6. queue'[j].at = "active" /\ queue'[j].run = n
    BY <2>2, <2>4 DEF Fits, QueueFits, Jobs
  <2>7. \A r \in runs : r.job # j
    BY <1>2, <2>3 DEF Current
  <2>8. \A k \in JobIds : k # j => queue'[k] = queue[k]
    BY <2>2 DEF Fits, QueueFits
  <2>9. ASSUME NEW r \in runs'
        PROVE  Current(r)' /\ (r.at = "working" => memberLock'[Who(r.job)'] = r.job)
    <3>1. CASE r = s
      BY <2>5, <2>6, <3>1 DEF Current
    <3>2. CASE r \in runs
      BY <1>2, <1>3, <2>3, <2>7, <2>8, <3>2 DEF Current
    <3> QED BY <2>3, <3>1, <3>2
  <2> QED BY <1>2, <2>3, <2>5, <2>7, <2>9
<1>7. ASSUME NEW r \in runs, Lock(r)
      PROVE  Apart
  <2> DEFINE s == [r EXCEPT !.at = "working"]
  <2>1. /\ runs' = (runs \ {r}) \cup {s} /\ UNCHANGED queue
        /\ memberLock[Who(r.job)] = NoJob
        /\ memberLock' = [memberLock EXCEPT ![Who(r.job)] = r.job]
    BY <1>7 DEF Lock, Goes
  <2>2. s.job = r.job /\ s.no = r.no
    BY <1>3
  <2> HIDE DEF s
  <2>3. memberLock'[Who(r.job)] = r.job
    BY <1>3, <2>1 DEF Fits, LockFits
  <2>4. ASSUME NEW x \in runs, x # r
        PROVE  Current(x)' /\ (x.at = "working" => memberLock'[Who(x.job)'] = x.job)
    <3>1. Current(x)'
      BY <1>2, <2>1 DEF Current
    <3>2. x.at = "working" => Who(x.job) # Who(r.job)
      BY <1>2, <1>3, <2>1
    <3>3. x.at = "working" => memberLock'[Who(x.job)] = memberLock[Who(x.job)]
      BY <1>3, <2>1, <3>2 DEF Fits, LockFits
    <3> QED BY <1>2, <1>3, <3>1, <3>3
  <2>5. Current(s)' /\ memberLock'[Who(s.job)'] = s.job
    <3>1. queue'[s.job].at = "active" /\ queue'[s.job].run = s.no
      BY <1>2, <2>1, <2>2 DEF Current
    <3>2. Who(r.job)' = Who(r.job)
      BY <1>3
    <3> QED BY <2>2, <2>3, <3>1, <3>2 DEF Current
  <2>6. \A x \in runs' : x = s \/ (x \in runs /\ x # r)
    BY <2>1
  <2> QED BY <1>2, <2>2, <2>4, <2>5, <2>6
<1>8. ASSUME NEW r \in runs, NEW x, UNCHANGED queue \/ Put(r.job, x)
      PROVE  \A j \in JobIds : j # r.job => queue'[j] = queue[j]
  BY <1>8 DEF Put, Fits, QueueFits
<1>9. ASSUME NEW r \in runs, Park(r) \/ Succeed(r) \/ LapsedEnds(r) \/ \E code \in Codes : Fail(r, code)
      PROVE  Apart
  <2>1. runs' = runs \ {r}
    BY <1>9 DEF Park, Succeed, LapsedEnds, Fail, Ends
  <2>2. UNCHANGED memberLock \/ memberLock' = Freed(r)
    BY <1>9 DEF Park, Succeed, Release, LapsedEnds, Fail
  <2>3. \E x : UNCHANGED queue \/ Put(r.job, x)
    BY <1>9 DEF Park, Succeed, LapsedEnds, Fail
  <2> QED BY <1>4, <1>8, <2>1, <2>2, <2>3
<1>10. ASSUME NEW j \in JobIds, Wake(j) \/ Stalled(j) \/ StalledAgain(j)
       PROVE  Apart
  <2>1. \A r \in runs : r.job # j
    BY <1>1, <1>2, <1>10 DEF Wake, Stalled, StalledAgain, Unheard, Current, JobFault
  <2>2. \A k \in JobIds : k # j => queue'[k] = queue[k]
    BY <1>10 DEF Wake, Stalled, StalledAgain, Put, Fits, QueueFits
  <2> QED BY <1>3, <1>5, <1>10, <2>1, <2>2 DEF Wake, Stalled, StalledAgain
<1>11. ASSUME NEW m \in Members, Expire(m)
       PROVE  Apart
  <2> DEFINE Dropped(r) == IF r.job = memberLock[m] /\ r.at = "working"
                        THEN [r EXCEPT !.at = "lapsed"] ELSE r
  <2>1. /\ runs' = {Dropped(r) : r \in runs} /\ UNCHANGED queue
        /\ memberLock' = [memberLock EXCEPT ![m] = NoJob]
    BY <1>11 DEF Expire
  <2>2. \A r \in runs : Dropped(r).job = r.job
    BY <1>3
  <2>3. \A r, s \in runs' : r.job = s.job => r = s
    <3> HIDE DEF Dropped
    <3> QED BY <1>2, <2>1, <2>2
  <2>4. \A s \in runs' : \E r \in runs :
          /\ s.job = r.job /\ s.no = r.no
          /\ s.at = "working" => r.at = "working" /\ r.job # memberLock[m]
    BY <1>3, <2>1
  <2> HIDE DEF Dropped
  <2>5. ASSUME NEW s \in runs'
        PROVE  Current(s)' /\ (s.at = "working" => memberLock'[Who(s.job)'] = s.job)
    <3>1. PICK r \in runs : /\ s.job = r.job /\ s.no = r.no
                            /\ s.at = "working" => r.at = "working" /\ r.job # memberLock[m]
      BY <2>4
    <3>2. Current(s)'
      BY <1>2, <2>1, <3>1 DEF Current
    <3>3. ASSUME s.at = "working"
          PROVE  Who(r.job) # m /\ memberLock[Who(r.job)] = r.job
      BY <1>2, <3>1, <3>3
    <3>4. ASSUME s.at = "working"
          PROVE  memberLock'[Who(r.job)] = r.job
      BY <1>3, <2>1, <3>3, <3>4 DEF Fits, LockFits
    <3> QED BY <1>3, <3>1, <3>2, <3>4
  <2> QED BY <2>3, <2>5
<1>12. ASSUME NEW c \in Clicks, NEW max \in {1, Attempts}, AddAgain(c, max)
       PROVE  Apart
  <2>1. \A r \in runs : queue'[r.job] = queue[r.job]
    BY <1>3, <1>12, NextIdIsFree DEF AddAgain, Put, Fits, QueueFits
  <2> QED BY <1>5, <1>12, <2>1 DEF AddAgain
<1>13. ASSUME WorkerCrash
       PROVE  Apart
  BY <1>13 DEF WorkerCrash
<1>14. ASSUME UNCHANGED <<queue, runs, memberLock>>
       PROVE  Apart
  BY <1>5, <1>14
<1> QED
  BY <1>6, <1>7, <1>9, <1>10, <1>11, <1>12, <1>13, <1>14
  DEF JobNext, Handed, RunStep, LetterStep, Find, Write, Cause, Tell, PressRetry, PressDismiss, Open,
      ClickStep, Resolve, TimePasses
-----------------------------------------------------------------------------
(* No failure out of sight.                                                *)

Written(j) == \E l \in letters : l.job = j /\ l.at \in {"find", "write"}

Listed(j) == \E i \in 1 .. Len(errorQueue) : /\ errorQueue[i].status = "failed"
                                             /\ SamePlan(errorQueue[i].work, queue[j].work)

SentRound(j) == \E k \in JobIds : /\ k > j /\ Exists(k) /\ queue[k].row # 0
                                  /\ SamePlan(queue[k].work, queue[j].work)

LEMMA SeenParts == ASSUME NEW j PROVE Seen(j) <=> Written(j) \/ Listed(j) \/ SentRound(j)
BY DEF Seen, Written, Listed, SentRound

\* Who fails for good, and not for stalling, has a letter at once.
LEMMA NewFailure ==
    ASSUME Fits, JobNext, NEW j \in JobIds, HasFailed(j)', queue[j].at # "failed"
    PROVE  Written(j)'
<1>0. queue'[j].at = "failed" /\ queue'[j].stalls <= MaxStalledCount
  BY DEF HasFailed
<1>1. ASSUME NEW k \in JobIds, NEW x, Put(k, x), x.at # "failed"
      PROVE  FALSE
  BY <1>0, <1>1 DEF Put, Fits, QueueFits
<1>2. ASSUME NEW k \in JobIds, Handed(k)
      PROVE  FALSE
  <2>1. queue[k] \in Jobs
    BY <1>2, JobIsThere DEF Fits, Handed
  <2> DEFINE n == CHOOSE i \in 1 .. Cardinality(runs) + 1 : \A r \in runs : r.job = k => r.no # i
  <2>2. CASE Take(k)
    <3> DEFINE x == [queue[k] EXCEPT !.at = "active", !.run = n]
    <3>1. Put(k, x)
      BY <2>2 DEF Take
    <3> HIDE DEF n
    <3>2. x.at = "active"
      BY <2>1 DEF Jobs
    <3> HIDE DEF x
    <3> QED BY <1>1, <3>1, <3>2
  <2>3. CASE Wake(k)
    <3> DEFINE x == [queue[k] EXCEPT !.at = "waiting"]
    <3>1. Put(k, x) /\ x.at = "waiting"
      BY <2>1, <2>3 DEF Wake, Jobs
    <3> HIDE DEF x
    <3> QED BY <1>1, <3>1
  <2>4. CASE Stalled(k)
    <3> DEFINE x == [queue[k] EXCEPT !.at = "waiting", !.stalls = @ + 1]
    <3>1. Put(k, x) /\ x.at = "waiting"
      BY <2>1, <2>4 DEF Stalled, Jobs
    <3> HIDE DEF x
    <3> QED BY <1>1, <3>1
  <2>5. CASE StalledAgain(k)
    <3> DEFINE x == [queue[k] EXCEPT !.at = "failed", !.stalls = @ + 1]
    <3>1. Put(k, x) /\ queue[k].stalls >= MaxStalledCount
      BY <2>5 DEF StalledAgain
    <3>2. x.stalls > MaxStalledCount
      BY <2>1, <3>1 DEF Jobs, MaxStalledCount
    <3> HIDE DEF x
    <3>3. queue' = [queue EXCEPT ![k] = x] /\ k \in JobIds
      BY <3>1 DEF Put
    <3>4. queue'[j] = IF j = k THEN x ELSE queue[j]
      BY <3>3 DEF Fits, QueueFits
    <3>5. queue'[j] = x
      BY <1>0, <3>4
    <3> QED BY <1>0, <2>1, <3>2, <3>5 DEF MaxStalledCount, Jobs, x
  <2> QED BY <1>2, <2>2, <2>3, <2>4, <2>5 DEF Handed
<1>3. ASSUME NEW r \in runs, RunStep(r)
      PROVE  Written(j)'
  <2>1. r.job \in JobIds /\ queue[r.job] \in Jobs
    BY RunIsThere DEF Fits, RunsFit
  <2>2. ASSUME NEW at \in {"delayed", "done"}, Put(r.job, [queue[r.job] EXCEPT !.at = at])
        PROVE  FALSE
    <3> DEFINE x == [queue[r.job] EXCEPT !.at = at]
    <3>1. x.at # "failed"
      BY <2>1 DEF Jobs
    <3> HIDE DEF x
    <3> QED BY <1>1, <2>1, <2>2, <3>1 DEF x
  <2>3. ASSUME NEW code \in Codes, Fail(r, code)
        PROVE  Written(j)'
    <3> DEFINE over == Unrecoverable(code) \/ queue[r.job].made + 1 >= queue[r.job].max
               at == IF over THEN "failed" ELSE "delayed"
               x == [queue[r.job] EXCEPT !.at = at, !.made = @ + 1]
    <3>1. Current(r) /\ Put(r.job, x)
      BY <1>0, <2>3 DEF Fail
    <3>2. x.at = at
      <4>1. at \in {"failed", "delayed"}
        OBVIOUS
      <4> HIDE DEF at
      <4> QED BY <2>1, <4>1, JobAttempted
    <3> HIDE DEF x
    <3>3. r.job = j
      BY <1>0, <2>1, <3>1 DEF Put, Fits, QueueFits
    <3>4. over
      BY <1>1, <2>1, <3>1, <3>2
    <3>5. letters' = letters \cup {Letter(j, code)}
      BY <2>3, <3>1, <3>3, <3>4 DEF Fail, DeadLettered
    <3>6. Letter(j, code) \in letters' /\ Letter(j, code).job = j /\ Letter(j, code).at = "find"
      BY <3>5 DEF Letter
    <3> QED BY <3>6 DEF Written
  <2> QED
    BY <1>0, <1>3, <2>2, <2>3 DEF RunStep, Lock, Park, Succeed, LapsedEnds
<1>4. ASSUME NEW c \in Clicks, NEW max \in {1, Attempts}, AddAgain(c, max)
      PROVE  FALSE
  <2>1. CASE UNCHANGED queue
    BY <1>0, <2>1
  <2>2. CASE queue' # queue
    <3>1. /\ \E k \in JobIds : ~Exists(k)
          /\ Put(NextId, Job(errorQueue[clicks[c].row].work, max, clicks[c].row))
      BY <1>4, <2>2 DEF AddAgain
    <3>2. NextId \in JobIds
      BY <3>1, NextIdIsFree DEF Fits
    <3> QED BY <1>1, <3>1, <3>2 DEF Job
  <2> QED BY <2>1, <2>2
<1> QED
  BY <1>0, <1>2, <1>3, <1>4
  DEF JobNext, Expire, LetterStep, Find, Write, Cause, Tell, PressRetry, PressDismiss, Open,
      ClickStep, Resolve, WorkerCrash, TimePasses

\* Only a click puts a row away.
LEMMA OpenStays ==
    ASSUME Fits, JobNext, NEW i \in 1 .. Len(errorQueue), errorQueue[i].status = "failed",
           \A c \in Clicks : ~(Resolve(c) /\ clicks[c].row = i)
    PROVE  errorQueue'[i].status = "failed"
<1>1. ErrorsFit
  BY DEF Fits
<1>2. ASSUME UNCHANGED errorQueue
      PROVE  errorQueue'[i].status = "failed"
  BY <1>2
<1>3. ASSUME NEW l \in letters, Write(l)
      PROVE  errorQueue'[i].status = "failed"
  <2>1. CASE l.row # 0 /\ errorQueue' = [errorQueue EXCEPT ![l.row] = Reopened(@)]
    BY <1>1, <2>1, LetterRow, RowCountsUp
  <2>2. CASE errorQueue' = Append(errorQueue, Row(queue[l.job].work, l.code))
    BY <1>1, <2>2, LetterIsThere, NewRow, RowIsMade
  <2> QED BY <1>2, <1>3, <2>1, <2>2 DEF Write
<1>4. ASSUME NEW l \in letters, NEW how \in {"spared", "mailed", "logged"}, l.row # 0,
             errorQueue' = [errorQueue EXCEPT ![l.row].told = how]
      PROVE  errorQueue'[i].status = "failed"
  BY <1>1, <1>4, LetterRow, RowIsTold
<1>5. ASSUME NEW l \in letters, Cause(l) \/ Tell(l)
      PROVE  errorQueue'[i].status = "failed"
  <2>1. Cause(l) => l.row # 0
    BY DEF Cause, Fits, LettersFit, LetterFits
  <2> QED BY <1>2, <1>4, <1>5, <2>1 DEF Cause, Tell
<1>6. ASSUME NEW c \in Clicks, Resolve(c)
      PROVE  errorQueue'[i].status = "failed"
  <2>1. clicks[c].row # i /\ clicks[c].row \in 1 .. Len(errorQueue)
    BY <1>6, ClickRow DEF Resolve
  <2> QED BY <1>1, <1>2, <1>6, <2>1, RowIsClosed DEF Resolve
<1>7. ASSUME TimePasses
      PROVE  errorQueue'[i].status = "failed"
  BY <1>1, <1>7, RowsAge
<1> QED
  BY <1>2, <1>3, <1>5, <1>6, <1>7
  DEF JobNext, Handed, Take, Wake, Stalled, StalledAgain, RunStep, Lock, Park, Succeed, LapsedEnds, Fail, Expire,
      LetterStep, Find, PressRetry, PressDismiss, Open, ClickStep, AddAgain, WorkerCrash
Spoilt == {"db", "crash", "crossed", "dismissed"}

\* A retry stays one.
LEMMA SentStays ==
    ASSUME Fits, JobsStay, NEW j \in JobIds, Exists(j), SentRound(j)
    PROVE  SentRound(j)'
BY DEF SentRound, JobsStay

\* A row is put away by a click that knows of a later job, or of none that failed since.
LEMMA ListedStays ==
    ASSUME Fits, JobNext, jobHappened' \cap Spoilt = {},
           NEW j \in JobIds, queue[j].at = "failed", Listed(j)
    PROVE  Listed(j)' \/ SentRound(j)'
<1>1. PICK i \in 1 .. Len(errorQueue) : /\ errorQueue[i].status = "failed"
                                       /\ SamePlan(errorQueue[i].work, queue[j].work)
  BY DEF Listed
<1>2. JobsStay /\ RowsStay /\ ErrorsFit /\ ErrorsFit' /\ Exists(j)
  BY QueueStays, ErrorsStay DEF Fits, Exists
<1>3. /\ i \in 1 .. Len(errorQueue')
      /\ SamePlan(errorQueue'[i].work, queue'[j].work)
  BY <1>1, <1>2 DEF JobsStay, RowsStay, ErrorsFit
<1>4. CASE \A c \in Clicks : ~(Resolve(c) /\ clicks[c].row = i)
  <2>1. errorQueue'[i].status = "failed"
    BY <1>1, <1>4, OpenStays
  <2> QED BY <1>3, <2>1 DEF Listed
<1>5. ASSUME NEW c \in Clicks, Resolve(c), clicks[c].row = i
      PROVE  Listed(j)' \/ SentRound(j)'
  <2> DEFINE k == clicks[c].job
  <2>1. CASE UNCHANGED errorQueue
    BY <1>1, <1>3, <2>1 DEF Listed
  <2>2. CASE errorQueue' # errorQueue
    <3>1. /\ k # NoJob
          /\ ~ \E n \in JobIds : /\ n >= k /\ queue[n].at = "failed"
                               /\ Who(n) = errorQueue[i].work.who
                               /\ queue[n].work.plan = errorQueue[i].work.plan
      BY <1>5, <2>2 DEF Resolve, Spoilt
    <3>2. /\ k \in JobIds /\ Exists(k) /\ queue[k].row # 0
          /\ queue[k].work = errorQueue[i].work
      BY <1>5, <3>1, ClickRow DEF Resolve, ClickFits
    <3>5. queue[j].at = "failed" /\ Who(j) = errorQueue[i].work.who /\ queue[j].work.plan = errorQueue[i].work.plan
      BY <1>1 DEF SamePlan, Who
    <3>6. ~(j >= k)
      BY <3>1, <3>5
    <3>7. j \in Nat /\ k \in Nat
      BY <3>2, JobIdsAreNumbers
    <3>3. k > j
      <4> HIDE DEF k
      <4> QED BY <3>6, <3>7
    <3>4. SentRound(j)
      BY <1>1, <3>2, <3>3 DEF SentRound
    <3> QED BY <1>2, <3>4, SentStays
  <2> QED BY <2>1, <2>2
<1> QED BY <1>4, <1>5

\* A letter goes on, or its row is on the list.
LEMMA WrittenStays ==
    ASSUME Fits, JobNext, jobHappened' \cap Spoilt = {},
           NEW j \in JobIds, queue[j].at = "failed", Written(j)
    PROVE  Written(j)' \/ Listed(j)'
<1>1. PICK x \in letters : x.job = j /\ x.at \in {"find", "write"}
  BY DEF Written
<1>2. JobsStay /\ RowsStay /\ ErrorsFit /\ ErrorsFit' /\ Exists(j)
  BY QueueStays, ErrorsStay DEF Fits, Exists
<1>3. queue'[j].work = queue[j].work
  BY <1>2 DEF JobsStay
<1>4. CASE x \in letters'
  BY <1>1, <1>4 DEF Written
<1>5. ASSUME Find(x)
      PROVE  Written(j)'
  <2> DEFINE y == [x EXCEPT !.at = "write", !.row = Match(x)]
  <2>1. Moves(x, y)
    BY <1>5 DEF Find, JobFault, Spoilt
  <2>2. y.job = j /\ y.at = "write"
    BY <1>1 DEF Fits, LettersFit, LetterFits
  <2>3. y \in letters'
    BY <2>1 DEF Moves
  <2> HIDE DEF y
  <2> QED BY <2>2, <2>3 DEF Written
<1>6. ASSUME Write(x)
      PROVE  Listed(j)'
  <2>1. CASE /\ x.row # 0
             /\ errorQueue' = [errorQueue EXCEPT ![x.row] = Reopened(@)]
    <3>1. x.row \in 1 .. Len(errorQueue) /\ SamePlan(errorQueue[x.row].work, queue[j].work)
      BY <1>1, <1>6, <2>1, LetterRow DEF Write, Fits, LettersFit, LetterFits
    <3>2. errorQueue'[x.row].status = "failed" /\ Len(errorQueue') = Len(errorQueue)
      BY <1>2, <2>1, <3>1, RowCountsUp DEF ToldStays
    <3>3. errorQueue'[x.row].work = errorQueue[x.row].work
      BY <1>2, <3>1 DEF RowsStay
    <3> QED BY <1>3, <3>1, <3>2, <3>3 DEF Listed
  <2>2. CASE errorQueue' = Append(errorQueue, Row(queue[x.job].work, x.code))
    <3> DEFINE row == Row(queue[x.job].work, x.code)
    <3>1. row \in Rows /\ row.work = queue[j].work /\ row.status = "failed"
      BY <1>1, LetterIsThere, NewRow
    <3> HIDE DEF row
    <3>2. PICK n \in Nat : n = Len(errorQueue) + 1 /\ n = Len(errorQueue') /\ errorQueue'[n] = row
      BY <1>2, <2>2, <3>1, RowIsMade DEF row
    <3>3. n \in 1 .. Len(errorQueue')
      BY <1>2, <3>2 DEF ErrorsFit
    <3>4. SamePlan(errorQueue'[n].work, queue'[j].work)
      BY <1>3, <3>1, <3>2 DEF SamePlan
    <3> QED BY <3>1, <3>2, <3>3, <3>4 DEF Listed
  <2> QED BY <1>6, <2>1, <2>2 DEF Write, JobFault, Spoilt
<1>7. ASSUME NEW l \in letters, LetterStep(l)
      PROVE  Written(j)' \/ Listed(j)'
  <2>1. CASE l # x
    <3>1. x \in letters'
      BY <1>7, <2>1 DEF LetterStep, Find, Write, Cause, Tell, Moves
    <3> QED BY <1>4, <3>1
  <2>2. CASE l = x
    <3>1. ~Cause(x) /\ ~Tell(x)
      BY <1>1 DEF Cause, Tell
    <3> QED BY <1>5, <1>6, <1>7, <2>2, <3>1 DEF LetterStep
  <2> QED BY <2>1, <2>2
<1>8. ~WorkerCrash
  BY DEF WorkerCrash, JobFault, Spoilt
<1>9. ASSUME letters \subseteq letters'
      PROVE  Written(j)'
  BY <1>1, <1>9 DEF Written
<1> QED
  BY <1>7, <1>8, <1>9
  DEF JobNext, Handed, Take, Wake, Stalled, StalledAgain, RunStep, Lock, Park, Succeed, LapsedEnds, Fail, Expire,
      PressRetry, PressDismiss, Open, ClickStep, AddAgain, Resolve, TimePasses

LEMMA InSightStays ==
    ASSUME Fits, InSight, JobNext
    PROVE  InSight'
<1>1. SUFFICES ASSUME jobHappened' \cap Spoilt = {}, NEW j \in JobIds, HasFailed(j)'
               PROVE  Seen(j)'
  BY DEF InSight, Spoilt
<1>2. CASE queue[j].at # "failed"
  <2>1. Written(j)'
    BY <1>1, <1>2, NewFailure
  <2> QED BY <2>1 DEF Written, Seen
<1>3. CASE queue[j].at = "failed"
  <2>0. HasFailed(j)
    BY <1>1, <1>3, QueueStays DEF HasFailed, JobsStay, Exists
  <2>1. Seen(j)
    BY <1>1, <2>0, KnownStays DEF InSight, Spoilt
  <2>2. Written(j)' \/ Listed(j)' \/ SentRound(j)'
    BY <1>1, <1>3, <2>1, SeenParts, WrittenStays, ListedStays, SentStays, QueueStays DEF Exists
  <2> QED BY <2>2 DEF Written, Listed, SentRound, Seen
<1> QED BY <1>2, <1>3
-----------------------------------------------------------------------------
(* Who is told.                                                            *)

LettersKept == \A l \in letters : l.at \in {"cause", "tell"} => l \in letters'

LEMMA TellingRests ==
    ASSUME Telling, ToldStays, RowsStay, LettersKept, "crash" \notin jobHappened
    PROVE  Telling'
<1>1. ASSUME NEW i \in 1 .. Len(errorQueue), HasLetter(i)
      PROVE  HasLetter(i)'
  BY <1>1 DEF HasLetter, LettersKept
<1>2. ASSUME NEW i \in 1 .. Len(errorQueue), HasFirst(i)
      PROVE  HasFirst(i)'
  BY <1>2 DEF HasFirst, ToldStays, RowsStay
<1> QED BY <1>1, <1>2 DEF Telling, ToldStays

\* A row that is made has its letter.
LEMMA TellingWrite ==
    ASSUME Fits, Telling, "crash" \notin jobHappened, NEW l \in letters, Write(l)
    PROVE  Telling'
<1>1. ErrorsFit /\ l.at # "cause" /\ l.at # "tell"
  BY DEF Write, Fits
<1>2. LettersKept
  BY <1>1 DEF Write, Moves, LettersKept
<1>3. CASE UNCHANGED errorQueue
  <2>1. ToldStays /\ RowsStay
    BY <1>1, <1>3, RowsRest DEF ToldStays
  <2> QED BY <1>2, <2>1, TellingRests
<1>4. CASE l.row # 0 /\ errorQueue' = [errorQueue EXCEPT ![l.row] = Reopened(@)]
  <2>1. ToldStays /\ RowsStay
    BY <1>1, <1>4, LetterRow, RowCountsUp
  <2> QED BY <1>2, <2>1, TellingRests
<1>5. CASE /\ errorQueue' = Append(errorQueue, Row(queue[l.job].work, l.code))
           /\ Moves(l, [l EXCEPT !.at = "cause", !.row = Len(errorQueue) + 1, !.new = TRUE])
  <2> DEFINE row == Row(queue[l.job].work, l.code)
  <2>1. row \in Rows /\ row.told = "no"
    BY LetterIsThere, NewRow
  <2> HIDE DEF row
  <2>2. PICK n \in Nat :
          /\ n = Len(errorQueue) + 1 /\ n = Len(errorQueue') /\ errorQueue'[n] = row
          /\ RowsStay /\ \A k \in 1 .. Len(errorQueue) : errorQueue'[k] = errorQueue[k]
    BY <1>1, <1>5, <2>1, RowIsMade DEF row
  <2>3. HasLetter(n)'
    <3> DEFINE x == [l EXCEPT !.at = "cause", !.row = n, !.new = TRUE]
    <3>1. x.row = n /\ x.at = "cause"
      BY DEF Fits, LettersFit, LetterFits
    <3>2. x \in letters'
      BY <1>5, <2>2 DEF Moves
    <3> HIDE DEF x
    <3> QED BY <3>1, <3>2 DEF HasLetter
  <2>4. ASSUME NEW i \in 1 .. Len(errorQueue)
        PROVE  /\ errorQueue'[i].told = "no" => HasLetter(i)'
               /\ errorQueue'[i].told = "spared" => HasFirst(i)'
    <3>1. errorQueue'[i] = errorQueue[i]
      BY <2>2
    <3>2. HasLetter(i) => HasLetter(i)'
      BY <1>2 DEF HasLetter, LettersKept
    <3>3. HasFirst(i) => HasFirst(i)'
      BY <1>1, <2>2 DEF HasFirst, ErrorsFit
    <3> QED BY <3>1, <3>2, <3>3 DEF Telling
  <2>5. \A i \in 1 .. Len(errorQueue') : i = n \/ i \in 1 .. Len(errorQueue)
    BY <1>1, <2>2 DEF ErrorsFit
  <2> QED BY <2>1, <2>2, <2>3, <2>4, <2>5 DEF Telling
<1> QED BY <1>3, <1>4, <1>5 DEF Write

\* A row is spared for the sake of an earlier one, which is told of itself or was spared for
\* the sake of one that is.
LEMMA TellingCause ==
    ASSUME Fits, Telling, "crash" \notin jobHappened, NEW l \in letters, Cause(l)
    PROVE  Telling'
<1> DEFINE n == l.row
<1>1. ErrorsFit /\ n \in 1 .. Len(errorQueue)
  BY LetterRow DEF Cause, Fits, LettersFit, LetterFits
<1>2. CASE Moves(l, [l EXCEPT !.at = "tell"]) /\ UNCHANGED errorQueue
  <2> DEFINE x == [l EXCEPT !.at = "tell"]
  <2>1. x.row = n /\ x.at = "tell"
    BY DEF Fits, LettersFit, LetterFits
  <2>2. letters' = (letters \ {l}) \cup {x}
    BY <1>2 DEF Moves
  <2> HIDE DEF x
  <2>3. ASSUME NEW i \in 1 .. Len(errorQueue), HasLetter(i)
        PROVE  HasLetter(i)'
    <3>1. PICK y \in letters : y.row = i /\ y.at \in {"cause", "tell"}
      BY <2>3 DEF HasLetter
    <3>2. CASE y = l
      BY <2>1, <2>2, <3>1, <3>2 DEF HasLetter
    <3>3. CASE y # l
      BY <2>2, <3>1, <3>3 DEF HasLetter
    <3> QED BY <3>2, <3>3
  <2>4. \A i \in 1 .. Len(errorQueue) : HasFirst(i) => HasFirst(i)'
    BY <1>2 DEF HasFirst
  <2> QED BY <1>2, <2>3, <2>4 DEF Telling
<1>3. CASE /\ AlertedRecently(n) /\ letters' = letters \ {l}
           /\ errorQueue' = [errorQueue EXCEPT ![n].told = "spared"]
  <2>1. /\ Len(errorQueue') = Len(errorQueue) /\ RowsStay
        /\ \A k \in 1 .. Len(errorQueue) :
             errorQueue'[k].told = IF k = n THEN "spared" ELSE errorQueue[k].told
    BY <1>1, <1>3, RowIsTold
  <2>2. PICK k \in 1 .. n - 1 : errorQueue[k].code = errorQueue[n].code
    BY <1>3 DEF AlertedRecently
  <2>3. k \in 1 .. Len(errorQueue) /\ k < n
    BY <1>1, <2>2 DEF ErrorsFit
  <2>4. PICK f \in 1 .. Len(errorQueue) :
          f < n /\ errorQueue[f].code = errorQueue[n].code /\ errorQueue[f].told # "spared"
    <3>1. CASE errorQueue[k].told # "spared"
      BY <2>2, <2>3, <3>1
    <3>2. CASE errorQueue[k].told = "spared"
      <4>1. PICK f \in 1 .. Len(errorQueue) :
              f < k /\ errorQueue[f].code = errorQueue[k].code /\ errorQueue[f].told # "spared"
        BY <2>3, <3>2 DEF Telling, HasFirst
      <4>2. f < n
        BY <1>1, <2>3, <4>1
      <4> QED BY <2>2, <4>1, <4>2
    <3> QED BY <3>1, <3>2
  <2>5. ASSUME NEW i \in 1 .. Len(errorQueue), errorQueue'[i].told = "spared"
        PROVE  HasFirst(i)'
    <3>1. \A a \in 1 .. Len(errorQueue) : errorQueue'[a].code = errorQueue[a].code
      BY <2>1 DEF RowsStay
    <3>2. f # n /\ errorQueue'[f].told # "spared"
      BY <1>1, <2>1, <2>4
    <3>3. CASE i = n
      BY <2>1, <2>4, <3>1, <3>2, <3>3 DEF HasFirst
    <3>4. CASE i # n
      <4>1. PICK a \in 1 .. Len(errorQueue) :
              a < i /\ errorQueue[a].code = errorQueue[i].code /\ errorQueue[a].told # "spared"
        BY <2>1, <2>5, <3>4 DEF Telling, HasFirst
      <4>2. CASE a # n
        BY <2>1, <3>1, <4>1, <4>2 DEF HasFirst
      <4>3. CASE a = n
        <5>1. f < i /\ errorQueue[f].code = errorQueue[i].code
          BY <1>1, <2>4, <4>1, <4>3
        <5> QED BY <2>1, <3>1, <3>2, <5>1 DEF HasFirst
      <4> QED BY <4>2, <4>3
    <3> QED BY <3>3, <3>4
  <2>6. ASSUME NEW i \in 1 .. Len(errorQueue), errorQueue'[i].told = "no"
        PROVE  HasLetter(i)'
    <3>1. i # n /\ errorQueue[i].told = "no"
      BY <2>1, <2>6
    <3>2. PICK y \in letters : y.row = i /\ y.at \in {"cause", "tell"}
      BY <3>1 DEF Telling, HasLetter
    <3> QED BY <1>3, <3>1, <3>2 DEF HasLetter
  <2> QED BY <2>1, <2>5, <2>6 DEF Telling
<1> QED BY <1>2, <1>3 DEF Cause

LEMMA TellingTell ==
    ASSUME Fits, Telling, "crash" \notin jobHappened, NEW l \in letters, Tell(l)
    PROVE  Telling'
<1>1. ErrorsFit /\ letters' = letters \ {l}
  BY DEF Tell, Fits
<1>2. CASE l.row = 0
  <2>1. UNCHANGED errorQueue
    BY <1>2 DEF Tell
  <2>2. \A i \in 1 .. Len(errorQueue) : HasLetter(i) => HasLetter(i)'
    BY <1>1, <1>2 DEF HasLetter
  <2>3. \A i \in 1 .. Len(errorQueue) : HasFirst(i) => HasFirst(i)'
    BY <2>1 DEF HasFirst
  <2> QED BY <2>1, <2>2, <2>3 DEF Telling
<1>3. CASE l.row # 0
  <2>1. PICK how \in {"mailed", "logged"} : errorQueue' = [errorQueue EXCEPT ![l.row].told = how]
    BY <1>3 DEF Tell
  <2>2. /\ l.row \in 1 .. Len(errorQueue)
        /\ Len(errorQueue') = Len(errorQueue) /\ RowsStay
        /\ \A k \in 1 .. Len(errorQueue) :
             errorQueue'[k].told = IF k = l.row THEN how ELSE errorQueue[k].told
    <3>1. l.row \in 1 .. Len(errorQueue)
      BY <1>3, LetterRow
    <3>2. /\ Len(errorQueue') = Len(errorQueue) /\ RowsStay
          /\ \A k \in 1 .. Len(errorQueue) :
               errorQueue'[k].told = IF k = l.row THEN how ELSE errorQueue[k].told
      <4>1. how \in {"spared", "mailed", "logged"}
        OBVIOUS
      <4> QED BY <1>1, <2>1, <3>1, <4>1, RowIsTold
    <3> QED BY <3>1, <3>2
  <2>3. ASSUME NEW i \in 1 .. Len(errorQueue), errorQueue'[i].told = "no"
        PROVE  HasLetter(i)'
    <3>1. i # l.row /\ errorQueue[i].told = "no"
      BY <2>2, <2>3
    <3>2. PICK y \in letters : y.row = i /\ y.at \in {"cause", "tell"}
      BY <3>1 DEF Telling, HasLetter
    <3> QED BY <1>1, <3>1, <3>2 DEF HasLetter
  <2>4. ASSUME NEW i \in 1 .. Len(errorQueue), errorQueue'[i].told = "spared"
        PROVE  HasFirst(i)'
    <3>1. errorQueue[i].told = "spared"
      BY <2>2, <2>4
    <3>2. PICK a \in 1 .. Len(errorQueue) :
            a < i /\ errorQueue[a].code = errorQueue[i].code /\ errorQueue[a].told # "spared"
      BY <3>1 DEF Telling, HasFirst
    <3>3. errorQueue'[a].told # "spared" /\ errorQueue'[a].code = errorQueue'[i].code
      BY <2>2, <3>2 DEF RowsStay
    <3> QED BY <2>2, <3>2, <3>3 DEF HasFirst
  <2> QED BY <2>2, <2>3, <2>4 DEF Telling
<1> QED BY <1>2, <1>3

LEMMA TellingStays ==
    ASSUME Fits, Telling, JobNext
    PROVE  Telling'
<1>1. SUFFICES ASSUME "crash" \notin jobHappened'
               PROVE  Telling'
  BY DEF Telling
<1>2. "crash" \notin jobHappened
  BY <1>1, KnownStays
<1>3. ASSUME ToldStays, letters \subseteq letters'
      PROVE  Telling'
  BY <1>2, <1>3, ErrorsStay, TellingRests DEF LettersKept
<1>4. ASSUME UNCHANGED errorQueue, letters \subseteq letters'
      PROVE  Telling'
  BY <1>3, <1>4 DEF ToldStays
<1>5. ASSUME NEW l \in letters, Find(l)
      PROVE  Telling'
  <2>1. LettersKept /\ ToldStays
    BY <1>5 DEF Find, Moves, LettersKept, ToldStays
  <2> QED BY <1>2, <2>1, ErrorsStay, TellingRests
<1>6. ASSUME NEW l \in letters, Write(l) \/ Cause(l) \/ Tell(l)
      PROVE  Telling'
  BY <1>2, <1>6, TellingWrite, TellingCause, TellingTell
<1>7. ASSUME NEW c \in Clicks, Resolve(c)
      PROVE  Telling'
  <2>1. clicks[c].row \in 1 .. Len(errorQueue) /\ UNCHANGED letters
    BY <1>7, ClickRow DEF Resolve
  <2>2. CASE UNCHANGED errorQueue
    BY <1>4, <2>1, <2>2
  <2>3. CASE errorQueue' # errorQueue
    BY <1>3, <1>7, <2>1, <2>3, RowIsClosed DEF Resolve, Fits
  <2> QED BY <2>2, <2>3
<1>8. ASSUME TimePasses
      PROVE  Telling'
  BY <1>3, <1>8, RowsAge DEF TimePasses, Fits
<1>9. ~WorkerCrash
  BY <1>1 DEF WorkerCrash, JobFault
<1> QED
  BY <1>4, <1>5, <1>6, <1>7, <1>8, <1>9
  DEF JobNext, Handed, Take, Wake, Stalled, StalledAgain, RunStep, Lock, Park, Succeed, LapsedEnds, Fail, Expire,
      LetterStep, PressRetry, PressDismiss, Open, ClickStep, AddAgain
-----------------------------------------------------------------------------
(* One mail for a burst.                                                   *)

\* What came first stays first: no row becomes fresh again.
LEMMA FirstStays ==
    ASSUME Fits, RowsStay, NEW i \in 1 .. Len(errorQueue), First(i)
    PROVE  First(i)'
<1>1. ASSUME NEW k \in 1 .. Len(errorQueue'), k < i
      PROVE  k \in 1 .. Len(errorQueue)
  BY <1>1 DEF Fits, ErrorsFit
<1> QED BY <1>1 DEF First, RowsStay

\* Who has a letter to be told of has no fresh row of the cause before it.
LEMMA CauseIsFirst ==
    ASSUME Fits, NEW i \in 1 .. Len(errorQueue), ~AlertedRecently(i)
    PROVE  First(i)
<1>1. ASSUME NEW k \in 1 .. Len(errorQueue), k < i
      PROVE  k \in 1 .. i - 1
  BY <1>1 DEF Fits, ErrorsFit
<1> QED BY <1>1 DEF First, AlertedRecently

LEMMA FirstsStay ==
    ASSUME Fits, FirstsOnly, JobNext
    PROVE  FirstsOnly'
<1>1. ErrorsFit /\ ErrorsFit' /\ RowsStay /\ LettersFit
  BY ErrorsStay DEF Fits
<1>2. \A i \in 1 .. Len(errorQueue) : First(i) => First(i)'
  BY <1>1, FirstStays
<1>3. \A l \in letters : l.at = "tell" /\ l.row # 0 => First(l.row)'
  BY <1>2, LetterRow DEF FirstsOnly
<1>4. \A i \in 1 .. Len(errorQueue) : errorQueue[i].told = "mailed" => First(i)'
  BY <1>2 DEF FirstsOnly
<1>5. ASSUME \A l \in letters' : l.at = "tell" /\ l.row # 0 => l \in letters,
             UNCHANGED errorQueue \/ ToldStays
      PROVE  FirstsOnly'
  BY <1>3, <1>4, <1>5 DEF FirstsOnly, ToldStays
<1>6. ASSUME NEW r \in runs, NEW code \in Codes, Fail(r, code)
      PROVE  FirstsOnly'
  BY <1>5, <1>6 DEF Fail, Letter
<1>6a. ASSUME NEW j \in JobIds, StalledAgain(j)
       PROVE  FirstsOnly'
  BY <1>5, <1>6a DEF StalledAgain, Letter
<1>7. ASSUME NEW l \in letters, Find(l)
      PROVE  FirstsOnly'
  <2>1. ASSUME NEW x \in letters', x.at = "tell", x.row # 0
        PROVE  x \in letters
    BY <1>1, <1>7, <2>1 DEF Find, Moves, LettersFit, LetterFits
  <2> QED BY <1>5, <1>7, <2>1 DEF Find
<1>8. ASSUME NEW l \in letters, Write(l)
      PROVE  FirstsOnly'
  <2>1. ASSUME NEW x \in letters', x.at = "tell", x.row # 0
        PROVE  x \in letters
    BY <1>1, <1>8, <2>1 DEF Write, Moves, LettersFit, LetterFits
  <2>2. CASE UNCHANGED errorQueue
    BY <1>5, <2>1, <2>2
  <2>3. CASE l.row # 0 /\ errorQueue' = [errorQueue EXCEPT ![l.row] = Reopened(@)]
    BY <1>1, <1>5, <2>1, <2>3, LetterRow, RowCountsUp
  <2>4. CASE errorQueue' = Append(errorQueue, Row(queue[l.job].work, l.code))
    <3> DEFINE row == Row(queue[l.job].work, l.code)
    <3>1. row \in Rows /\ row.told = "no"
      BY LetterIsThere, NewRow
    <3> HIDE DEF row
    <3>2. /\ Len(errorQueue') = Len(errorQueue) + 1 /\ errorQueue'[Len(errorQueue) + 1] = row
          /\ \A k \in 1 .. Len(errorQueue) : errorQueue'[k] = errorQueue[k]
      BY <1>1, <2>4, <3>1, RowIsMade DEF row
    <3>3. \A i \in 1 .. Len(errorQueue') : errorQueue'[i].told = "mailed" => First(i)'
      <4>1. ASSUME NEW i \in 1 .. Len(errorQueue'), errorQueue'[i].told = "mailed"
            PROVE  i \in 1 .. Len(errorQueue) /\ errorQueue[i].told = "mailed"
        BY <1>1, <3>1, <3>2, <4>1 DEF ErrorsFit
      <4> QED BY <1>4, <4>1
    <3> QED BY <1>3, <2>1, <3>3 DEF FirstsOnly
  <2> QED BY <1>8, <2>2, <2>3, <2>4 DEF Write
<1>9. ASSUME NEW l \in letters, Cause(l)
      PROVE  FirstsOnly'
  <2>1. l.row \in 1 .. Len(errorQueue)
    BY <1>1, <1>9, LetterRow DEF Cause, LettersFit, LetterFits
  <2>2. CASE ~AlertedRecently(l.row) /\ Moves(l, [l EXCEPT !.at = "tell"]) /\ UNCHANGED errorQueue
    <3>1. First(l.row)'
      BY <1>2, <2>1, <2>2, CauseIsFirst
    <3>2. ASSUME NEW x \in letters', x.at = "tell", x.row # 0
          PROVE  First(x.row)'
      <4>1. x \in letters \/ x = [l EXCEPT !.at = "tell"]
        BY <2>2 DEF Moves
      <4>2. x \in letters \/ x.row = l.row
        BY <1>1, <4>1 DEF LettersFit, LetterFits
      <4> QED BY <1>3, <3>1, <3>2, <4>2
    <3> QED BY <1>4, <2>2, <3>2 DEF FirstsOnly
  <2>3. CASE /\ errorQueue' = [errorQueue EXCEPT ![l.row].told = "spared"]
             /\ letters' = letters \ {l}
    <3>1. /\ Len(errorQueue') = Len(errorQueue)
          /\ \A k \in 1 .. Len(errorQueue) :
               errorQueue'[k].told = IF k = l.row THEN "spared" ELSE errorQueue[k].told
      BY <1>1, <2>1, <2>3, RowIsTold
    <3>2. \A i \in 1 .. Len(errorQueue') : errorQueue'[i].told = "mailed" => First(i)'
      BY <1>4, <3>1
    <3> QED BY <1>3, <2>3, <3>2 DEF FirstsOnly
  <2> QED BY <1>9, <2>2, <2>3 DEF Cause
<1>10. ASSUME NEW l \in letters, Tell(l)
       PROVE  FirstsOnly'
  <2>1. letters' = letters \ {l} /\ l.at = "tell"
    BY <1>10 DEF Tell
  <2>2. CASE l.row = 0
    BY <1>5, <1>10, <2>1, <2>2 DEF Tell
  <2>3. CASE l.row # 0
    <3>1. PICK how \in {"mailed", "logged"} : errorQueue' = [errorQueue EXCEPT ![l.row].told = how]
      BY <1>10, <2>3 DEF Tell
    <3>2. l.row \in 1 .. Len(errorQueue)
      BY <2>3, LetterRow
    <3>3. /\ Len(errorQueue') = Len(errorQueue)
          /\ \A k \in 1 .. Len(errorQueue) :
               errorQueue'[k].told = IF k = l.row THEN how ELSE errorQueue[k].told
      BY <1>1, <3>1, <3>2, RowIsTold
    <3>4. First(l.row)'
      BY <1>3, <2>1, <2>3
    <3>5. \A i \in 1 .. Len(errorQueue') : errorQueue'[i].told = "mailed" => First(i)'
      BY <1>4, <3>3, <3>4
    <3> QED BY <1>3, <2>1, <3>5 DEF FirstsOnly
  <2> QED BY <2>2, <2>3
<1>11. ASSUME NEW c \in Clicks, Resolve(c)
       PROVE  FirstsOnly'
  <2>1. clicks[c].row \in 1 .. Len(errorQueue) /\ UNCHANGED letters
    BY <1>11, ClickRow DEF Resolve
  <2> QED BY <1>1, <1>5, <1>11, <2>1, RowIsClosed DEF Resolve
<1>12. ASSUME TimePasses
       PROVE  FirstsOnly'
  BY <1>1, <1>5, <1>12, RowsAge DEF TimePasses
<1>13. ASSUME WorkerCrash \/ UNCHANGED <<letters, errorQueue>>
       PROVE  FirstsOnly'
  BY <1>5, <1>13 DEF WorkerCrash
<1> QED
  BY <1>6, <1>6a, <1>7, <1>8, <1>9, <1>10, <1>11, <1>12, <1>13
  DEF JobNext, Handed, Take, Wake, Stalled, RunStep, Lock, Park, Succeed, LapsedEnds, Expire,
      LetterStep, PressRetry, PressDismiss, Open, ClickStep, AddAgain
-----------------------------------------------------------------------------
(* The theorems.                                                           *)

LEMMA QueueInvInit == JobInit => QueueInv
<1> SUFFICES ASSUME JobInit PROVE QueueInv
  OBVIOUS
<1>1. /\ runs = {} /\ letters = {} /\ errorQueue = <<>> /\ jobHappened = {}
      /\ memberLock = [m \in Members |-> NoJob] /\ clicks = [c \in Clicks |-> Unused]
  BY DEF JobInit
<1> DEFINE ws == jobLeft.work
           n == Cardinality(ws)
           numbered == Numbered(ws)
<1>2. /\ ws \subseteq Items /\ IsFiniteSet(ws)
      /\ queue = [j \in JobIds |-> IF j <= n THEN Job(numbered[j], Attempts, 0) ELSE Unused]
  BY JobAssumption DEF JobInit, JobScenario, Items
<1>3. n \in Nat /\ numbered \in [1 .. n -> ws]
  BY <1>2, FS_CardinalityType, NumberedGives
<1> HIDE DEF n, numbered
<1>4. \A j \in JobIds : j <= n => Job(numbered[j], Attempts, 0) \in Jobs
  <2>1. Attempts \in Nat \ {0}
    BY JobAssumption
  <2>2. \A j \in JobIds : j <= n => numbered[j] \in Items
    BY <1>2, <1>3, JobIdsAreNumbers
  <2> QED BY <2>1, <2>2 DEF Job, Jobs, Pending, MaxStalledCount
<1>5. \A j \in JobIds : Exists(j) <=> j <= n
  BY <1>2 DEF Exists, Job, Unused
<1>6. \A j \in JobIds : Exists(j) => /\ queue[j].made = 0 /\ queue[j].max = Attempts
                                     /\ queue[j].at = "waiting" /\ queue[j].stalls = 0
  BY <1>2, <1>5 DEF Job
<1>7. QueueFits
  <2>1. queue \in [JobIds -> {Unused} \cup Jobs]
    BY <1>2, <1>4
  <2>2. Attempts \in Nat \ {0}
    BY JobAssumption
  <2>3. \A j \in JobIds : Exists(j) => queue[j].made < queue[j].max /\ queue[j].made <= queue[j].max
                                        /\ queue[j].stalls <= MaxStalledCount
    BY <1>6, <2>2 DEF MaxStalledCount
  <2>4. \E k \in Nat : \A j \in JobIds : Exists(j) <=> j <= k
    BY <1>3, <1>5
  <2> QED BY <2>1, <2>3, <2>4 DEF QueueFits
<1>8. RunsFit /\ LockFits /\ LettersFit /\ ClicksFit
  BY <1>1, FS_EmptySet DEF RunsFit, LockFits, LettersFit, ClicksFit
<1>9. ErrorsFit /\ Len(errorQueue) = 0
  BY <1>1 DEF ErrorsFit
<1>10. \A j \in JobIds : queue[j].at # "failed"
  BY <1>2 DEF Job, Unused
<1>11. RunsApart /\ InSight /\ Telling /\ FirstsOnly
  BY <1>1, <1>9, <1>10 DEF RunsApart, InSight, HasFailed, Telling, FirstsOnly
<1> QED BY <1>7, <1>8, <1>9, <1>11 DEF QueueInv, Fits

LEMMA QueueInvStep == QueueInv /\ [JobNext]_jobVars => QueueInv'
<1> SUFFICES ASSUME QueueInv, [JobNext]_jobVars PROVE QueueInv'
  OBVIOUS
<1>1. CASE JobNext
  BY <1>1, FitsStays, RunsStayApart, InSightStays, TellingStays, FirstsStay DEF QueueInv
<1>2. CASE UNCHANGED jobVars
  BY <1>2
  DEF jobVars, QueueInv, Fits, QueueFits, RunsFit, LockFits, ErrorsFit, LettersFit, LetterFits,
      ClicksFit, ClickFits, RunsApart, Current, Who, InSight, HasFailed, Seen, Telling, HasLetter, HasFirst,
      FirstsOnly, First, Exists
<1> QED BY <1>1, <1>2

LEMMA QueueInvGives == QueueInv => QueueHolds
<1> SUFFICES ASSUME QueueInv PROVE QueueHolds
  OBVIOUS
<1>1. DOMAIN errorQueue = 1 .. Len(errorQueue) /\ Len(errorQueue) \in Nat
  BY DEF QueueInv, Fits, ErrorsFit
<1>2. JobTypeOK
  <2>1. ASSUME NEW j \in JobIds, Exists(j)
        PROVE  /\ queue[j].at \in {"waiting", "delayed", "active", "done", "failed"}
               /\ queue[j].made \in 0 .. queue[j].max
               /\ queue[j].stalls \in 0 .. MaxStalledCount + 1
    BY <2>1, JobIsThere DEF QueueInv, Fits, QueueFits, Jobs, Pending
  <2>2. \A r \in runs : Exists(r.job) /\ r.no \in Nat \ {0}
    BY DEF QueueInv, Fits, RunsFit
  <2>3. \A m \in Members : memberLock[m] \in JobIds \cup {NoJob}
    BY DEF QueueInv, Fits, LockFits
  <2>4. \A l \in letters : queue[l.job].at = "failed" /\ l.row \in 0 .. Len(errorQueue)
    BY <1>1 DEF QueueInv, Fits, LettersFit, LetterFits
  <2>5. \A i \in DOMAIN errorQueue : errorQueue[i].count >= 1
    BY <1>1, RowIsThere DEF QueueInv, Fits, Rows
  <2> QED BY <2>1, <2>2, <2>3, <2>4, <2>5 DEF JobTypeOK
<1>3. OneRunPerMember
  BY <1>2 DEF OneRunPerMember, QueueInv, RunsApart
<1>4. FailuresShow
  <2>1. SUFFICES ASSUME AllSettled, jobHappened \cap {"db", "crash", "crossed", "dismissed"} = {},
                        NEW j \in JobIds, HasFailed(j)
                 PROVE  Listed(j) \/ SentRound(j)
    BY <1>1 DEF FailuresShow, Listed, SentRound, SamePlan, Who
  <2>2. ~Written(j)
    BY <2>1 DEF AllSettled, Written
  <2> QED BY <2>1, <2>2, SeenParts DEF QueueInv, InSight
<1>5. SomeoneWasTold
  <2>1. SUFFICES ASSUME "crash" \notin jobHappened, NEW i \in DOMAIN errorQueue,
                        errorQueue[i].told = "spared"
                 PROVE  \E k \in 1 .. i - 1 :
                          /\ errorQueue[k].code = errorQueue[i].code
                          /\ \/ errorQueue[k].told \in {"mailed", "logged"}
                             \/ \E l \in letters : l.row = k
    BY DEF SomeoneWasTold
  <2>2. PICK k \in 1 .. Len(errorQueue) :
          k < i /\ errorQueue[k].code = errorQueue[i].code /\ errorQueue[k].told # "spared"
    BY <1>1, <2>1 DEF QueueInv, Telling, HasFirst
  <2>3. k \in 1 .. i - 1
    BY <1>1, <2>2
  <2>4. errorQueue[k].told \in {"no", "mailed", "logged"}
    BY <2>2, RowIsThere DEF QueueInv, Fits, Rows
  <2>5. errorQueue[k].told = "no" => \E l \in letters : l.row = k
    BY <2>1 DEF QueueInv, Telling, HasLetter
  <2> QED BY <2>2, <2>3, <2>4, <2>5
<1>6. OneMailPerBurst
  BY <1>1 DEF OneMailPerBurst, QueueInv, FirstsOnly, First
<1> QED BY <1>3, <1>4, <1>5, <1>6 DEF QueueHolds, FailuresAreTold

\* The lock keeps two jobs of one person apart unless its key runs out under one of them, a job
\* that failed for good, and was not failed by BullMQ for stalling twice, is on the error list or
\* sent round again, no job is given out more often than BullMQ allows, and of a burst of failures
\* somebody is told, once: for any number of members, jobs, attempts, clicks and failures.
THEOREM JobsAreKept == JobSpec => []QueueHolds
<1>1. JobSpec => []QueueInv
  BY QueueInvInit, QueueInvStep, PTL DEF JobSpec
<1> QED BY <1>1, QueueInvGives, PTL
-----------------------------------------------------------------------------
(* HealthCheck: a gym whose key is refused hears of it, and not too often. *)
(* A location waits from its last mail to the next run that finds the      *)
(* shared stamp a day old: the stamp is at most a run younger than the     *)
(* mail, and that run visits every location before it ends.                *)

CheckRec ==
  [at : Places, loc : Locs, todo : SUBSET Locs, lag : 0 .. Lag, key : Keys \cup {NoKey}, failed : Ages,
   alerted : Ages, listed : SUBSET Doors, dead : SUBSET Doors, back : SUBSET Doors, doors : SUBSET Doors,
   plans : SUBSET WixPlans]

HealthShape ==
  /\ HealthTypeOK /\ check \in CheckRec
  /\ At("idle") => check = Idle(check.loc)
  /\ ~At("idle") => due = Period - check.lag
  /\ check.at \notin {"idle", "pick"} => check.loc \notin check.todo

(* The run has yet to come to the location, or has it in hand.             *)
InHand(l)   == l \in check.todo \/ (l = check.loc /\ check.at \in {"try", "mail"})
Visiting(l) == InHand(l) \/ (l = check.loc /\ At("stamp"))

(* No stamp, a stamp of the last day, and an older one.                    *)
NeverStamped ==
  record.alerted = Never => \E l \in Locs :
    \/ quiet[l] = 0 /\ (check.alerted = Never \/ ~Visiting(l))
    \/ l = check.loc /\ check.at \in {"mail", "stamp"} /\ check.alerted = Never /\ quiet[l] =< 1 + check.lag
StampedToday ==
  record.alerted \in 0 .. Day - 1 => \E l \in Locs : quiet[l] =< record.alerted + Lag + 1
StampedBefore ==
  record.alerted = Day => \E l \in Locs :
    \/ quiet[l] =< Day + Lag + (Period - due)
    \/ check.alerted = Day /\ InHand(l) /\ quiet[l] =< Day + Lag + Period + check.lag
Waiting1 ==
  /\ NeverStamped /\ StampedToday /\ StampedBefore
  /\ At("stamp") => quiet[check.loc] =< 1 + check.lag

(* Who was mailed within a day stamped the connector, and the run's read   *)
(* of it knows, unless a success came between.                             *)
Apart1 ==
  \A l \in Locs : apart[l].stamped /\ apart[l].age < Day =>
    /\ record.alerted \in 0 .. apart[l].age \/ record.failed =< apart[l].age
    /\ InHand(l) => check.alerted \in 0 .. apart[l].age \/ check.failed =< apart[l].age

(* What was mailed is marked or flagged; what is about to be, was not.     *)
Told1 ==
  /\ ~bare
  /\ \A d \in Doors : d \in told => mark[d] = "not_found"
  /\ \A p \in WixPlans : p \in told => p \in flagged
  /\ check.at \in {"write", "mail_doors"} => check.doors \cap told = {}
  /\ At("mail_plans") => check.plans \cap told = {} /\ check.plans \subseteq flagged

HealthInv == HealthShape /\ Waiting1 /\ Apart1 /\ Told1

LEMMA LargerOfTwo ==
  ASSUME NEW a \in Int, NEW b \in Int
  PROVE  Max({a, b}) = IF a >= b THEN a ELSE b
<1> DEFINE m == IF a >= b THEN a ELSE b
<1>1. m \in {a, b} /\ \A y \in {a, b} : m >= y
  OBVIOUS
<1>2. \A x \in {a, b} : (\A y \in {a, b} : x >= y) => x = m
  OBVIOUS
<1> QED BY <1>1, <1>2 DEF Max

LEMMA SmallerOfTwo ==
  ASSUME NEW a \in Int, NEW b \in Int
  PROVE  Min({a, b}) = IF a =< b THEN a ELSE b
<1> DEFINE m == IF a =< b THEN a ELSE b
<1>1. m \in {a, b} /\ \A y \in {a, b} : m =< y
  OBVIOUS
<1>2. \A x \in {a, b} : (\A y \in {a, b} : x =< y) => x = m
  OBVIOUS
<1> QED BY <1>1, <1>2 DEF Min

LEMMA OlderAge ==
  ASSUME NEW a \in Ages
  PROVE  /\ Older(a) \in Ages
         /\ a = Never <=> Older(a) = Never
         /\ a # Never => Older(a) = IF a = Day THEN Day ELSE a + 1
BY SmallerOfTwo, HealthAssumption DEF Older, Ages, Never

LEMMA IdleRec == \A l \in Locs : /\ Idle(l) \in CheckRec /\ Idle(l).at = "idle" /\ Idle(l).loc = l
                                 /\ Idle(l).todo = {} /\ Idle(l).lag = 0 /\ Idle(l).alerted = Never
BY HealthAssumption DEF Idle, CheckRec, Places, Ages, Never

LEMMA HealthBegin == HealthInit => HealthInv
<1> SUFFICES ASSUME HealthInit PROVE HealthInv
  OBVIOUS
<1>1. PICK l0 \in Locs : check = Idle(l0)
  BY DEF HealthInit
<1>2. check \in CheckRec /\ check.at = "idle" /\ check.loc = l0 /\ check.todo = {} /\ check.lag = 0 /\ check.alerted = Never
  BY <1>1, IdleRec
<1>3. HealthShape
  <2>1. HealthTypeOK
    <3>1. record \in [error : {"none", "network", "refused"}, failed : Ages, alerted : Ages]
      BY HealthAssumption DEF HealthInit, Ages, Never
    <3>2. /\ key \in Keys \cup {NoKey} /\ accepted \subseteq Keys /\ groups \subseteq Doors
          /\ mark \in [Doors -> {"ok", "not_found", "legacy"}] /\ archived \subseteq WixPlans /\ flagged \subseteq WixPlans
      BY DEF HealthInit
    <3>3. /\ due \in 0 .. Period /\ quiet \in [Locs -> 0 .. Long] /\ apart \in [Locs -> [age : 0 .. Day, stamped : BOOLEAN]]
      BY HealthAssumption DEF HealthInit, Long
    <3>4. /\ told \subseteq Doors \cup WixPlans /\ story \in Stories /\ edits \in 0 .. MaxEdits /\ mishaps \in 0 .. MaxMishaps
      BY HealthAssumption DEF HealthInit
    <3>5. bare \in BOOLEAN
      BY Zenon DEF HealthInit
    <3> QED BY <1>2, <3>1, <3>2, <3>3, <3>4, <3>5 DEF HealthTypeOK, CheckRec
  <2> QED BY <1>1, <1>2, <2>1 DEF HealthShape, At
<1>4. Waiting1
  <2>1. quiet[l0] = 0 /\ record.alerted = Never
    BY DEF HealthInit
  <2> QED BY <1>2, <2>1, HealthAssumption DEF Waiting1, NeverStamped, StampedToday, StampedBefore, At, Never
<1>5. Apart1 /\ Told1
  BY <1>2, HealthAssumption DEF HealthInit, Apart1, Told1, At
<1> QED BY <1>3, <1>4, <1>5 DEF HealthInv

(* Types.                                                                  *)
LEMMA ShapeKept ==
  ASSUME HealthShape, HealthNext
  PROVE  HealthShape'
<1>0. HealthTypeOK /\ check \in CheckRec
  BY DEF HealthShape
<1> DEFINE c == check
<1> SUFFICES /\ key' \in Keys \cup {NoKey} /\ accepted' \subseteq Keys
             /\ record' \in [error : {"none", "network", "refused"}, failed : Ages, alerted : Ages]
             /\ groups' \subseteq Doors /\ mark' \in [Doors -> {"ok", "not_found", "legacy"}]
             /\ archived' \subseteq WixPlans /\ flagged' \subseteq WixPlans
             /\ due' \in 0 .. Period
             /\ quiet' \in [Locs -> 0 .. Long]
             /\ apart' \in [Locs -> [age : 0 .. Day, stamped : BOOLEAN]]
             /\ told' \subseteq Doors \cup WixPlans /\ bare' \in BOOLEAN
             /\ story' \in Stories /\ edits' \in 0 .. MaxEdits /\ mishaps' \in 0 .. MaxMishaps
             /\ check' \in CheckRec
             /\ check'.at = "idle" => check' = Idle(check'.loc)
             /\ check'.at # "idle" => due' = Period - check'.lag
             /\ check'.at \notin {"idle", "pick"} => check'.loc \notin check'.todo
  BY DEF HealthShape, HealthTypeOK, CheckRec, At
<1>1. /\ key \in Keys \cup {NoKey} /\ accepted \subseteq Keys
      /\ record \in [error : {"none", "network", "refused"}, failed : Ages, alerted : Ages]
      /\ groups \subseteq Doors /\ mark \in [Doors -> {"ok", "not_found", "legacy"}]
      /\ archived \subseteq WixPlans /\ flagged \subseteq WixPlans
      /\ due \in 0 .. Period
      /\ quiet \in [Locs -> 0 .. Long]
      /\ apart \in [Locs -> [age : 0 .. Day, stamped : BOOLEAN]]
      /\ told \subseteq Doors \cup WixPlans /\ bare \in BOOLEAN
      /\ story \in Stories /\ edits \in 0 .. MaxEdits /\ mishaps \in 0 .. MaxMishaps
  BY <1>0 DEF HealthTypeOK
<1>2. /\ c.at = "idle" => c = Idle(c.loc)
      /\ c.at # "idle" => due = Period - c.lag
      /\ c.at \notin {"idle", "pick"} => c.loc \notin c.todo
  BY DEF HealthShape, At
<1>3. /\ Never \in Ages /\ 0 \in Ages /\ 1 \in 0 .. Long /\ 0 \in 0 .. Long
  BY HealthAssumption DEF Ages, Never, Long
<1>4. Mishap => quiet' \in [Locs -> 0 .. Long] /\ mishaps' \in 0 .. MaxMishaps
  BY <1>1, <1>3, HealthAssumption DEF Mishap
<1>5. \A p \in Places : [check EXCEPT !.at = p] \in CheckRec
  BY <1>0 DEF CheckRec
<1>6. CASE StartCheck
  <2>1. check' = [Idle(check.loc) EXCEPT !.at = "pick", !.todo = Locs, !.key = key, !.failed = record.failed, !.alerted = record.alerted]
        /\ due' = Period
    BY <1>6 DEF StartCheck
  <2>2. check' \in CheckRec /\ check'.at = "pick" /\ check'.lag = 0
    <3>1. check.loc \in Locs /\ record.failed \in Ages /\ record.alerted \in Ages
      BY <1>0, <1>1 DEF CheckRec
    <3> DEFINE i == Idle(check.loc)
    <3>2. i \in CheckRec /\ i.lag = 0 /\ check' = [i EXCEPT !.at = "pick", !.todo = Locs, !.key = key, !.failed = record.failed, !.alerted = record.alerted]
      BY <3>1, <2>1, IdleRec
    <3> HIDE DEF i
    <3> QED BY <3>1, <3>2, <1>1 DEF CheckRec, Places
  <2> QED BY <2>1, <2>2, <1>1, <1>6, HealthAssumption DEF StartCheck, keyVars, doorVars, planVars, mailVars
<1>7. CASE PickLocation
  <2>1. CASE \E l \in check.todo : check' = [check EXCEPT !.at = "try", !.loc = l, !.todo = @ \ {l}]
    <3>1. PICK l \in check.todo : check' = [check EXCEPT !.at = "try", !.loc = l, !.todo = @ \ {l}]
      BY <2>1
    <3>2. /\ check' \in CheckRec /\ check'.at = "try" /\ check'.loc = l /\ check'.todo = check.todo \ {l} /\ check'.lag = check.lag
      BY <3>1, <1>0 DEF CheckRec, Places
    <3> QED BY <3>2, <1>7, <1>1, <1>2 DEF PickLocation, keyVars, doorVars, planVars, mailVars, At
  <2>2. CASE check' = Idle(check.loc)
    BY <2>2, <1>7, <1>0, <1>1, <1>2, IdleRec DEF PickLocation, keyVars, doorVars, planVars, mailVars, CheckRec
  <2> QED BY <2>1, <2>2, <1>7 DEF PickLocation
<1>8. CASE TryKey
  <2>1. Max({quiet[check.loc], 1}) \in 0 .. Long
    BY <1>0, <1>1, <1>3, LargerOfTwo, HealthAssumption DEF CheckRec, Long
  <2>2. \A e \in {"none", "network", "refused"} :
           Recorded(e) \in [error : {"none", "network", "refused"}, failed : Ages, alerted : Ages]
    BY <1>1, <1>3 DEF Recorded
  <2>3. quiet' \in [Locs -> 0 .. Long] /\ mishaps' \in 0 .. MaxMishaps
    BY <2>1, <1>8, <1>1, <1>3, <1>4, <1>0 DEF TryKey, CheckRec
  <2>4. record' \in [error : {"none", "network", "refused"}, failed : Ages, alerted : Ages]
    BY <2>2, <1>1, <1>8 DEF TryKey
  <2>5. PICK p \in {"mail", "list", "plans"} : check' = [check EXCEPT !.at = p]
    BY <1>8 DEF TryKey, MovesTo
  <2> QED BY <2>3, <2>4, <2>5, <1>8, <1>0, <1>1, <1>2 DEF TryKey, keyVars, doorVars, planVars, CheckRec, At, Places
<1>9. CASE SpoiltKey
  BY <1>9, <1>0, <1>1, <1>2, <1>4 DEF SpoiltKey, MovesTo, GoesOn, keyVars, doorVars, planVars, CheckRec, At, Places
<1>10. CASE MailKeyFailure
  <2>1. PICK p \in {"stamp", "pick", "plans"} : check' = [check EXCEPT !.at = p]
    BY <1>10 DEF MailKeyFailure, MovesTo, AfterMail
  <2>2. /\ quiet' \in [Locs -> 0 .. Long] /\ mishaps' \in 0 .. MaxMishaps
        /\ apart' \in [Locs -> [age : 0 .. Day, stamped : BOOLEAN]] /\ told' = told
    <3>1. quiet' \in [Locs -> 0 .. Long] /\ mishaps' \in 0 .. MaxMishaps
      BY <1>10, <1>1, <1>3, <1>4 DEF MailKeyFailure, mailVars
    <3>2. apart' = apart \/ apart' = [apart EXCEPT ![check.loc] = [age |-> 0, stamped |-> FALSE]]
      BY <1>10 DEF MailKeyFailure, mailVars
    <3>3. [age |-> 0, stamped |-> FALSE] \in [age : 0 .. Day, stamped : BOOLEAN]
      BY HealthAssumption
    <3>4. told' = told
      BY <1>10 DEF MailKeyFailure, mailVars
    <3>5. apart' \in [Locs -> [age : 0 .. Day, stamped : BOOLEAN]]
      <4> DEFINE T == [age : 0 .. Day, stamped : BOOLEAN]
                 z == [age |-> 0, stamped |-> FALSE]
      <4>1. apart \in [Locs -> T] /\ z \in T /\ (apart' = apart \/ apart' = [apart EXCEPT ![check.loc] = z])
        BY <3>2, <3>3, <1>1
      <4> HIDE DEF T, z
      <4>2. apart' \in [Locs -> T]
        BY <4>1
      <4> QED BY <4>2 DEF T
    <3> QED BY <3>1, <3>4, <3>5
  <2>3. bare' \in BOOLEAN
    BY <1>10, <1>1 DEF MailKeyFailure, mailVars
  <2> QED BY <2>1, <2>2, <2>3, <1>10, <1>0, <1>1, <1>2 DEF MailKeyFailure, keyVars, doorVars, planVars, CheckRec, At, Places
<1>11. CASE StampAlert
  <2>1. PICK p \in {"pick", "plans"} : check' = [check EXCEPT !.at = p]
    BY <1>11 DEF StampAlert, MovesTo, AfterMail
  <2>2. /\ quiet' \in [Locs -> 0 .. Long] /\ mishaps' \in 0 .. MaxMishaps
        /\ apart' \in [Locs -> [age : 0 .. Day, stamped : BOOLEAN]]
        /\ record' \in [error : {"none", "network", "refused"}, failed : Ages, alerted : Ages]
    <3>1. quiet' \in [Locs -> 0 .. Long] /\ mishaps' \in 0 .. MaxMishaps
      BY <1>11, <1>1, <1>4 DEF StampAlert
    <3>2. apart' = apart \/ apart' = [apart EXCEPT ![check.loc].stamped = TRUE]
      BY <1>11 DEF StampAlert
    <3>3. apart' \in [Locs -> [age : 0 .. Day, stamped : BOOLEAN]]
      <4> DEFINE T == [age : 0 .. Day, stamped : BOOLEAN]
                 z == [apart[check.loc] EXCEPT !.stamped = TRUE]
      <4>1. apart \in [Locs -> T] /\ check.loc \in Locs
        BY <1>0, <1>1 DEF CheckRec
      <4>2. z \in T
        BY <4>1
      <4>3. apart' = apart \/ apart' = [apart EXCEPT ![check.loc] = z]
        BY <3>2
      <4> HIDE DEF T, z
      <4>4. apart' \in [Locs -> T]
        BY <4>1, <4>2, <4>3
      <4> QED BY <4>4 DEF T
    <3>4. record' \in [error : {"none", "network", "refused"}, failed : Ages, alerted : Ages]
      BY <1>11, <1>1, <1>3 DEF StampAlert, StampedNow
    <3> QED BY <3>1, <3>3, <3>4
  <2> QED BY <2>1, <2>2, <1>11, <1>0, <1>1, <1>2 DEF StampAlert, keyVars, doorVars, planVars, CheckRec, At, Places
<1>12. CASE ListGroups
  <2>1. quiet' \in [Locs -> 0 .. Long] /\ mishaps' \in 0 .. MaxMishaps
    BY <1>12, <1>1, <1>4 DEF ListGroups
  <2>2. check' = [check EXCEPT !.at = "plans"] \/ check' = [check EXCEPT !.at = "compare", !.listed = groups]
    BY <1>12 DEF ListGroups, MovesTo
  <2>3. /\ check' \in CheckRec /\ check'.at \in {"plans", "compare"} /\ check'.lag = check.lag
        /\ check'.loc = check.loc /\ check'.todo = check.todo
    BY <2>2, <1>0, <1>1 DEF CheckRec, Places
  <2> QED BY <2>1, <2>3, <1>12, <1>1, <1>2 DEF ListGroups, keyVars, doorVars, planVars, At
<1>13. CASE CompareDoors
  <2>1. PICK p \in {"plans", "write"}, dead \in SUBSET Doors, back \in SUBSET Doors :
          check' = [check EXCEPT !.at = p, !.listed = {}, !.dead = dead, !.back = back, !.doors = dead]
    <3>1. {d \in Doors : Dead(d)} \in SUBSET Doors /\ {d \in Doors : Back(d)} \in SUBSET Doors
      OBVIOUS
    <3> QED BY <3>1, <1>13 DEF CompareDoors
  <2> QED BY <2>1, <1>13, <1>0, <1>1, <1>2 DEF CompareDoors, keyVars, doorVars, planVars, mailVars, CheckRec, At, Places
<1>14. CASE WriteMark
  <2>1. /\ quiet' \in [Locs -> 0 .. Long] /\ mishaps' \in 0 .. MaxMishaps
        /\ UNCHANGED <<keyVars, record, groups, planVars, due, apart, bare, story, edits>>
    BY <1>14, <1>1, <1>4 DEF WriteMark
  <2>2. mark' \in [Doors -> {"ok", "not_found", "legacy"}] /\ told' \subseteq Doors \cup WixPlans
    BY <1>14, <1>1 DEF WriteMark, SetsMark
  <2>3. \/ \E p \in {"write", "plans", "mail_doors"}, dead \in SUBSET Doors, back \in SUBSET Doors :
             check' = [check EXCEPT !.at = p, !.dead = dead, !.back = back]
        \/ check' = Idle(check.loc)
    <3>1. ASSUME NEW d \in check.dead, check' = [check EXCEPT !.dead = @ \ {d}]
          PROVE  check' = [check EXCEPT !.at = "write", !.dead = check.dead \ {d}, !.back = check.back]
      BY <3>1, <1>14, <1>0 DEF WriteMark, CheckRec, At
    <3>2. ASSUME NEW d \in check.back, check' = [check EXCEPT !.back = @ \ {d}]
          PROVE  check' = [check EXCEPT !.at = "write", !.dead = check.dead, !.back = check.back \ {d}]
      BY <3>2, <1>14, <1>0 DEF WriteMark, CheckRec, At
    <3>3. ASSUME NEW p \in {"plans", "mail_doors"}, check' = [check EXCEPT !.at = p]
          PROVE  check' = [check EXCEPT !.at = p, !.dead = check.dead, !.back = check.back]
      BY <3>3, <1>0 DEF CheckRec
    <3>4. /\ check.dead \in SUBSET Doors /\ check.back \in SUBSET Doors
          /\ \A d : check.dead \ {d} \in SUBSET Doors /\ check.back \ {d} \in SUBSET Doors
      BY <1>0 DEF CheckRec
    <3>5. CASE \E d \in check.dead : check' = [check EXCEPT !.dead = @ \ {d}]
      BY <3>1, <3>4, <3>5
    <3>6. CASE \E d \in check.back : check' = [check EXCEPT !.back = @ \ {d}]
      BY <3>2, <3>4, <3>6
    <3>7. CASE \E p \in {"plans", "mail_doors"} : check' = [check EXCEPT !.at = p]
      BY <3>3, <3>4, <3>7
    <3> QED BY <1>14, <3>5, <3>6, <3>7 DEF WriteMark, MovesTo
  <2>4. CASE check' = Idle(check.loc)
    BY <2>1, <2>2, <2>4, <1>0, <1>1, <1>2, IdleRec DEF keyVars, planVars, CheckRec
  <2>5. CASE \E p \in {"write", "plans", "mail_doors"}, dead \in SUBSET Doors, back \in SUBSET Doors :
             check' = [check EXCEPT !.at = p, !.dead = dead, !.back = back]
    <3>1. /\ check' \in CheckRec /\ check'.at \in {"write", "plans", "mail_doors"} /\ check'.lag = check.lag
          /\ check'.loc = check.loc /\ check'.todo = check.todo
      BY <2>5, <1>0 DEF CheckRec, Places
    <3> QED BY <2>1, <2>2, <3>1, <1>1, <1>2, <1>14 DEF keyVars, planVars, WriteMark, At
  <2> QED BY <2>3, <2>4, <2>5
<1>15. CASE MailDoors \/ MailPlans
  <2>1. check' = [check EXCEPT !.at = "plans", !.doors = {}] \/ check' = [check EXCEPT !.at = "pick", !.plans = {}]
    BY <1>15 DEF MailDoors, MailPlans
  <2>2. /\ quiet' \in [Locs -> 0 .. Long] /\ mishaps' \in 0 .. MaxMishaps /\ told' \subseteq Doors \cup WixPlans
    <3>1. ASSUME NEW what \in SUBSET (Doors \cup WixPlans), MailsOnce(what)
          PROVE  quiet' \in [Locs -> 0 .. Long] /\ mishaps' \in 0 .. MaxMishaps /\ told' \subseteq Doors \cup WixPlans
      BY <3>1, <1>1, <1>4 DEF MailsOnce
    <3>2. check.doors \in SUBSET (Doors \cup WixPlans) /\ check.plans \in SUBSET (Doors \cup WixPlans)
      BY <1>0 DEF CheckRec
    <3> QED BY <3>1, <3>2, <1>15 DEF MailDoors, MailPlans
  <2>3. bare' \in BOOLEAN
    BY <1>15, <1>1 DEF MailDoors, MailPlans, MailsOnce
  <2>4. /\ check' \in CheckRec /\ check'.at \in {"plans", "pick"} /\ check'.lag = check.lag
        /\ check'.loc = check.loc /\ check'.todo = check.todo
    BY <2>1, <1>0 DEF CheckRec, Places
  <2>5. check.at \in {"mail_doors", "mail_plans"} /\ UNCHANGED <<keyVars, record, doorVars, planVars, due, apart, story, edits>>
    BY <1>15 DEF MailDoors, MailPlans, At
  <2> QED BY <2>2, <2>3, <2>4, <2>5, <1>1, <1>2 DEF keyVars, doorVars, planVars
<1>16. CASE ComparePlans
  <2>1. PICK p \in {"pick", "mail_plans"}, plans \in SUBSET WixPlans : check' = [check EXCEPT !.plans = plans, !.at = p]
    <3>1. CASE check' = [check EXCEPT !.plans = archived \ flagged, !.at = IF archived \subseteq flagged THEN "pick" ELSE "mail_plans"]
      BY <3>1, <1>1
    <3>2. CASE GoesOn
      <4>1. check.plans \in SUBSET WixPlans /\ check' = [check EXCEPT !.plans = check.plans, !.at = "pick"]
        BY <3>2, <1>0 DEF GoesOn, MovesTo, CheckRec
      <4> QED BY <4>1
    <3> QED BY <3>1, <3>2, <1>16 DEF ComparePlans
  <2>2. /\ quiet' \in [Locs -> 0 .. Long] /\ mishaps' \in 0 .. MaxMishaps /\ flagged' \subseteq WixPlans
        /\ told' \subseteq Doors \cup WixPlans
    BY <1>16, <1>1, <1>4 DEF ComparePlans
  <2> QED BY <2>1, <2>2, <1>16, <1>0, <1>1, <1>2 DEF ComparePlans, keyVars, doorVars, CheckRec, At, Places
<1>17. CASE Tick
  <2>1. record' \in [error : {"none", "network", "refused"}, failed : Ages, alerted : Ages]
    BY <1>17, <1>1, OlderAge DEF Tick
  <2>2. quiet' \in [Locs -> 0 .. Long]
    <3>1. \A l \in Locs : quiet[l] \in 0 .. Long /\ Long \in Nat
      BY <1>1, HealthAssumption DEF Long
    <3>2. \A l \in Locs : Min({quiet[l] + 1, Long}) \in 0 .. Long
      BY <3>1, SmallerOfTwo
    <3> QED BY <3>1, <3>2, <1>3, <1>17 DEF Tick
  <2>3. apart' \in [Locs -> [age : 0 .. Day, stamped : BOOLEAN]]
    <3>1. \A l \in Locs : Min({apart[l].age + 1, Day}) \in 0 .. Day
      BY <1>1, SmallerOfTwo, HealthAssumption
    <3> QED BY <3>1, <1>1, <1>17 DEF Tick
  <2>4. CASE At("idle")
    <3>1. due' = due - 1 /\ due > 0 /\ check' = check
      BY <2>4, <1>17, <1>1 DEF Tick
    <3> QED BY <2>1, <2>2, <2>3, <2>4, <3>1, <1>17, <1>0, <1>1, <1>2, HealthAssumption DEF Tick, keyVars, doorVars, planVars, At
  <2>5. CASE ~At("idle")
    <3>1. check.lag < Lag /\ check' = [check EXCEPT !.lag = @ + 1, !.failed = Older(@), !.alerted = Older(@)]
      BY <2>5, <1>17 DEF Tick
    <3>2. check' \in CheckRec /\ check'.lag = check.lag + 1 /\ check'.at = check.at /\ check'.loc = check.loc /\ check'.todo = check.todo
      <4>1. Older(check.failed) \in Ages /\ Older(check.alerted) \in Ages /\ check.lag + 1 \in 0 .. Lag
        BY <3>1, <1>0, OlderAge, HealthAssumption DEF CheckRec
      <4> QED BY <3>1, <4>1, <1>0 DEF CheckRec
    <3>3. due' = due - 1 /\ due' \in 0 .. Period /\ due' = Period - check'.lag
      BY <3>1, <3>2, <2>5, <1>17, <1>0, <1>1, <1>2, HealthAssumption DEF Tick, CheckRec, At
    <3> QED BY <2>1, <2>2, <2>3, <2>5, <3>2, <3>3, <1>17, <1>1, <1>2 DEF Tick, keyVars, doorVars, planVars, At
  <2> QED BY <2>4, <2>5
<1>18. CASE Restart
  BY <1>18, <1>0, <1>1, <1>4, IdleRec, HealthAssumption DEF Restart, keyVars, doorVars, planVars, CheckRec
<1>19. CASE Outside
  <2>1. /\ UNCHANGED <<record, due, check, quiet, apart, bare, story, mishaps>>
        /\ edits' \in 0 .. MaxEdits
    BY <1>19, <1>1, HealthAssumption DEF Outside, SaveKey, KisiChangesItsMind, GroupComesOrGoes, GrantFindsNoGroup, AddDoorAgain,
       PlanArchivedOrBack, Edit
  <2>2. key' \in Keys \cup {NoKey} /\ accepted' \subseteq Keys /\ flagged' = flagged
    BY <1>19, <1>1 DEF Outside, SaveKey, KisiChangesItsMind, GroupComesOrGoes, GrantFindsNoGroup, AddDoorAgain,
       PlanArchivedOrBack, keyVars, planVars
  <2>3. groups' \subseteq Doors /\ archived' \subseteq WixPlans
    BY <1>19, <1>1 DEF Outside, SaveKey, KisiChangesItsMind, GroupComesOrGoes, GrantFindsNoGroup, AddDoorAgain,
       PlanArchivedOrBack, doorVars, planVars
  <2>4. mark' \in [Doors -> {"ok", "not_found", "legacy"}] /\ told' \subseteq Doors \cup WixPlans
    BY <1>19, <1>1 DEF Outside, SaveKey, KisiChangesItsMind, GroupComesOrGoes, GrantFindsNoGroup, AddDoorAgain,
       PlanArchivedOrBack, doorVars, SetsMark
  <2> QED BY <2>1, <2>2, <2>3, <2>4, <1>0, <1>1, <1>2
<1> QED BY <1>6, <1>7, <1>8, <1>9, <1>10, <1>11, <1>12, <1>13, <1>14, <1>15, <1>16, <1>17, <1>18, <1>19 DEF HealthNext, CheckStep

(* Who waits.                                                              *)
LEMMA HealthFacts ==
  ASSUME HealthShape
  PROVE  /\ Day \in Nat /\ Day > 0 /\ Period \in Nat /\ Lag \in Nat /\ Lag < Period
         /\ check.at \in Places /\ check.loc \in Locs /\ check.todo \subseteq Locs /\ check.lag \in 0 .. Lag
         /\ check.failed \in -1 .. Day /\ check.alerted \in -1 .. Day
         /\ record.failed \in -1 .. Day /\ record.alerted \in -1 .. Day
         /\ due \in 0 .. Period
         /\ \A l \in Locs : /\ quiet[l] \in 0 .. Long /\ quiet[l] \in Nat
                            /\ apart[l].age \in 0 .. Day /\ apart[l].stamped \in BOOLEAN
         /\ check.at = "idle" => check.todo = {} /\ check.lag = 0 /\ check.alerted = Never
         /\ check.at # "idle" => due = Period - check.lag /\ due > 0
         /\ check.at \notin {"idle", "pick"} => check.loc \notin check.todo
         /\ Long \in Nat
<1>1. HealthTypeOK /\ check \in CheckRec /\ Day \in Nat /\ Day > 0 /\ Period \in Nat /\ Lag \in Nat /\ Lag < Period
  BY HealthAssumption DEF HealthShape
<1>2. Ages = -1 .. Day
  BY DEF Ages, Never
<1>3. /\ check.at \in Places /\ check.loc \in Locs /\ check.todo \subseteq Locs /\ check.lag \in 0 .. Lag
      /\ check.failed \in -1 .. Day /\ check.alerted \in -1 .. Day
  BY <1>1, <1>2 DEF CheckRec
<1>4. Long \in Nat
  BY <1>1 DEF Long
<1>5. /\ record.failed \in -1 .. Day /\ record.alerted \in -1 .. Day /\ due \in 0 .. Period
      /\ \A l \in Locs : /\ quiet[l] \in 0 .. Long /\ apart[l].age \in 0 .. Day /\ apart[l].stamped \in BOOLEAN
  BY <1>1, <1>2 DEF HealthTypeOK
<1>6. check.at = "idle" => check.todo = {} /\ check.lag = 0 /\ check.alerted = Never
  BY <1>3, IdleRec DEF HealthShape, At
<1>7. check.at # "idle" => due = Period - check.lag /\ due > 0
  BY <1>1, <1>3 DEF HealthShape, At
<1>8. check.at \notin {"idle", "pick"} => check.loc \notin check.todo
  BY DEF HealthShape
<1> QED BY <1>1, <1>3, <1>4, <1>5, <1>6, <1>7, <1>8

(* After a failure nobody waits, as far as anyone promised.                *)
LEMMA WaitsAnew ==
  ASSUME HealthInv, HealthShape', Mishap, record'.alerted = record.alerted,
         check'.alerted \in {check.alerted, Never}, \A l \in Locs : Visiting(l)' => Visiting(l)
  PROVE  Waiting1'
<1>1. \A l \in Locs : quiet'[l] = 0
  BY DEF Mishap
<1>2. HealthShape /\ check.loc \in Locs /\ check'.loc \in Locs /\ check'.lag \in 0 .. Lag /\ due' \in 0 .. Period
      /\ Day \in Nat /\ Lag \in Nat /\ Period \in Nat
  BY HealthFacts, HealthAssumption DEF HealthInv, HealthShape, CheckRec, HealthTypeOK
<1>3. NeverStamped'
  BY <1>1 DEF HealthInv, Waiting1, NeverStamped
<1>4. StampedToday' /\ StampedBefore'
  BY <1>1, <1>2 DEF StampedToday, StampedBefore
<1>5. At("stamp")' => quiet'[check'.loc] =< 1 + check'.lag
  BY <1>1, <1>2
<1> QED BY <1>3, <1>4, <1>5 DEF Waiting1, At

LEMMA WaitsOn ==
  ASSUME HealthInv, UNCHANGED <<quiet, due>>, record'.alerted = record.alerted,
         check'.todo = check.todo, check'.loc = check.loc, check'.lag = check.lag, check'.alerted = check.alerted,
         check'.at = check.at \/ {check.at, check'.at} \cap {"try", "mail", "stamp"} = {}
  PROVE  Waiting1'
<1>1. \A l : (InHand(l)' <=> InHand(l)) /\ (Visiting(l)' <=> Visiting(l))
  BY DEF InHand, Visiting, At
<1>2. NeverStamped'
  BY <1>1 DEF HealthInv, Waiting1, NeverStamped
<1>3. StampedToday' /\ StampedBefore'
  BY <1>1 DEF HealthInv, Waiting1, StampedToday, StampedBefore
<1> QED BY <1>2, <1>3 DEF HealthInv, Waiting1, At

LEMMA WaitsOut ==
  ASSUME HealthInv, Tick
  PROVE  Waiting1'
<1>0. HealthShape /\ Waiting1 /\ NeverStamped /\ StampedToday /\ StampedBefore
  BY DEF HealthInv, Waiting1
<1>1. HealthTypeOK /\ check \in CheckRec
  BY <1>0 DEF HealthShape
<1>2. \A l \in Locs : quiet'[l] =< quiet[l] + 1 /\ (quiet[l] = 0 => quiet'[l] = 0) /\ quiet[l] \in Nat /\ quiet'[l] \in Nat
  <2> SUFFICES ASSUME NEW l \in Locs
               PROVE  quiet'[l] =< quiet[l] + 1 /\ (quiet[l] = 0 => quiet'[l] = 0) /\ quiet[l] \in Nat /\ quiet'[l] \in Nat
    OBVIOUS
  <2>1. quiet'[l] = IF quiet[l] = 0 THEN 0 ELSE Min({quiet[l] + 1, Long})
    BY DEF Tick
  <2> QED BY <2>1, <1>0, HealthFacts, SmallerOfTwo
<1>3. /\ record'.alerted = Older(record.alerted)
      /\ record.alerted = Never <=> record'.alerted = Never
      /\ record.alerted # Never => record'.alerted = IF record.alerted = Day THEN Day ELSE record.alerted + 1
  BY <1>1, OlderAge DEF Tick, HealthTypeOK
<1>4. /\ check'.at = check.at /\ check'.todo = check.todo /\ check'.loc = check.loc
      /\ check.at # "idle" => check'.lag = check.lag + 1 /\ check'.alerted = Older(check.alerted)
      /\ check.at = "idle" => check' = check
  BY <1>1 DEF Tick, At, CheckRec
<1>5. check.alerted = Never => check'.alerted = Never
  BY <1>4, <1>1, OlderAge DEF CheckRec
<1>6. check.alerted = Day => check'.alerted = Day /\ check.at # "idle"
  BY <1>0, <1>1, <1>4, OlderAge, HealthFacts DEF CheckRec, Never
<1>7. \A l : (InHand(l)' <=> InHand(l)) /\ (Visiting(l)' <=> Visiting(l))
  BY <1>4 DEF InHand, Visiting, At
<1>8. due' = due - 1 /\ due > 0 /\ due \in 0 .. Period
  BY <1>0, HealthFacts DEF Tick, At
<1>9. NeverStamped'
  <2> SUFFICES ASSUME record.alerted = Never
               PROVE  \E l \in Locs :
    \/ quiet'[l] = 0 /\ (check'.alerted = Never \/ ~Visiting(l)')
    \/ l = check'.loc /\ check'.at \in {"mail", "stamp"} /\ check'.alerted = Never /\ quiet'[l] =< 1 + check'.lag
    BY <1>3 DEF NeverStamped
  <2>1. PICK l \in Locs :
    \/ quiet[l] = 0 /\ (check.alerted = Never \/ ~Visiting(l))
    \/ l = check.loc /\ check.at \in {"mail", "stamp"} /\ check.alerted = Never /\ quiet[l] =< 1 + check.lag
    BY <1>0 DEF NeverStamped
  <2>2. CASE quiet[l] = 0 /\ (check.alerted = Never \/ ~Visiting(l))
    BY <2>2, <1>2, <1>5, <1>7
  <2>3. CASE l = check.loc /\ check.at \in {"mail", "stamp"} /\ check.alerted = Never /\ quiet[l] =< 1 + check.lag
    BY <2>3, <1>0, <1>2, <1>4, <1>5, HealthFacts
  <2> QED BY <2>1, <2>2, <2>3
<1>10. StampedToday'
  <2> SUFFICES ASSUME record'.alerted \in 0 .. Day - 1 PROVE \E l \in Locs : quiet'[l] =< record'.alerted + Lag + 1
    BY DEF StampedToday
  <2>1. record.alerted \in 0 .. Day - 1 /\ record'.alerted = record.alerted + 1
    BY <1>0, <1>3, HealthFacts DEF Never
  <2>2. PICK l \in Locs : quiet[l] =< record.alerted + Lag + 1
    BY <1>0, <2>1 DEF StampedToday
  <2> QED BY <2>1, <2>2, <1>2, HealthFacts, <1>0
<1>11. StampedBefore'
  <2> SUFFICES ASSUME record'.alerted = Day
               PROVE  \E l \in Locs :
    \/ quiet'[l] =< Day + Lag + (Period - due')
    \/ check'.alerted = Day /\ InHand(l)' /\ quiet'[l] =< Day + Lag + Period + check'.lag
    BY DEF StampedBefore
  <2>1. CASE record.alerted = Day
    <3>1. PICK l \in Locs :
      \/ quiet[l] =< Day + Lag + (Period - due)
      \/ check.alerted = Day /\ InHand(l) /\ quiet[l] =< Day + Lag + Period + check.lag
      BY <2>1, <1>0 DEF StampedBefore
    <3>2. CASE quiet[l] =< Day + Lag + (Period - due)
      BY <3>2, <1>0, <1>2, <1>8, HealthFacts
    <3>3. CASE check.alerted = Day /\ InHand(l) /\ quiet[l] =< Day + Lag + Period + check.lag
      BY <3>3, <1>0, <1>2, <1>4, <1>6, <1>7, HealthFacts
    <3> QED BY <3>1, <3>2, <3>3
  <2>2. CASE record.alerted # Day
    <3>1. record.alerted = Day - 1 /\ record.alerted \in 0 .. Day - 1
      BY <2>2, <1>0, <1>3, HealthFacts DEF Never
    <3>2. PICK l \in Locs : quiet[l] =< record.alerted + Lag + 1
      BY <1>0, <3>1 DEF StampedToday
    <3> QED BY <3>1, <3>2, <1>0, <1>2, <1>8, HealthFacts
  <2> QED BY <2>1, <2>2
<1>12. At("stamp")' => quiet'[check'.loc] =< 1 + check'.lag
  BY <1>0, <1>2, <1>4, HealthFacts DEF Waiting1, At
<1> QED BY <1>9, <1>10, <1>11, <1>12 DEF Waiting1

LEMMA WaitingKept ==
  ASSUME HealthInv, HealthShape', HealthNext
  PROVE  Waiting1'
<1>0. HealthShape /\ Waiting1 /\ NeverStamped /\ StampedToday /\ StampedBefore /\ check \in CheckRec
  BY DEF HealthInv, Waiting1, HealthShape
<1> DEFINE loc == check.loc
<1>1. CASE StartCheck
  <2>1. /\ check'.at = "pick" /\ check'.loc = loc /\ check'.todo = Locs /\ check'.lag = 0 /\ check'.alerted = record.alerted
        /\ UNCHANGED <<quiet, record>> /\ due = 0 /\ check.at = "idle"
    <3>1. Idle(loc) \in CheckRec /\ Idle(loc).loc = loc /\ Idle(loc).lag = 0
      BY <1>0, IdleRec, HealthFacts
    <3> DEFINE i == Idle(loc)
    <3> HIDE DEF i
    <3>2. check' = [i EXCEPT !.at = "pick", !.todo = Locs, !.key = key, !.failed = record.failed, !.alerted = record.alerted]
          /\ i \in CheckRec /\ i.loc = loc /\ i.lag = 0
      BY <1>1, <3>1 DEF StartCheck, i
    <3> QED BY <3>2, <1>1 DEF StartCheck, mailVars, At, CheckRec
  <2>2. NeverStamped'
    BY <2>1, <1>0 DEF NeverStamped
  <2>3. StampedToday'
    BY <2>1, <1>0 DEF StampedToday
  <2>4. StampedBefore'
    <3> SUFFICES ASSUME record.alerted = Day
                 PROVE  \E l \in Locs : check'.alerted = Day /\ InHand(l)' /\ quiet'[l] =< Day + Lag + Period + check'.lag
      BY <2>1 DEF StampedBefore
    <3>1. PICK l \in Locs : quiet[l] =< Day + Lag + (Period - due)
      BY <2>1, <1>0, HealthFacts DEF StampedBefore, InHand
    <3> QED BY <3>1, <2>1, <1>0, HealthFacts DEF InHand
  <2> QED BY <2>1, <2>2, <2>3, <2>4 DEF Waiting1, At
<1>2. CASE PickLocation
  <2>1. CASE \E l \in check.todo : check' = [check EXCEPT !.at = "try", !.loc = l, !.todo = @ \ {l}]
    <3>1. PICK l \in check.todo : check' = [check EXCEPT !.at = "try", !.loc = l, !.todo = @ \ {l}]
      BY <2>1
    <3>2. /\ check'.at = "try" /\ check'.loc = l /\ check'.todo = check.todo \ {l} /\ check'.lag = check.lag
          /\ check'.alerted = check.alerted /\ UNCHANGED <<quiet, record, due>> /\ check.at = "pick"
      BY <3>1, <1>0, <1>2 DEF PickLocation, CheckRec, mailVars, At
    <3>3. \A x : (InHand(x)' <=> InHand(x)) /\ (Visiting(x)' <=> Visiting(x))
      BY <3>2 DEF InHand, Visiting, At
    <3>4. NeverStamped'
      BY <3>2, <3>3, <1>0 DEF NeverStamped
    <3>5. StampedToday' /\ StampedBefore'
      BY <3>2, <3>3, <1>0 DEF StampedToday, StampedBefore
    <3> QED BY <3>2, <3>4, <3>5 DEF Waiting1, At
  <2>2. CASE check.todo = {} /\ check' = Idle(loc)
    <3>1. /\ check'.at = "idle" /\ check'.loc = loc /\ check'.todo = {} /\ check'.alerted = Never
          /\ UNCHANGED <<quiet, record, due>> /\ check.at = "pick"
      BY <2>2, <1>0, <1>2, IdleRec, HealthFacts DEF PickLocation, mailVars, At
    <3>2. \A l : ~InHand(l)
      BY <2>2, <3>1 DEF InHand
    <3>3. NeverStamped'
      BY <3>1, <1>0 DEF NeverStamped
    <3>4. StampedToday' /\ StampedBefore'
      BY <3>1, <3>2, <1>0 DEF StampedToday, StampedBefore
    <3> QED BY <3>1, <3>3, <3>4 DEF Waiting1, At
  <2> QED BY <2>1, <2>2, <1>2 DEF PickLocation
<1>3. CASE TryKey
  <2>0. check.at = "try" /\ UNCHANGED due
    BY <1>3 DEF TryKey, At
  <2>1. PICK p \in {"mail", "list", "plans"} : check' = [check EXCEPT !.at = p]
    BY <1>3 DEF TryKey, MovesTo
  <2>2. /\ check'.at = p /\ check'.loc = loc /\ check'.todo = check.todo /\ check'.lag = check.lag /\ check'.alerted = check.alerted
    BY <2>1, <1>0 DEF CheckRec
  <2>3. \A l : (Visiting(l)' => Visiting(l)) /\ (l # loc => Visiting(l)' = Visiting(l) /\ InHand(l)' = InHand(l))
    BY <2>0, <2>2 DEF Visiting, InHand, At
  <2>4. CASE Mishap
    <3>1. record'.alerted = record.alerted \/ ~(UNCHANGED record \/ record' = Recorded("network"))
      BY DEF Recorded
    <3>2. CASE UNCHANGED record \/ record' = Recorded("network")
      BY <3>1, <3>2, <2>2, <2>3, <2>4, WaitsAnew
    <3>3. CASE ~(UNCHANGED record \/ record' = Recorded("network"))
      <4>1. UNCHANGED mishaps
        BY <3>3, <1>3 DEF TryKey
      <4> QED BY <4>1, <2>4, <1>0 DEF Mishap, HealthShape, HealthTypeOK
    <3> QED BY <3>2, <3>3
  <2>5. CASE Refused /\ ~Mishap
    <3>1. /\ record' = Recorded("refused") /\ quiet' = [quiet EXCEPT ![loc] = Max({@, 1})] /\ check'.at = "mail"
      BY <2>5, <1>3, <2>2, <1>0 DEF TryKey, MovesTo, CheckRec
    <3>2. record'.alerted = record.alerted
      BY <3>1 DEF Recorded
    <3>3. /\ quiet'[loc] = IF quiet[loc] >= 1 THEN quiet[loc] ELSE 1
          /\ \A l \in Locs : l # loc => quiet'[l] = quiet[l]
      <4>1. quiet \in [Locs -> 0 .. Long] /\ loc \in Locs /\ quiet[loc] \in Nat
        BY <1>0, HealthFacts DEF HealthShape, HealthTypeOK
      <4> QED BY <3>1, <4>1, LargerOfTwo
    <3>4. NeverStamped'
      <4> SUFFICES ASSUME record.alerted = Never
                   PROVE  \E l \in Locs :
        \/ quiet'[l] = 0 /\ (check'.alerted = Never \/ ~Visiting(l)')
        \/ l = check'.loc /\ check'.at \in {"mail", "stamp"} /\ check'.alerted = Never /\ quiet'[l] =< 1 + check'.lag
        BY <3>2 DEF NeverStamped
      <4>1. PICK l \in Locs : quiet[l] = 0 /\ (check.alerted = Never \/ ~Visiting(l))
        BY <1>0, <2>0 DEF NeverStamped
      <4>2. CASE l = loc
        <5>1. Visiting(l)
          BY <4>2, <2>0 DEF Visiting, InHand
        <5>2. quiet'[loc] = 1 /\ 1 =< 1 + check'.lag
          BY <4>1, <4>2, <3>3, <2>2, <1>0, HealthFacts
        <5> QED BY <4>1, <4>2, <5>1, <5>2, <3>1, <2>2
      <4>3. CASE l # loc
        BY <4>1, <4>3, <3>3, <2>2, <2>3
      <4> QED BY <4>2, <4>3
    <3>5. \A l \in Locs : quiet'[l] =< quiet[l] \/ quiet'[l] =< 1
      BY <3>3, <1>0, HealthFacts
    <3>6. StampedToday'
      <4> SUFFICES ASSUME record.alerted \in 0 .. Day - 1
                   PROVE  \E l \in Locs : quiet'[l] =< record'.alerted + Lag + 1
        BY <3>2 DEF StampedToday
      <4>1. PICK l \in Locs : quiet[l] =< record.alerted + Lag + 1
        BY <1>0 DEF StampedToday
      <4>2. quiet'[l] \in Int /\ quiet[l] \in Int
        BY <3>3, <1>0, HealthFacts
      <4> QED BY <4>1, <4>2, <3>2, <3>5, <1>0, HealthFacts
    <3>7. StampedBefore'
      <4> SUFFICES ASSUME record.alerted = Day
                   PROVE  \E l \in Locs :
         \/ quiet'[l] =< Day + Lag + (Period - due')
         \/ check'.alerted = Day /\ InHand(l)' /\ quiet'[l] =< Day + Lag + Period + check'.lag
        BY <3>2 DEF StampedBefore
      <4>1. PICK l \in Locs :
         \/ quiet[l] =< Day + Lag + (Period - due)
         \/ check.alerted = Day /\ InHand(l) /\ quiet[l] =< Day + Lag + Period + check.lag
        BY <1>0 DEF StampedBefore
      <4>2. quiet'[l] \in Int /\ quiet[l] \in Int
        BY <3>3, <1>0, HealthFacts
      <4>3. CASE quiet[l] =< Day + Lag + (Period - due)
        BY <4>2, <4>3, <3>5, <2>0, <1>0, HealthFacts
      <4>4. CASE check.alerted = Day /\ InHand(l) /\ quiet[l] =< Day + Lag + Period + check.lag
        <5>1. InHand(l)'
          BY <4>4, <2>2, <3>1 DEF InHand
        <5> QED BY <4>2, <4>4, <5>1, <3>5, <2>2, <1>0, HealthFacts
      <4> QED BY <4>1, <4>3, <4>4
    <3> QED BY <3>1, <3>4, <3>6, <3>7 DEF Waiting1, At
  <2>6. CASE ~Refused /\ ~Mishap
    <3>1. /\ record' = Recorded("none") /\ quiet' = [quiet EXCEPT ![loc] = 0] /\ check'.at = "list"
      BY <2>6, <1>3, <2>2, <1>0 DEF TryKey, MovesTo, CheckRec
    <3>2. record'.alerted = Never
      BY <3>1 DEF Recorded
    <3>3. quiet'[loc] = 0 /\ loc \in Locs /\ loc \notin check.todo
      BY <3>1, <1>0, <2>0, HealthFacts DEF HealthShape, HealthTypeOK
    <3>4. PICK l \in Locs : l = loc
      BY <3>3
    <3>5. Never \notin 0 .. Day - 1 /\ Never # Day
      BY <1>0, HealthFacts DEF Never
    <3>6. NeverStamped'
      <4>1. ~Visiting(l)' /\ quiet'[l] = 0
        BY <3>1, <3>3, <3>4, <2>2 DEF Visiting, InHand, At
      <4> QED BY <4>1 DEF NeverStamped
    <3>7. StampedToday' /\ StampedBefore'
      BY <3>2, <3>5 DEF StampedToday, StampedBefore
    <3> QED BY <3>1, <3>6, <3>7 DEF Waiting1, At
  <2> QED BY <2>4, <2>5, <2>6
<1>4. CASE MailKeyFailure
  <2>0. check.at = "mail" /\ UNCHANGED <<due, record>>
    BY <1>4 DEF MailKeyFailure, At
  <2>1. PICK p \in {"stamp", "pick", "plans"} : check' = [check EXCEPT !.at = p]
    BY <1>4 DEF MailKeyFailure, MovesTo, AfterMail
  <2>2. /\ check'.at = p /\ check'.loc = loc /\ check'.todo = check.todo /\ check'.lag = check.lag /\ check'.alerted = check.alerted
    BY <2>1, <1>0 DEF CheckRec
  <2>3. \A l : (Visiting(l)' => Visiting(l)) /\ (l # loc => Visiting(l)' = Visiting(l) /\ InHand(l)' = InHand(l))
    BY <2>0, <2>2 DEF Visiting, InHand, At
  <2>4. CASE Mishap
    BY <2>0, <2>2, <2>3, <2>4, WaitsAnew
  <2>5. CASE ~SendKeyAlert
    <3>1. /\ check.alerted # Never /\ check.alerted # Day /\ UNCHANGED quiet /\ check'.at \in {"pick", "plans"}
      BY <2>5, <1>4, <2>2, <1>0 DEF MailKeyFailure, SendKeyAlert, DayIsOver, mailVars, MovesTo, AfterMail, CheckRec
    <3>2. NeverStamped'
      BY <3>1, <2>0, <2>2, <2>3, <1>0 DEF NeverStamped
    <3>3. StampedToday' /\ StampedBefore'
      BY <3>1, <2>0, <2>2, <1>0 DEF StampedToday, StampedBefore
    <3> QED BY <3>1, <3>2, <3>3 DEF Waiting1, At
  <2>6. CASE SendKeyAlert /\ ~Mishap
    <3>1. quiet' = [quiet EXCEPT ![loc] = 1] /\ check'.at = "stamp"
      BY <2>6, <1>4, <2>2, <1>0 DEF MailKeyFailure, MovesTo, CheckRec
    <3>2. quiet'[loc] = 1 /\ loc \in Locs /\ \A l \in Locs : l # loc => quiet'[l] = quiet[l]
      BY <3>1, <1>0, HealthFacts DEF HealthShape, HealthTypeOK
    <3>3. 1 =< 1 + check'.lag
      BY <2>2, <1>0, HealthFacts
    <3>4. NeverStamped'
      <4> SUFFICES ASSUME record.alerted = Never
                   PROVE  \E l \in Locs :
        \/ quiet'[l] = 0 /\ (check'.alerted = Never \/ ~Visiting(l)')
        \/ l = check'.loc /\ check'.at \in {"mail", "stamp"} /\ check'.alerted = Never /\ quiet'[l] =< 1 + check'.lag
        BY <2>0 DEF NeverStamped
      <4>1. PICK l \in Locs :
        \/ quiet[l] = 0 /\ (check.alerted = Never \/ ~Visiting(l))
        \/ l = check.loc /\ check.at \in {"mail", "stamp"} /\ check.alerted = Never /\ quiet[l] =< 1 + check.lag
        BY <1>0 DEF NeverStamped
      <4>2. CASE l = loc
        <5>1. Visiting(l)
          BY <4>2, <2>0 DEF Visiting, InHand
        <5> QED BY <4>1, <4>2, <5>1, <3>1, <3>2, <3>3, <2>2
      <4>3. CASE l # loc
        BY <4>1, <4>3, <3>2, <2>2, <2>3
      <4> QED BY <4>2, <4>3
    <3>5. StampedToday'
      BY <3>2, <2>0, <1>0, HealthFacts DEF StampedToday
    <3>6. StampedBefore'
      BY <3>2, <2>0, <1>0, HealthFacts DEF StampedBefore
    <3> QED BY <3>2, <3>3, <3>4, <3>5, <3>6, <2>2 DEF Waiting1
  <2> QED BY <2>4, <2>5, <2>6
<1>5. CASE StampAlert
  <2>0. check.at = "stamp" /\ UNCHANGED due
    BY <1>5 DEF StampAlert, At
  <2>1. PICK p \in {"pick", "plans"} : check' = [check EXCEPT !.at = p]
    BY <1>5 DEF StampAlert, MovesTo, AfterMail
  <2>2. /\ check'.at = p /\ check'.loc = loc /\ check'.todo = check.todo /\ check'.lag = check.lag /\ check'.alerted = check.alerted
    BY <2>1, <1>0 DEF CheckRec
  <2>3. \A l : Visiting(l)' => Visiting(l)
    BY <2>0, <2>2 DEF Visiting, InHand, At
  <2>4. CASE Mishap /\ UNCHANGED record
    BY <2>2, <2>3, <2>4, WaitsAnew
  <2>5. CASE record' = StampedNow /\ UNCHANGED quiet
    <3>1. record'.alerted = 0
      BY <2>5, <1>0 DEF StampedNow, HealthShape, HealthTypeOK
    <3>2. quiet'[loc] =< 1 + check.lag /\ loc \in Locs
      BY <2>0, <2>5, <1>0, HealthFacts DEF Waiting1, At
    <3>3. 0 # Never /\ 0 # Day
      BY <1>0, HealthFacts DEF Never
    <3>4. quiet'[loc] =< 0 + Lag + 1
      BY <3>2, <2>5, <1>0, HealthFacts
    <3> QED BY <2>2, <3>1, <3>2, <3>3, <3>4 DEF Waiting1, NeverStamped, StampedToday, StampedBefore, At
  <2> QED BY <2>4, <2>5, <1>5 DEF StampAlert
<1>6. CASE SpoiltKey
  <2>1. /\ check'.at = "pick" /\ check'.loc = loc /\ check'.todo = check.todo /\ check'.alerted = check.alerted
        /\ UNCHANGED record /\ Mishap
    BY <1>6, <1>0 DEF SpoiltKey, GoesOn, MovesTo, CheckRec
  <2>2. \A l : Visiting(l)' => Visiting(l)
    BY <2>1 DEF Visiting, InHand, At
  <2> QED BY <2>1, <2>2, WaitsAnew
<1>7. CASE ListGroups \/ CompareDoors \/ WriteMark \/ MailDoors \/ ComparePlans \/ MailPlans
  <2>1. /\ UNCHANGED <<record, due>> /\ check.at \in {"list", "compare", "write", "mail_doors", "plans", "mail_plans"}
        /\ UNCHANGED quiet \/ Mishap
    <3>1. CASE ListGroups
      BY <3>1 DEF ListGroups, At
    <3>2. CASE CompareDoors
      BY <3>2 DEF CompareDoors, At, mailVars
    <3>3. CASE WriteMark
      BY <3>3 DEF WriteMark, At
    <3>4. CASE MailDoors \/ MailPlans
      BY <3>4 DEF MailDoors, MailPlans, MailsOnce, At
    <3>5. CASE ComparePlans
      BY <3>5 DEF ComparePlans, At
    <3> QED BY <1>7, <3>1, <3>2, <3>3, <3>4, <3>5
  <2>2. \/ /\ check'.loc = loc /\ check'.todo = check.todo /\ check'.lag = check.lag /\ check'.alerted = check.alerted
           /\ check'.at \notin {"try", "mail", "stamp"}
        \/ Mishap /\ check' = Idle(loc)
    <3>1. CASE ListGroups
      BY <3>1, <1>0 DEF ListGroups, MovesTo, CheckRec
    <3>2. CASE CompareDoors
      BY <3>2, <1>0 DEF CompareDoors, CheckRec
    <3>3. CASE WriteMark
      BY <3>3, <1>0, <2>1 DEF WriteMark, MovesTo, CheckRec
    <3>4. CASE MailDoors \/ MailPlans
      BY <3>4, <1>0 DEF MailDoors, MailPlans, CheckRec
    <3>5. CASE ComparePlans
      BY <3>5, <1>0 DEF ComparePlans, GoesOn, MovesTo, CheckRec
    <3> QED BY <1>7, <3>1, <3>2, <3>3, <3>4, <3>5
  <2>3. CASE Mishap /\ check' = Idle(loc)
    <3>1. check'.at = "idle" /\ check'.todo = {} /\ check'.alerted = Never
      BY <2>3, <1>0, IdleRec, HealthFacts
    <3>2. \A l : ~Visiting(l)'
      BY <3>1 DEF Visiting, InHand, At
    <3> QED BY <2>1, <2>3, <3>1, <3>2, WaitsAnew
  <2>4. CASE /\ check'.loc = loc /\ check'.todo = check.todo /\ check'.lag = check.lag /\ check'.alerted = check.alerted
             /\ check'.at \notin {"try", "mail", "stamp"}
    <3>1. \A l : Visiting(l)' => Visiting(l)
      BY <2>4 DEF Visiting, InHand, At
    <3> QED BY <2>1, <2>4, <3>1, WaitsAnew, WaitsOn
  <2> QED BY <2>2, <2>3, <2>4
<1>8. CASE Tick
  BY <1>8, WaitsOut
<1>9. CASE Restart
  <2>1. check'.at = "idle" /\ check'.todo = {} /\ check'.alerted = Never /\ Mishap /\ UNCHANGED record
    BY <1>9, <1>0, IdleRec, HealthFacts DEF Restart
  <2>2. \A l : ~Visiting(l)'
    BY <2>1 DEF Visiting, InHand, At
  <2> QED BY <2>1, <2>2, WaitsAnew
<1>10. CASE Outside
  <2>1. UNCHANGED <<record, due, check, quiet>>
    BY <1>10 DEF Outside, SaveKey, KisiChangesItsMind, GroupComesOrGoes, GrantFindsNoGroup, AddDoorAgain,
       PlanArchivedOrBack, Edit
  <2> QED BY <2>1, WaitsOn
<1> QED BY <1>1, <1>2, <1>3, <1>4, <1>5, <1>6, <1>7, <1>8, <1>9, <1>10 DEF HealthNext, CheckStep

(* How far apart the mails are.                                            *)
LEMMA ApartOn ==
  ASSUME HealthInv, UNCHANGED apart, record'.alerted = record.alerted, record'.failed = record.failed,
         \A l \in Locs : InHand(l)' => InHand(l) /\ check'.alerted = check.alerted /\ check'.failed = check.failed
  PROVE  Apart1'
BY DEF HealthInv, Apart1

LEMMA ApartKept ==
  ASSUME HealthInv, HealthNext
  PROVE  Apart1'
<1>0. HealthShape /\ Apart1 /\ check \in CheckRec
  BY DEF HealthInv, HealthShape
<1> DEFINE loc == check.loc
<1>1. CASE StartCheck
  <2>1. /\ check'.alerted = record.alerted /\ check'.failed = record.failed /\ UNCHANGED <<apart, record>>
    <3>1. Idle(loc) \in CheckRec
      BY <1>0, IdleRec, HealthFacts
    <3> DEFINE i == Idle(loc)
    <3> HIDE DEF i
    <3>2. check' = [i EXCEPT !.at = "pick", !.todo = Locs, !.key = key, !.failed = record.failed, !.alerted = record.alerted]
          /\ i \in CheckRec
      BY <1>1, <3>1 DEF StartCheck, i
    <3> QED BY <3>2, <1>1 DEF StartCheck, mailVars, CheckRec
  <2> QED BY <2>1, <1>0 DEF Apart1
<1>2. CASE PickLocation
  <2>1. UNCHANGED <<apart, record>> /\ check.at = "pick"
    BY <1>2 DEF PickLocation, mailVars, At
  <2>2. \A l \in Locs : InHand(l)' => InHand(l) /\ check'.alerted = check.alerted /\ check'.failed = check.failed
    <3>1. CASE \E l \in check.todo : check' = [check EXCEPT !.at = "try", !.loc = l, !.todo = @ \ {l}]
      <4>1. PICK l \in check.todo : check' = [check EXCEPT !.at = "try", !.loc = l, !.todo = @ \ {l}]
        BY <3>1
      <4>2. /\ check'.at = "try" /\ check'.loc = l /\ check'.todo = check.todo \ {l}
            /\ check'.alerted = check.alerted /\ check'.failed = check.failed
        BY <4>1, <1>0 DEF CheckRec
      <4> QED BY <4>2 DEF InHand
    <3>2. CASE check' = Idle(loc)
      BY <3>2, <1>0, IdleRec, HealthFacts DEF InHand
    <3> QED BY <3>1, <3>2, <1>2 DEF PickLocation
  <2> QED BY <2>1, <2>2, ApartOn
<1>3. CASE TryKey
  <2>1. PICK p \in {"mail", "list", "plans"} : check' = [check EXCEPT !.at = p]
    BY <1>3 DEF TryKey, MovesTo
  <2>2. /\ check.at = "try" /\ UNCHANGED apart /\ check'.at = p /\ check'.loc = loc /\ check'.todo = check.todo
        /\ check'.alerted = check.alerted /\ check'.failed = check.failed
    BY <2>1, <1>0, <1>3 DEF TryKey, At, CheckRec
  <2>3. \A l \in Locs : InHand(l)' => InHand(l)
    BY <2>2 DEF InHand
  <2>4. record' = record \/ (\E e \in {"none", "network", "refused"} : record' = Recorded(e))
    BY <1>3 DEF TryKey
  <2>5. \/ record'.alerted = record.alerted /\ record'.failed = record.failed
        \/ record'.alerted = record.alerted /\ record.failed = Never /\ record'.failed = 0
        \/ record'.failed = Never
    BY <2>4 DEF Recorded
  <2> SUFFICES ASSUME NEW l \in Locs, apart[l].stamped, apart[l].age < Day
               PROVE  /\ record'.alerted \in 0 .. apart[l].age \/ record'.failed =< apart[l].age
                      /\ InHand(l)' => check'.alerted \in 0 .. apart[l].age \/ check'.failed =< apart[l].age
    BY <2>2 DEF Apart1
  <2>6. record'.alerted \in 0 .. apart[l].age \/ record'.failed =< apart[l].age
    BY <2>5, <1>0, HealthFacts DEF Apart1, Never
  <2> QED BY <2>2, <2>3, <2>6, <1>0 DEF Apart1
<1>4. CASE MailKeyFailure
  <2>1. PICK p \in {"stamp", "pick", "plans"} : check' = [check EXCEPT !.at = p]
    BY <1>4 DEF MailKeyFailure, MovesTo, AfterMail
  <2>2. /\ check.at = "mail" /\ UNCHANGED record /\ check'.at = p /\ check'.loc = loc /\ check'.todo = check.todo
        /\ check'.alerted = check.alerted /\ check'.failed = check.failed
    BY <2>1, <1>0, <1>4 DEF MailKeyFailure, At, CheckRec
  <2>3. \A l \in Locs : InHand(l)' => InHand(l)
    BY <2>2 DEF InHand
  <2>4. CASE UNCHANGED apart
    BY <2>2, <2>3, <2>4, ApartOn
  <2>5. CASE apart' = [apart EXCEPT ![loc] = [age |-> 0, stamped |-> FALSE]]
    <3>1. ~apart'[loc].stamped /\ \A l \in Locs : l # loc => apart'[l] = apart[l]
      BY <2>5, <1>0, HealthFacts DEF HealthShape, HealthTypeOK
    <3> QED BY <3>1, <2>2, <2>3, <1>0 DEF Apart1
  <2> QED BY <2>4, <2>5, <1>4 DEF MailKeyFailure, mailVars
<1>5. CASE StampAlert
  <2>1. PICK p \in {"pick", "plans"} : check' = [check EXCEPT !.at = p]
    BY <1>5 DEF StampAlert, MovesTo, AfterMail
  <2>2. /\ check.at = "stamp" /\ check'.at = p /\ check'.loc = loc /\ check'.todo = check.todo
        /\ check'.alerted = check.alerted /\ check'.failed = check.failed /\ loc \notin check.todo /\ loc \in Locs
    BY <2>1, <1>0, <1>5, HealthFacts DEF StampAlert, At, CheckRec
  <2>3. \A l \in Locs : InHand(l)' => InHand(l) /\ l # loc
    BY <2>2 DEF InHand
  <2>4. CASE UNCHANGED <<apart, record>>
    BY <2>2, <2>3, <2>4, ApartOn
  <2>5. CASE record' = StampedNow /\ apart' = [apart EXCEPT ![loc].stamped = TRUE]
    <3>1. record'.alerted = 0
      BY <2>5, <1>0 DEF StampedNow, HealthShape, HealthTypeOK
    <3>2. \A l \in Locs : apart'[l].age = apart[l].age /\ apart[l].age \in 0 .. Day /\ (l # loc => apart'[l] = apart[l])
      BY <2>5, <1>0, HealthFacts DEF HealthShape, HealthTypeOK
    <3>3. \A l \in Locs : record'.alerted \in 0 .. apart'[l].age
      BY <3>1, <3>2, <1>0, HealthFacts
    <3> QED BY <3>2, <3>3, <2>2, <2>3, <1>0 DEF Apart1
  <2> QED BY <2>4, <2>5, <1>5 DEF StampAlert
<1>6. CASE SpoiltKey
  <2>1. /\ check'.at = "pick" /\ check'.todo = check.todo /\ check'.alerted = check.alerted /\ check'.failed = check.failed
        /\ UNCHANGED <<record, apart>>
    BY <1>6, <1>0 DEF SpoiltKey, GoesOn, MovesTo, CheckRec
  <2>2. \A l : InHand(l)' => InHand(l)
    BY <2>1 DEF InHand
  <2> QED BY <2>1, <2>2, ApartOn
<1>7. CASE ListGroups \/ CompareDoors \/ WriteMark \/ MailDoors \/ ComparePlans \/ MailPlans
  <2>1. UNCHANGED <<record, apart>>
    BY <1>7 DEF ListGroups, CompareDoors, WriteMark, MailDoors, ComparePlans, MailPlans, mailVars
  <2>2. \/ /\ check'.todo = check.todo /\ check'.alerted = check.alerted /\ check'.failed = check.failed
           /\ check'.at \notin {"try", "mail"}
        \/ check' = Idle(loc)
    <3>1. CASE ListGroups
      BY <3>1, <1>0 DEF ListGroups, MovesTo, CheckRec
    <3>2. CASE CompareDoors
      BY <3>2, <1>0 DEF CompareDoors, CheckRec
    <3>3. CASE WriteMark
      BY <3>3, <1>0 DEF WriteMark, MovesTo, CheckRec, At
    <3>4. CASE MailDoors \/ MailPlans
      BY <3>4, <1>0 DEF MailDoors, MailPlans, CheckRec
    <3>5. CASE ComparePlans
      BY <3>5, <1>0 DEF ComparePlans, GoesOn, MovesTo, CheckRec
    <3> QED BY <1>7, <3>1, <3>2, <3>3, <3>4, <3>5
  <2>3. check' = Idle(loc) => \A l : ~InHand(l)'
    BY <1>0, IdleRec, HealthFacts DEF InHand
  <2>4. \A l \in Locs : InHand(l)' => InHand(l) /\ check'.alerted = check.alerted /\ check'.failed = check.failed
    BY <2>2, <2>3 DEF InHand
  <2> QED BY <2>1, <2>4, ApartOn
<1>8. CASE Tick
  <2>1. /\ record'.failed = Older(record.failed) /\ record'.alerted = Older(record.alerted)
    BY <1>8, <1>0 DEF Tick, HealthShape, HealthTypeOK
  <2>2. /\ check'.at = check.at /\ check'.todo = check.todo /\ check'.loc = check.loc
        /\ check.at # "idle" => check'.failed = Older(check.failed) /\ check'.alerted = Older(check.alerted)
    BY <1>8, <1>0 DEF Tick, At, CheckRec
  <2>3. \A l \in Locs : InHand(l)' => InHand(l) /\ check.at # "idle"
    BY <2>2, <1>0, HealthFacts DEF InHand
  <2>4. ASSUME NEW a \in -1 .. Day
        PROVE  /\ Older(a) = IF a = Day THEN Day ELSE IF a = -1 THEN -1 ELSE a + 1
               /\ Older(a) \in Int
    <3>1. a \in Ages /\ Day \in Nat /\ -1 # Day
      BY <1>0, HealthFacts DEF Ages, Never
    <3> QED BY <3>1, <1>0, OlderAge, HealthFacts DEF Never
  <2>5. \A x \in -1 .. Day : x =< Day
    BY <1>0, HealthFacts
  <2> SUFFICES ASSUME NEW l \in Locs, apart'[l].stamped, apart'[l].age < Day
               PROVE  /\ record'.alerted \in 0 .. apart'[l].age \/ record'.failed =< apart'[l].age
                      /\ InHand(l)' => check'.alerted \in 0 .. apart'[l].age \/ check'.failed =< apart'[l].age
    BY DEF Apart1
  <2>6. apart[l].stamped /\ apart'[l].age = apart[l].age + 1 /\ apart[l].age < Day /\ apart[l].age \in Nat
    <3>1. apart'[l].stamped = apart[l].stamped /\ apart'[l].age = Min({apart[l].age + 1, Day})
      BY <1>8, <1>0 DEF Tick, HealthShape, HealthTypeOK
    <3>2. apart'[l].age = IF apart[l].age + 1 =< Day THEN apart[l].age + 1 ELSE Day
      BY <3>1, <1>0, HealthFacts, SmallerOfTwo
    <3> QED BY <3>1, <3>2, <1>0, HealthFacts
  <2>7. \A a, f \in -1 .. Day : a \in 0 .. apart[l].age \/ f =< apart[l].age
                             => Older(a) \in 0 .. apart'[l].age \/ Older(f) =< apart'[l].age
    BY <2>4, <2>6, <1>0, HealthFacts
  <2>8. record.alerted \in 0 .. apart[l].age \/ record.failed =< apart[l].age
    BY <2>6, <1>0 DEF Apart1
  <2>9. InHand(l) => check.alerted \in 0 .. apart[l].age \/ check.failed =< apart[l].age
    BY <2>6, <1>0 DEF Apart1
  <2> QED BY <2>1, <2>2, <2>3, <2>7, <2>8, <2>9, <1>0, HealthFacts
<1>9. CASE Restart
  <2>1. \A l : ~InHand(l)'
    BY <1>9, <1>0, IdleRec, HealthFacts DEF InHand, Restart
  <2> QED BY <2>1, <1>9, ApartOn DEF Restart
<1>10. CASE Outside
  <2>1. UNCHANGED <<record, check, apart>>
    BY <1>10 DEF Outside, SaveKey, KisiChangesItsMind, GroupComesOrGoes, GrantFindsNoGroup, AddDoorAgain,
       PlanArchivedOrBack, Edit
  <2> QED BY <2>1, ApartOn DEF InHand
<1> QED BY <1>1, <1>2, <1>3, <1>4, <1>5, <1>6, <1>7, <1>8, <1>9, <1>10 DEF HealthNext, CheckStep

(* What is mailed once.                                                    *)
LEMMA ToldKept ==
  ASSUME HealthInv, HealthNext
  PROVE  Told1'
<1>0. HealthShape /\ Apart1 /\ Told1 /\ check \in CheckRec /\ HealthTypeOK
  BY DEF HealthInv, HealthShape
<1>a. mark \in [Doors -> {"ok", "not_found", "legacy"}] /\ Doors \cap WixPlans = {}
  BY <1>0, HealthAssumption DEF HealthTypeOK
<1>1. CASE MailKeyFailure
  <2>1. UNCHANGED <<mark, flagged, told>> /\ check'.at \in {"stamp", "pick", "plans"} /\ check.at = "mail"
    BY <1>1, <1>0 DEF MailKeyFailure, MovesTo, AfterMail, mailVars, doorVars, planVars, CheckRec, At
  <2>2. SendKeyAlert => ~TooSoon(check.loc)
    <3> SUFFICES ASSUME check.failed = Day, apart[check.loc].stamped, apart[check.loc].age < Day
                 PROVE  ~SendKeyAlert
      BY DEF TooSoon
    <3>1. check.alerted \in 0 .. apart[check.loc].age
      BY <2>1, <1>0, HealthFacts DEF Apart1, InHand
    <3> QED BY <3>1, <1>0, HealthFacts DEF SendKeyAlert, DayIsOver, Never
  <2>3. ~bare'
    BY <2>2, <1>1, <1>0 DEF MailKeyFailure, mailVars, Told1
  <2> QED BY <2>1, <2>3, <1>0 DEF Told1, At
<1>2. CASE StartCheck \/ PickLocation \/ TryKey \/ StampAlert \/ SpoiltKey \/ ListGroups \/ Restart
  <2>1. UNCHANGED <<mark, flagged, told, bare>>
    BY <1>2 DEF StartCheck, PickLocation, TryKey, StampAlert, SpoiltKey, ListGroups, Restart, mailVars, doorVars, planVars
  <2>2. check'.at \notin {"write", "mail_doors", "mail_plans"}
    <3>1. CASE StartCheck
      <4> DEFINE i == Idle(check.loc)
      <4>1. i \in CheckRec
        BY <1>0, IdleRec, HealthFacts
      <4> HIDE DEF i
      <4>2. check' = [i EXCEPT !.at = "pick", !.todo = Locs, !.key = key, !.failed = record.failed, !.alerted = record.alerted]
        BY <3>1 DEF StartCheck, i
      <4> QED BY <4>1, <4>2 DEF CheckRec
    <3>2. CASE PickLocation
      BY <3>2, <1>0, IdleRec, HealthFacts DEF PickLocation, CheckRec
    <3>3. CASE TryKey \/ StampAlert \/ SpoiltKey
      BY <3>3, <1>0 DEF TryKey, StampAlert, SpoiltKey, MovesTo, GoesOn, AfterMail, CheckRec
    <3>4. CASE ListGroups
      BY <3>4, <1>0 DEF ListGroups, MovesTo, CheckRec
    <3>5. CASE Restart
      BY <3>5, <1>0, IdleRec, HealthFacts DEF Restart
    <3> QED BY <1>2, <3>1, <3>2, <3>3, <3>4, <3>5
  <2> QED BY <2>1, <2>2, <1>0 DEF Told1, At
<1>3. CASE CompareDoors
  <2>1. /\ UNCHANGED <<mark, flagged, told, bare>> /\ check'.doors = {d \in Doors : Dead(d)} /\ check'.at # "mail_plans"
    BY <1>3, <1>0 DEF CompareDoors, mailVars, doorVars, planVars, CheckRec
  <2>2. check'.doors \cap told = {}
    BY <2>1, <1>0 DEF Told1, Dead
  <2> QED BY <2>1, <2>2, <1>0 DEF Told1, At
<1>4. CASE WriteMark
  <2>1. /\ UNCHANGED <<flagged, bare>> /\ check.at = "write" /\ check'.at # "mail_plans"
        /\ check'.at \in {"write", "mail_doors"} => check'.doors = check.doors
    <3>1. CASE check' = Idle(check.loc)
      BY <3>1, <1>4, <1>0, IdleRec, HealthFacts DEF WriteMark, planVars, At
    <3>2. CASE check' # Idle(check.loc)
      BY <3>2, <1>4, <1>0 DEF WriteMark, MovesTo, planVars, At, CheckRec
    <3> QED BY <3>1, <3>2
  <2>2. told' \subseteq told /\ \A d \in Doors : d \in told' => mark'[d] = "not_found"
    <3>1. ASSUME NEW d \in Doors, SetsMark(d, "not_found") \/ SetsMark(d, "ok")
          PROVE  told' \subseteq told /\ \A e \in Doors : e \in told' => mark'[e] = "not_found"
      BY <3>1, <1>0, <1>a DEF SetsMark, Told1
    <3>2. check.dead \subseteq Doors /\ check.back \subseteq Doors
      BY <1>0 DEF CheckRec
    <3>3. UNCHANGED <<mark, told>> \/ \E d \in Doors : SetsMark(d, "not_found") \/ SetsMark(d, "ok")
      BY <3>2, <1>4 DEF WriteMark
    <3> QED BY <3>1, <3>3, <1>0 DEF Told1
  <2> QED BY <2>1, <2>2, <1>0 DEF Told1, At
<1>5. CASE MailDoors
  <2>1. /\ UNCHANGED <<mark, flagged>> /\ check.at = "mail_doors" /\ check'.at = "plans" /\ MailsOnce(check.doors)
        /\ check.doors \subseteq Doors
    BY <1>5, <1>0 DEF MailDoors, doorVars, planVars, At, CheckRec
  <2>2. CASE Mishap /\ UNCHANGED <<told, bare>>
    BY <2>1, <2>2, <1>0 DEF Told1, At
  <2>3. CASE /\ told' = told \cup {w \in check.doors : w \in Doors => mark[w] = "not_found"}
             /\ bare' = (bare \/ check.doors \cap told # {})
    <3>1. \A d \in Doors : d \in told' => mark'[d] = "not_found"
      BY <2>1, <2>3, <1>0 DEF Told1
    <3>2. \A p \in WixPlans : p \in told' => p \in flagged'
      BY <2>1, <2>3, <1>0, <1>a DEF Told1
    <3>3. ~bare /\ check.doors \cap told = {}
      BY <2>1, <1>0 DEF Told1
    <3>4. ~bare'
      BY <2>3, <3>3
    <3> QED BY <2>1, <3>1, <3>2, <3>4 DEF Told1, At
  <2> QED BY <2>1, <2>2, <2>3 DEF MailsOnce
<1>6. CASE ComparePlans
  <2>1. UNCHANGED <<mark, bare>> /\ check'.at \in {"pick", "mail_plans"}
    BY <1>6, <1>0 DEF ComparePlans, GoesOn, MovesTo, doorVars, CheckRec
  <2>2. CASE flagged' = archived /\ told' = told \ (flagged \ archived) /\ check'.plans = archived \ flagged
    BY <2>1, <2>2, <1>0, <1>a DEF Told1, At, HealthTypeOK
  <2>3. CASE UNCHANGED <<flagged, told>> /\ check'.at = "pick"
    BY <2>1, <2>3, <1>0 DEF Told1, At
  <2>4. \/ flagged' = archived /\ told' = told \ (flagged \ archived) /\ check'.plans = archived \ flagged
        \/ UNCHANGED <<flagged, told>> /\ check'.at = "pick"
    BY <1>6, <1>0 DEF ComparePlans, GoesOn, MovesTo, CheckRec
  <2> QED BY <2>2, <2>3, <2>4
<1>7. CASE MailPlans
  <2>1. /\ UNCHANGED <<mark, flagged>> /\ check.at = "mail_plans" /\ check'.at = "pick" /\ MailsOnce(check.plans)
        /\ check.plans \subseteq WixPlans
    BY <1>7, <1>0 DEF MailPlans, doorVars, planVars, At, CheckRec
  <2>2. CASE Mishap /\ UNCHANGED <<told, bare>>
    BY <2>1, <2>2, <1>0 DEF Told1, At
  <2>3. CASE /\ told' = told \cup {w \in check.plans : w \in Doors => mark[w] = "not_found"}
             /\ bare' = (bare \/ check.plans \cap told # {})
    <3>1. \A d \in Doors : d \in told' => mark'[d] = "not_found"
      BY <2>1, <2>3, <1>0, <1>a DEF Told1
    <3>2. \A p \in WixPlans : p \in told' => p \in flagged'
      BY <2>1, <2>3, <1>0 DEF Told1, At
    <3>3. ~bare /\ check.plans \cap told = {}
      BY <2>1, <1>0 DEF Told1, At
    <3>4. ~bare'
      BY <2>3, <3>3
    <3> QED BY <2>1, <3>1, <3>2, <3>4 DEF Told1, At
  <2> QED BY <2>1, <2>2, <2>3 DEF MailsOnce
<1>8. CASE Tick
  <2>1. UNCHANGED <<mark, flagged, told, bare>> /\ check'.at = check.at /\ check'.doors = check.doors /\ check'.plans = check.plans
    BY <1>8, <1>0 DEF Tick, doorVars, planVars, At, CheckRec
  <2> QED BY <2>1, <1>0 DEF Told1, At
<1>9. CASE Outside
  <2>1. UNCHANGED <<flagged, bare, check>>
    BY <1>9 DEF Outside, SaveKey, KisiChangesItsMind, GroupComesOrGoes, GrantFindsNoGroup, AddDoorAgain,
       PlanArchivedOrBack, Edit, planVars
  <2>2. told' \subseteq told /\ \A d \in Doors : d \in told' => mark'[d] = "not_found"
    <3>1. ASSUME NEW d \in Doors, SetsMark(d, "not_found") \/ SetsMark(d, "ok")
          PROVE  told' \subseteq told /\ \A e \in Doors : e \in told' => mark'[e] = "not_found"
      BY <3>1, <1>0, <1>a DEF SetsMark, Told1
    <3>2. UNCHANGED <<mark, told>> \/ \E d \in Doors : SetsMark(d, "not_found") \/ SetsMark(d, "ok")
      BY <1>9 DEF Outside, SaveKey, KisiChangesItsMind, GroupComesOrGoes, GrantFindsNoGroup, AddDoorAgain,
         PlanArchivedOrBack, doorVars
    <3> QED BY <3>1, <3>2, <1>0 DEF Told1
  <2> QED BY <2>1, <2>2, <1>0 DEF Told1, At
<1> QED BY <1>1, <1>2, <1>3, <1>4, <1>5, <1>6, <1>7, <1>8, <1>9 DEF HealthNext, CheckStep

LEMMA HealthStep == HealthInv /\ [HealthNext]_healthVars => HealthInv'
<1>1. HealthInv /\ HealthNext => HealthInv'
  BY ShapeKept, WaitingKept, ApartKept, ToldKept DEF HealthInv
<1>2. HealthInv /\ UNCHANGED healthVars => HealthInv'
  <2> SUFFICES ASSUME HealthInv, UNCHANGED healthVars PROVE HealthInv'
    OBVIOUS
  <2>1. UNCHANGED <<key, accepted, record, groups, mark, archived, flagged, due, check, quiet, apart, told, bare, story, edits, mishaps>>
    BY DEF healthVars, keyVars, doorVars, planVars, mailVars
  <2>2. HealthShape'
    BY <2>1 DEF HealthInv, HealthShape, HealthTypeOK, At
  <2>3. Waiting1'
    BY <2>1, WaitsOn
  <2>4. Apart1'
    BY <2>1, ApartOn DEF InHand
  <2>5. Told1'
    BY <2>1 DEF HealthInv, Told1, At
  <2> QED BY <2>2, <2>3, <2>4, <2>5 DEF HealthInv
<1> QED BY <1>1, <1>2

LEMMA SomebodyHears == HealthInv => DeadKeyIsTold
<1> SUFFICES ASSUME HealthInv PROVE \E l \in Locs : quiet[l] - 1 < Day + Period + 2 * Lag
  BY DEF DeadKeyIsTold, Waited
<1>0. HealthShape /\ NeverStamped /\ StampedToday /\ StampedBefore
  BY DEF HealthInv, Waiting1
<1>1. CASE record.alerted = Never
  <2>1. PICK l \in Locs : quiet[l] =< 1 + check.lag \/ quiet[l] = 0
    BY <1>0, <1>1 DEF NeverStamped
  <2> QED BY <2>1, <1>0, HealthFacts
<1>2. CASE record.alerted \in 0 .. Day - 1
  <2>1. PICK l \in Locs : quiet[l] =< record.alerted + Lag + 1
    BY <1>0, <1>2 DEF StampedToday
  <2> QED BY <2>1, <1>2, <1>0, HealthFacts
<1>3. CASE record.alerted = Day
  <2>1. PICK l \in Locs : \/ quiet[l] =< Day + Lag + (Period - due)
                          \/ quiet[l] =< Day + Lag + Period + check.lag
    BY <1>0, <1>3 DEF StampedBefore
  <2> QED BY <2>1, <1>0, HealthFacts
<1> QED BY <1>0, <1>1, <1>2, <1>3, HealthFacts DEF Never

(* HealthCheck: for any locations, periods and failures, a gym whose key   *)
(* is refused is mailed within a day and a period and twice the time a run *)
(* takes, no more than once a day after the first, and of a door or a plan *)
(* once (core/hardware-health-check.js).                                   *)
THEOREM DeadKeysAreTold == HealthSpec => []HealthHolds
<1>1. HealthInv => HealthHolds
  BY SomebodyHears DEF HealthInv, HealthShape, Told1, MailsInMeasure, HealthHolds
<1> QED BY <1>1, HealthBegin, HealthStep, PTL DEF HealthSpec
=============================================================================
