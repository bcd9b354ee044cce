--------------------------- MODULE WebhookIngress ---------------------------
(***************************************************************************)
(* A Wix webhook from its delivery to its job and its answer:              *)
(* adapters/wix/wix-connector.js handleWebhook and                         *)
(* core/webhook-processor.js processIncoming.  Every await of the handler  *)
(* is a step, so deliveries of one event overlap: the connector answers    *)
(* 503 when its budget is spent and leaves the work running, and Wix sends *)
(* the event again until it has seen a 200.                                *)
(***************************************************************************)
EXTENDS Naturals, FiniteSets

CONSTANTS
  Events,      \* Wix event ids
  Route,       \* event |-> "routed", "unroutable", "unrecognised", "invalid"
  Requests,    \* the requests the server can hold at once
  Faults,      \* which of "slow", "crash", "add", "add_lost", "unmark",
               \* "db", "db_lost", "forget"
  MaxFaults    \* how many faults happen in all

ASSUME IngressAssumption ==
  /\ Route \in [Events -> {"routed", "unroutable", "unrecognised", "invalid"}]
  /\ MaxFaults \in Nat

VARIABLES
  processed,   \* processed_event_ids
  jobs,        \* the events whose job id BullMQ knows
  made,        \* event |-> how many jobs were made of it, counted to 2
  req,         \* request |-> what the handler is doing
  acked,       \* the events Wix has seen a 200 for
  faults,      \* faults so far
  happened     \* the kinds they were of

vars == <<processed, jobs, made, req, acked, faults, happened>>
-----------------------------------------------------------------------------
Free == [at |-> "free"]

Init ==
  /\ processed = {}
  /\ jobs = {}
  /\ made = [e \in Events |-> 0]
  /\ req = [r \in Requests |-> Free]
  /\ acked = {}
  /\ faults = 0
  /\ happened = {}

Fault(f) ==
  /\ f \in Faults /\ faults < MaxFaults
  /\ faults' = faults + 1
  /\ happened' = happened \cup {f}
NoFault == UNCHANGED <<faults, happened>>

Go(r, step) == req' = [req EXCEPT ![r].at = step]

(* Wix delivers an event it has no 200 for, once its last delivery of it   *)
(* was answered.                                                           *)
Deliver(r, e) ==
  /\ req[r] = Free
  /\ e \notin acked
  /\ \A x \in Requests : req[x] # Free /\ req[x].event = e => req[x].answered
  /\ req' = [req EXCEPT ![r] = [at |-> "check", event |-> e, answered |-> FALSE]]
  /\ UNCHANGED <<processed, jobs, made, acked, faults, happened>>

(* A mutant of Check: a duplicate is not looked for.                       *)
CheckAnew(r) ==
  /\ req[r].at = "check"
  /\ \/ NoFault /\ Go(r, IF Route[req[r].event] = "invalid" THEN "done" ELSE "mark")
     \/ Fault("db") /\ Go(r, "failed")
  /\ UNCHANGED <<processed, jobs, made, acked>>

(* Structure, then the duplicate check, whose result is used after the     *)
(* tenant is resolved and the attempt logged.                              *)
Check(r) ==
  LET e == req[r].event
  IN  /\ req[r].at = "check"
      /\ \/ NoFault /\ Go(r, IF Route[e] = "invalid" \/ e \in processed THEN "done" ELSE "mark")
         \/ Fault("db") /\ Route[e] # "invalid" /\ Go(r, "failed")
      /\ UNCHANGED <<processed, jobs, made, acked>>

(* The event is marked processed, though the database may fail to say so;  *)
(* an event of no tenant, of two tenants or of an unknown type ends here,  *)
(* acknowledged.                                                           *)
Mark(r) ==
  LET e == req[r].event
  IN  /\ req[r].at = "mark"
      /\ \/ /\ NoFault
            /\ processed' = processed \cup {e}
            /\ Go(r, IF Route[e] = "routed" THEN "add" ELSE "done")
         \/ Fault("db") /\ Go(r, "failed") /\ UNCHANGED processed
         \/ Fault("db_lost") /\ Go(r, "failed") /\ processed' = processed \cup {e}
      /\ UNCHANGED <<jobs, made, acked>>

Queued(e) ==
  /\ jobs' = jobs \cup {e}
  /\ made' = IF e \in jobs \/ made[e] = 2 THEN made ELSE [made EXCEPT ![e] = @ + 1]

(* The queue takes the job, which a job id it knows makes a no-op, or      *)
(* refuses it; or it takes the job and its answer is lost.                 *)
Add(r) ==
  LET e == req[r].event
  IN  /\ req[r].at = "add"
      /\ \/ NoFault /\ Queued(e) /\ Go(r, "done")
         \/ Fault("add_lost") /\ Queued(e) /\ Go(r, "unmark")
         \/ Fault("add") /\ Go(r, "unmark") /\ UNCHANGED <<jobs, made>>
      /\ UNCHANGED <<processed, acked>>

(* A refused job takes the mark off again; a failure to is only logged.    *)
Unmark(r) ==
  /\ req[r].at = "unmark"
  /\ \/ NoFault /\ processed' = processed \ {req[r].event}
     \/ Fault("unmark") /\ UNCHANGED processed
  /\ Go(r, "failed")
  /\ UNCHANGED <<jobs, made, acked>>

(* A mutant of Answer: the request is never let go.                        *)
AnswerHeld(r) ==
  /\ req[r].at \in {"done", "failed"}
  /\ acked' = IF req[r].at = "done" /\ ~req[r].answered THEN acked \cup {req[r].event} ELSE acked
  /\ req' = [req EXCEPT ![r].at = "answered", ![r].answered = TRUE]
  /\ UNCHANGED <<processed, jobs, made, faults, happened>>

(* A mutant of Answer: 200, whatever became of the work.                   *)
AnswerWell(r) ==
  /\ req[r].at \in {"done", "failed"}
  /\ acked' = acked \cup {req[r].event}
  /\ req' = [req EXCEPT ![r] = Free]
  /\ UNCHANGED <<processed, jobs, made, faults, happened>>

(* The work is over: 200 or 500, unless a 503 went out already.            *)
Answer(r) ==
  /\ req[r].at \in {"done", "failed"}
  /\ acked' = IF req[r].at = "done" /\ ~req[r].answered THEN acked \cup {req[r].event} ELSE acked
  /\ req' = [req EXCEPT ![r] = Free]
  /\ UNCHANGED <<processed, jobs, made, faults, happened>>

(* A mutant of BudgetOut: a late delivery is acknowledged.                 *)
BudgetAcks(r) ==
  /\ req[r].at \in {"check", "mark", "add", "unmark"}
  /\ ~req[r].answered
  /\ Fault("slow")
  /\ acked' = acked \cup {req[r].event}
  /\ req' = [req EXCEPT ![r].answered = TRUE]
  /\ UNCHANGED <<processed, jobs, made>>

(* ACK_BUDGET_MS passes: 503, and the work goes on.                        *)
BudgetOut(r) ==
  /\ req[r].at \in {"check", "mark", "add", "unmark"}
  /\ ~req[r].answered
  /\ Fault("slow")
  /\ req' = [req EXCEPT ![r].answered = TRUE]
  /\ UNCHANGED <<processed, jobs, made, acked>>

(* The process stops and restarts; Wix sees broken connections.            *)
Crash ==
  /\ \E r \in Requests : req[r] # Free
  /\ Fault("crash")
  /\ req' = [r \in Requests |-> Free]
  /\ UNCHANGED <<processed, jobs, made, acked>>

(* BullMQ keeps the last hundred completed jobs; an older job's id is free *)
(* again.                                                                  *)
Forget(e) ==
  /\ "forget" \in Faults
  /\ e \in jobs
  /\ jobs' = jobs \ {e}
  /\ UNCHANGED <<processed, made, req, acked, faults, happened>>

Step(r) == Check(r) \/ Mark(r) \/ Add(r) \/ Unmark(r) \/ Answer(r)

Next ==
  \/ \E r \in Requests : Step(r) \/ BudgetOut(r) \/ \E e \in Events : Deliver(r, e)
  \/ Crash
  \/ \E e \in Events : Forget(e)

Spec == Init /\ [][Next]_vars

(* Wix keeps sending what it has no 200 for, and a handler that runs gets  *)
(* on with its work.                                                       *)
Fairness ==
  /\ \A r \in Requests : WF_vars(Step(r))
  /\ \A e \in Events : WF_vars(\E r \in Requests : Deliver(r, e))

FairSpec == Spec /\ Fairness
-----------------------------------------------------------------------------
TypeOK ==
  /\ processed \subseteq Events /\ jobs \subseteq Events /\ acked \subseteq Events
  /\ made \in [Events -> 0 .. 2]
  /\ req \in [Requests -> {Free} \cup
       [at : {"check", "mark", "add", "unmark", "done", "failed"}, event : Events, answered : BOOLEAN]]
  /\ faults \in 0 .. MaxFaults
  /\ happened \subseteq Faults

(* A handler outlived its answer, or the queue took a job and did not say. *)
Late == happened \cap {"slow", "add_lost"} # {}

(* An event Wix will not send again has its job, or a handler that is      *)
(* about to queue it: a 200 goes out only for what is stored and queued    *)
(* (wix-connector.js, step 2).  It takes a crash, an answer of the         *)
(* database that is lost, a mark that cannot be taken off, or a job that   *)
(* is refused after the 503 went out, to lose one.                         *)
Coming(e) == \E r \in Requests : req[r] # Free /\ req[r].event = e /\ req[r].at = "add"
Sound     == happened \cap {"crash", "unmark", "db_lost"} = {} /\ ~({"slow", "add"} \subseteq happened)
AckedIsQueued ==
  Sound => \A e \in acked : Route[e] = "routed" => made[e] > 0 \/ Coming(e)

(* No event is made a job twice, even when the job of the first time is    *)
(* long done and forgotten (webhook-processor.js: marked processed before  *)
(* it is queued, so a crash mid-way cannot run it twice).                  *)
OncePerEvent == ~Late => \A e \in Events : made[e] <= 1

(* Every event that has a route becomes a job, and Wix learns so, as long  *)
(* as nothing of the above gets in the way.                                *)
EventuallyQueued == \A e \in Events :
  []<>(Sound => e \in acked /\ (Route[e] = "routed" => made[e] > 0))
-----------------------------------------------------------------------------
(* The fate of a routed event, as EventInbox sees it: what is marked and   *)
(* has neither a job nor a handler that will queue it or take the mark off *)
(* is lost.                                                                *)
Routed == {e \in Events : Route[e] = "routed"}
Fate(e) ==
  IF made[e] = 1 THEN "queued"
  ELSE IF made[e] = 2 THEN "again"
  ELSE IF e \in processed
          /\ ~\E r \in Requests : req[r] # Free /\ req[r].event = e /\ req[r].at \in {"add", "unmark"}
       THEN "lost" ELSE "new"

Inbox == INSTANCE EventInbox WITH
  fate <- [e \in Routed |-> Fate(e)], told <- acked \cap Routed, late <- Late

(* The handler keeps the inbox's promise: an event's fate is decided once  *)
(* and no 200 goes out before it is, whatever crashes, is refused or is    *)
(* forgotten (webhook-processor.js and wix-connector.js, the whole of the  *)
(* handler).                                                               *)
KeepsInbox == Inbox!Spec
-----------------------------------------------------------------------------
(* While no handler outlives its answer, an event has one handler at most. *)
Busy(r, e) == req[r] # Free /\ req[r].event = e

Serial ==
  /\ \A r \in Requests : req[r] # Free => ~req[r].answered
  /\ \A e \in Events, r, x \in Requests : Busy(r, e) /\ Busy(x, e) => r = x

(* What makes OncePerEvent inductive: a handler past the duplicate check   *)
(* works on an event that has no job yet, and what has a job is marked; a  *)
(* handler that is done with a routed event leaves it marked.              *)
OnceInv ==
  /\ Serial
  /\ \A e \in Events : made[e] <= 1 /\ (made[e] > 0 => e \in processed)
  /\ \A r \in Requests :
       /\ req[r].at \in {"mark", "add", "unmark"} => made[req[r].event] = 0
       /\ req[r].at = "add" => req[r].event \in processed
       /\ req[r].at = "mark" => req[r].event \notin processed
       /\ req[r].at = "done" /\ Route[req[r].event] = "routed" => req[r].event \in processed

(* What makes AckedIsQueued inductive while handlers answer in time: a     *)
(* mark stands for a job or for a handler that will queue it or take the   *)
(* mark off.                                                               *)
AckInv ==
  /\ Serial
  /\ jobs \subseteq {e \in Events : made[e] > 0}
  /\ \A e \in Events : Route[e] = "routed" =>
       /\ e \in acked => made[e] > 0
       /\ e \in processed =>
            made[e] > 0 \/ \E r \in Requests : Busy(r, e) /\ req[r].at \in {"add", "unmark"}
       /\ \A r \in Requests : Busy(r, e) /\ req[r].at = "done" => made[e] > 0

(* And while the queue refuses no job: a mark, an answer and a handler     *)
(* that is done stand for a job or for a handler that will queue it, and   *)
(* only what has a job gets its mark taken off.                            *)
AddInv ==
  /\ jobs \subseteq {e \in Events : made[e] > 0}
  /\ \A e \in Events : Route[e] = "routed" =>
       /\ (e \in acked \/ e \in processed \/ \E r \in Requests : Busy(r, e) /\ req[r].at = "done")
            => made[e] > 0 \/ Coming(e)
       /\ \A r \in Requests : Busy(r, e) /\ req[r].at = "unmark" => made[e] > 0

(* The three, each under the faults it stands; a run checks it.            *)
IngressInv ==
  /\ TypeOK
  /\ ~Late => OnceInv
  /\ Sound /\ "slow" \notin happened => AckInv
  /\ Sound /\ "add" \notin happened => AddInv
=============================================================================
