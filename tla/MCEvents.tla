------------------------------ MODULE MCEvents ------------------------------
(***************************************************************************)
(* A Wix event on its way to its job (WebhookIngress) and a job on its way *)
(* to its end (JobQueue).  "part" says which of the two has something to   *)
(* do; the other rests.                                                    *)
(***************************************************************************)
EXTENDS WebhookIngress, JobQueue

VARIABLE part

MCRoute ==
  [e \in Events |->
     CASE e = "bad_shape" -> "invalid"
       [] e = "no_tenant" -> "unroutable"
       [] e = "no_type"   -> "unrecognised"
       [] OTHER           -> "routed"]
-----------------------------------------------------------------------------
W(m, p, e) == [who |-> m, plan |-> p, event |-> e]

NoJobs == [work |-> {}, codes |-> {}, clicks |-> 0, fails |-> 0, faults |-> 0, kinds |-> {}, hours |-> 0]

(* Three jobs of one person and a worker that stalls, dies and loses keys. *)
Crowd == [NoJobs EXCEPT
            !.work = {W("m1", "p1", "grant"), W("m1", "p2", "grant"), W("m1", "p1", "revoke")},
            !.codes = {"temporary"}, !.fails = 1, !.faults = 2,
            !.kinds = {"slow", "stall", "crash", "redis"}]

(* Two failures of one cause, and the buttons.                             *)
Letters == [NoJobs EXCEPT
              !.work = {W("m1", "p1", "grant"), W("m2", "p1", "grant")},
              !.codes = {"missing"}, !.clicks = 1, !.fails = 3, !.faults = 1,
              !.kinds = {"crash", "db", "mail", "redis"}, !.hours = 1]

(* Two plans of one person that fail alike.                                *)
TwoPlans == [NoJobs EXCEPT
               !.work = {W("m1", "p1", "grant"), W("m1", "p2", "grant")},
               !.codes = {"temporary", "unknown"}, !.clicks = 1, !.fails = 4, !.hours = 1]

QueueCases == {NoJobs, Crowd, Letters, TwoPlans}

(* A grant and a removal of one plan that fail alike.                      *)
Alike == {NoJobs, [NoJobs EXCEPT !.work = {W("m1", "p1", "grant"), W("m1", "p1", "revoke")},
                                 !.codes = {"temporary"}, !.fails = 4]}
-----------------------------------------------------------------------------
EventsInit ==
  /\ Init /\ JobInit
  /\ part \in {"ingress", "queue"}
  /\ (part = "queue") <=> (jobLeft # NoJobs)

EventsNext ==
  /\ UNCHANGED part
  /\ \/ part = "ingress" /\ Next    /\ UNCHANGED jobVars
     \/ part = "queue"   /\ JobNext /\ UNCHANGED vars

(* The fairness of the two, for the part at work.                          *)
EventsFairness ==
  /\ \A r \in Requests : WF_vars(part = "ingress" /\ Step(r))
  /\ \A e \in Events : WF_vars(part = "ingress" /\ \E r \in Requests : Deliver(r, e))
  /\ \A j \in JobIds : WF_jobVars(part = "queue" /\ Handed(j))
  /\ \A m \in Members : WF_jobVars(part = "queue" /\ Expire(m))
  /\ \A j \in JobIds, n \in 1 .. MaxRuns :
       WF_jobVars(part = "queue" /\ \E r \in runs : r.job = j /\ r.no = n /\ RunStep(r))
  /\ WF_jobVars(part = "queue" /\ \E l \in letters : LetterStep(l))
  /\ \A c \in Clicks : WF_jobVars(part = "queue" /\ ClickStep(c))

EventsSpec == EventsInit /\ [][EventsNext]_<<vars, jobVars, part>> /\ EventsFairness
-----------------------------------------------------------------------------
(* Every event that has a route becomes a job, and Wix learns so.          *)
EventsArrive == part = "ingress" => EventuallyQueued

(* And every job, time and again, has ended well or in a dead letter.      *)
EventsSettle == EventsArrive /\ JobsComeToAnEnd
=============================================================================
