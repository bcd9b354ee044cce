------------------------------ MODULE JobQueue ------------------------------
(***************************************************************************)
(* How a job is run, and what becomes of one that fails: the lock that     *)
(* keeps two jobs of one person apart (core/queue-worker.js,               *)
(* withMemberLock), the attempts BullMQ allows, the dead letter and the    *)
(* mail about it (core/retry-engine.js, core/error-guidance.js) and the    *)
(* buttons that send it round again or put it away (admin/routes/errors.js *)
(* and operator.js).                                                       *)
(*                                                                         *)
(* What a job does to doors and rows is MemberAccess's; here a run only    *)
(* succeeds or fails with a code.                                          *)
(***************************************************************************)
EXTENDS Integers, FiniteSets, Sequences

CONSTANTS
  Members, Plans,
  JobIds,      \* ids BullMQ gives, taken in turn
  Clicks,      \* requests of the error pages that may run at once
  Codes,       \* the codes a failure may carry
  Attempts,    \* attempts of a job the webhook processor's queue adds
  Often,       \* occurred_count from which an error "keeps happening"
  JobScenarios,
  NoJob

JobFaults == {"slow", "stall", "crash", "redis", "db", "mail", "bounce"}

(* What there is to do at the start, who presses what, what goes wrong.    *)
JobScenario ==
  [work : SUBSET [who : Members, plan : Plans, event : {"grant", "revoke"}],
   codes : SUBSET Codes, clicks : Nat, fails : Nat, faults : Nat,
   kinds : SUBSET JobFaults, hours : Nat]

ASSUME JobAssumption ==
  /\ JobIds = 1 .. Cardinality(JobIds)
  /\ Codes \subseteq {"temporary", "locked", "missing", "refused", "unknown"}
  /\ "unknown" \in Codes  \* what a failure without a code is listed as
  /\ Attempts \in Nat \ {0} /\ Often \in Nat
  /\ NoJob \notin JobIds /\ IsFiniteSet(JobIds)
  /\ \A sc \in JobScenarios :
       /\ sc \in JobScenario /\ IsFiniteSet(sc.work)
       /\ Cardinality(sc.work) + sc.clicks <= Cardinality(JobIds)

VARIABLES
  queue,       \* job |-> where it is
  runs,        \* runs under way: [job, no, at]
  memberLock,  \* member |-> the job whose id the Redis key holds
  letters,     \* failed handlers under way
  errorQueue,  \* the error_queue table, rows in the order they were made
  clicks,      \* click |-> the request under way
  jobLeft,     \* the scenario, with what of it may still happen
  jobHappened  \* the kinds of fault there were, and "crossed"

jobVars == <<queue, runs, memberLock, letters, errorQueue, clicks, jobLeft, jobHappened>>
-----------------------------------------------------------------------------
Unused == [at |-> "unused"]

Job(w, max, n) ==
  [at |-> "waiting", work |-> w, made |-> 0, max |-> max, run |-> 0, row |-> n, stalls |-> 0]

Exists(j) == queue[j].at # "unused"
Who(j)    == queue[j].work.who

(* The first jobs; the numbers tell them apart and no more.                *)
Numbered(ws) ==
  CHOOSE f \in [1 .. Cardinality(ws) -> ws] : \A a, b \in DOMAIN f : f[a] = f[b] => a = b

JobInit ==
  /\ jobLeft \in JobScenarios
  /\ queue = [j \in JobIds |-> IF j <= Cardinality(jobLeft.work)
                               THEN Job(Numbered(jobLeft.work)[j], Attempts, 0) ELSE Unused]
  /\ runs = {}
  /\ memberLock = [m \in Members |-> NoJob]
  /\ letters = {}
  /\ errorQueue = <<>>
  /\ clicks = [c \in Clicks |-> Unused]
  /\ jobHappened = {}

JobFault(f) ==
  /\ f \in jobLeft.kinds /\ jobLeft.faults > 0
  /\ jobLeft' = [jobLeft EXCEPT !.faults = @ - 1]
  /\ jobHappened' = jobHappened \cup {f}
NoMishap == UNCHANGED <<jobLeft, jobHappened>>

Put(j, changed) == queue' = [queue EXCEPT ![j] = changed]
-----------------------------------------------------------------------------
(* A run of a job.  Only the job's last run moves the job: an earlier one, *)
(* of a job that was given out again, has lost its BullMQ token.           *)

Run(j, n, at) == [job |-> j, no |-> n, at |-> at]
Current(r)    == queue[r.job].at = "active" /\ queue[r.job].run = r.no
Ends(r)       == runs' = runs \ {r}
Goes(r, at)   == runs' = (runs \ {r}) \cup {[r EXCEPT !.at = at]}

(* BullMQ hands out a waiting job, to a run with a number of its own.      *)
Take(j) ==
  LET n == CHOOSE k \in 1 .. Cardinality(runs) + 1 : \A r \in runs : r.job = j => r.no # k
  IN
  /\ queue[j].at = "waiting"
  /\ Put(j, [queue[j] EXCEPT !.at = "active", !.run = n])
  /\ runs' = runs \cup {Run(j, n, "begun")}
  /\ NoMishap
  /\ UNCHANGED <<memberLock, letters, errorQueue, clicks>>

(* withMemberLock: SET NX with the job's id as its owner.                  *)
Lock(r) ==
  /\ r.at = "begun" /\ memberLock[Who(r.job)] = NoJob
  /\ memberLock' = [memberLock EXCEPT ![Who(r.job)] = r.job]
  /\ Goes(r, "working")
  /\ NoMishap
  /\ UNCHANGED <<queue, letters, errorQueue, clicks>>

(* Taken: the job waits a second and comes back, no attempt spent.         *)
Park(r) ==
  /\ r.at = "begun" /\ memberLock[Who(r.job)] # NoJob
  /\ IF Current(r) THEN Put(r.job, [queue[r.job] EXCEPT !.at = "delayed"]) ELSE UNCHANGED queue
  /\ Ends(r)
  /\ NoMishap
  /\ UNCHANGED <<memberLock, letters, errorQueue, clicks>>

Wake(j) ==
  /\ queue[j].at = "delayed"
  /\ Put(j, [queue[j] EXCEPT !.at = "waiting"])
  /\ NoMishap
  /\ UNCHANGED <<runs, memberLock, letters, errorQueue, clicks>>

(* A mutant of Freed: whoever has the lock loses it.                       *)
FreedAnyway(r) == [memberLock EXCEPT ![Who(r.job)] = NoJob]

(* RELEASE_IF_OWNER_LUA                                                    *)
Freed(r) == [memberLock EXCEPT ![Who(r.job)] = IF @ = r.job THEN NoJob ELSE @]

(* The release may not reach Redis; the key then goes by its TTL.          *)
Release(r) == \/ memberLock' = Freed(r) /\ NoMishap
              \/ UNCHANGED memberLock /\ JobFault("redis")

Succeed(r) ==
  /\ r.at = "working"
  /\ IF Current(r) THEN Put(r.job, [queue[r.job] EXCEPT !.at = "done"]) ELSE UNCHANGED queue
  /\ Ends(r)
  /\ Release(r)
  /\ UNCHANGED <<letters, errorQueue, clicks>>

(* A 4xx other than 429 is thrown as an UnrecoverableError.                *)
Unrecoverable(code) == code \in {"missing", "refused"}

Letter(j, code) == [job |-> j, code |-> code, at |-> "find", row |-> 0, new |-> FALSE]

(* worker.on('failed'): the last attempt, or an unrecoverable one.         *)
DeadLettered(j, code) == Unrecoverable(code) \/ queue[j].made + 1 >= queue[j].max

(* An attempt fails with a code; one that was not the last waits again.    *)
Fail(r, code) ==
  LET j    == r.job
      over == Unrecoverable(code) \/ queue[j].made + 1 >= queue[j].max
  IN  /\ r.at = "working" /\ code \in jobLeft.codes /\ jobLeft.fails > 0
      /\ jobLeft' = [jobLeft EXCEPT !.fails = @ - 1] /\ UNCHANGED jobHappened
      /\ memberLock' = Freed(r)
      /\ Ends(r)
      /\ IF Current(r)
         THEN /\ Put(j, [queue[j] EXCEPT !.at = IF over THEN "failed" ELSE "delayed", !.made = @ + 1])
              /\ letters' = IF DeadLettered(j, code) THEN letters \cup {Letter(j, code)} ELSE letters
         ELSE UNCHANGED <<queue, letters>>
      /\ UNCHANGED <<errorQueue, clicks>>

(* The key's TTL: of a run that is gone, or of one that takes too long.    *)
Expire(m) ==
  /\ memberLock[m] # NoJob
  /\ IF \E r \in runs : r.job = memberLock[m] /\ r.at = "working"
     THEN JobFault("slow") ELSE NoMishap
  /\ memberLock' = [memberLock EXCEPT ![m] = NoJob]
  /\ runs' = {IF r.job = memberLock[m] /\ r.at = "working" THEN [r EXCEPT !.at = "lapsed"] ELSE r : r \in runs}
  /\ UNCHANGED <<queue, letters, errorQueue, clicks>>

(* A lapsed run ends like any other.                                       *)
LapsedEnds(r) ==
  /\ r.at = "lapsed"
  /\ IF Current(r) THEN Put(r.job, [queue[r.job] EXCEPT !.at = "done"]) ELSE UNCHANGED queue
  /\ memberLock' = Freed(r)
  /\ Ends(r)
  /\ NoMishap
  /\ UNCHANGED <<letters, errorQueue, clicks>>

(* The process dies: its runs and its failed handlers are gone.            *)
WorkerCrash ==
  /\ runs # {} \/ letters # {}
  /\ JobFault("crash")
  /\ runs' = {} /\ letters' = {}
  /\ UNCHANGED <<queue, memberLock, errorQueue, clicks>>

(* BullMQ's maxStalledCount, which startWorker leaves at its default.      *)
MaxStalledCount == 1

(* BullMQ no longer hears of a job's run: it is gone, or it only blocked   *)
(* the event loop.                                                         *)
Unheard(j) ==
  /\ queue[j].at = "active"
  /\ IF \E r \in runs : r.job = j /\ Current(r) THEN JobFault("stall") ELSE NoMishap

(* A mutant of Stalled: only a job whose run is there is given out again.  *)
StalledIfRunning(j) ==
  /\ Unheard(j) /\ \E r \in runs : r.job = j /\ Current(r)
  /\ queue[j].stalls < MaxStalledCount
  /\ Put(j, [queue[j] EXCEPT !.at = "waiting", !.stalls = @ + 1])
  /\ UNCHANGED <<runs, memberLock, letters, errorQueue, clicks>>

(* The first time, the job is given out again.                             *)
Stalled(j) ==
  /\ Unheard(j) /\ queue[j].stalls < MaxStalledCount
  /\ Put(j, [queue[j] EXCEPT !.at = "waiting", !.stalls = @ + 1])
  /\ UNCHANGED <<runs, memberLock, letters, errorQueue, clicks>>

(* The next time BullMQ fails it ("job stalled more than allowable         *)
(* limit").  That is no UnrecoverableError: worker.on('failed') writes a   *)
(* letter only if the attempts are spent, the two runs that stalled being  *)
(* counted among them or not.                                              *)
StalledAgain(j) ==
  /\ Unheard(j) /\ queue[j].stalls >= MaxStalledCount
  /\ Put(j, [queue[j] EXCEPT !.at = "failed", !.stalls = @ + 1])
  /\ \/ UNCHANGED letters
     \/ /\ queue[j].made + queue[j].stalls + 1 >= queue[j].max
        /\ letters' = letters \cup {Letter(j, "unknown")}
  /\ UNCHANGED <<runs, memberLock, errorQueue, clicks>>

(* What BullMQ does by itself for a job.                                   *)
Handed(j) == Exists(j) /\ (Take(j) \/ Wake(j) \/ Stalled(j) \/ StalledAgain(j))
-----------------------------------------------------------------------------
(* error-guidance.js: who must act, and whether Retry helps.               *)

Guide(owner, retry, mayDismiss) == [owner |-> owner, retry |-> retry, mayDismiss |-> mayDismiss]

(* BY_CODE, and what it becomes of a removal.                              *)
BaseGuide(code, event) ==
  LET g == CASE code = "temporary" -> Guide("nobody", "now", FALSE)
             [] code = "locked"    -> Guide("nobody", "none", FALSE)
             [] code = "refused"   -> Guide("accesssync", "none", FALSE)
             [] code = "unknown"   -> Guide("accesssync", "now", FALSE)
             [] code = "missing"   -> IF event = "revoke" THEN Guide("accesssync", "none", TRUE)
                                      ELSE Guide("gym", "after_fix", FALSE)
  IN  IF event = "revoke" THEN [g EXCEPT !.retry = "none"] ELSE g

(* guidanceFor: what was to clear by itself and is a day old, and what     *)
(* keeps happening, is AccessSync's.                                       *)
GuidanceFor(row) ==
  LET base  == BaseGuide(row.code, row.work.event)
      aged  == IF base.owner = "nobody" /\ row.old THEN [base EXCEPT !.owner = "accesssync"] ELSE base
      often == row.count >= Often
  IN  CASE often /\ aged.owner = "accesssync" /\ aged.retry = "now" -> [aged EXCEPT !.retry = "none"]
        [] often /\ aged.owner = "nobody" -> [aged EXCEPT !.owner = "accesssync", !.retry = "none"]
        [] OTHER -> aged

(* retryRefusal, and the routes' own refusal of removals.                  *)
RetryRefused(row) == row.work.event = "revoke" \/ GuidanceFor(row).retry = "none"

(* dismissRefusal, asked of a row read without its created_at.             *)
DismissRefused(row) ==
  LET g == GuidanceFor([row EXCEPT !.old = FALSE])
  IN  g.owner = "accesssync" /\ ~g.mayDismiss
-----------------------------------------------------------------------------
(* handleFailure, one step at a time for each letter.                      *)

Row(w, code) ==
  [work |-> w, code |-> code, status |-> "failed", recent |-> FALSE, fresh |-> TRUE,
   old |-> FALSE, count |-> 1, told |-> "no"]

(* The row a failure counts up: same person, code and plan, open or        *)
(* resolved less than a day ago.                                           *)
SameProblem(row, w, code) ==
  /\ row.work.who = w.who /\ row.work.plan = w.plan /\ row.code = code
  /\ row.status = "failed" \/ row.recent

Matches(l) == {i \in DOMAIN errorQueue : SameProblem(errorQueue[i], queue[l.job].work, l.code)}

(* An open one first, then the last that was made.                         *)
Match(l) ==
  LET open == {i \in Matches(l) : errorQueue[i].status = "failed"}
      best == IF open # {} THEN open ELSE Matches(l)
  IN  IF best = {} THEN 0 ELSE CHOOSE i \in best : \A k \in best : k <= i

Moves(l, changed) == letters' = (letters \ {l}) \cup {changed}

Find(l) ==
  /\ l.at = "find"
  /\ \/ NoMishap /\ Moves(l, [l EXCEPT !.at = "write", !.row = Match(l)])
     \/ JobFault("db") /\ Moves(l, [l EXCEPT !.at = "tell", !.row = 0, !.new = TRUE])
  /\ UNCHANGED <<queue, runs, memberLock, errorQueue, clicks>>

Reopened(row) == [row EXCEPT !.status = "failed", !.recent = FALSE, !.count = @ + 1]

(* A row is counted up and the matter ends there, or a row is made.  If    *)
(* neither could be written the mail goes all the same.                    *)
Write(l) ==
  /\ l.at = "write"
  /\ \/ /\ l.row # 0
        /\ errorQueue' = [errorQueue EXCEPT ![l.row] = Reopened(@)]
        /\ letters' = letters \ {l}
        /\ NoMishap
     \/ /\ l.row = 0
        /\ errorQueue' = Append(errorQueue, Row(queue[l.job].work, l.code))
        /\ Moves(l, [l EXCEPT !.at = "cause", !.row = Len(errorQueue) + 1, !.new = TRUE])
        /\ NoMishap
     \/ /\ JobFault("db")
        /\ Moves(l, [l EXCEPT !.at = "tell", !.row = 0, !.new = TRUE])
        /\ UNCHANGED errorQueue
  /\ UNCHANGED <<queue, runs, memberLock, clicks>>

(* _alertedRecentlyForCause: an earlier row of the same code, and the same *)
(* owner, made within the hour.                                            *)
AlertedRecently(i) ==
  \E k \in 1 .. i - 1 :
    /\ errorQueue[k].code = errorQueue[i].code /\ errorQueue[k].fresh
    /\ BaseGuide(errorQueue[k].code, errorQueue[k].work.event).owner
         = BaseGuide(errorQueue[i].code, errorQueue[i].work.event).owner

Cause(l) ==
  /\ l.at = "cause"
  /\ IF AlertedRecently(l.row)
     THEN /\ errorQueue' = [errorQueue EXCEPT ![l.row].told = "spared"]
          /\ letters' = letters \ {l}
     ELSE /\ Moves(l, [l EXCEPT !.at = "tell"])
          /\ UNCHANGED errorQueue
  /\ NoMishap
  /\ UNCHANGED <<queue, runs, memberLock, clicks>>

(* _notifyOperator: a mail, or a line for the digest if it does not go.    *)
Tell(l) ==
  /\ l.at = "tell"
  /\ LET Told(how) == IF l.row = 0 THEN UNCHANGED errorQueue
                      ELSE errorQueue' = [errorQueue EXCEPT ![l.row].told = how]
     IN  \/ NoMishap /\ Told("mailed")
         \/ JobFault("mail") /\ Told("logged")
  /\ letters' = letters \ {l}
  /\ UNCHANGED <<queue, runs, memberLock, clicks>>

LetterStep(l) == Find(l) \/ Write(l) \/ Cause(l) \/ Tell(l)
-----------------------------------------------------------------------------
(* The error pages.  A click reads the row, whatever its status.           *)

Asked(i, at) == [at |-> at, row |-> i, job |-> NoJob]

Open(c, i, at) ==
  /\ clicks[c] = Unused /\ i \in DOMAIN errorQueue /\ jobLeft.clicks > 0
  /\ clicks' = [clicks EXCEPT ![c] = Asked(i, at)]
  /\ jobLeft' = [jobLeft EXCEPT !.clicks = @ - 1] /\ UNCHANGED jobHappened
  /\ UNCHANGED <<queue, runs, memberLock, letters, errorQueue>>

PressRetry(c, i) ==
  /\ i \in DOMAIN errorQueue /\ ~RetryRefused(errorQueue[i])
  /\ Open(c, i, "add")

PressDismiss(c, i, role) ==
  /\ i \in DOMAIN errorQueue
  /\ role = "gym" => ~DismissRefused(errorQueue[i])
  /\ Open(c, i, "resolve")

NextId == CHOOSE j \in JobIds : ~Exists(j) /\ \A k \in JobIds : k < j => Exists(k)

(* The saved event is queued again: by a gym with three attempts, by the   *)
(* owner's page with none to spare.  A queue that is not there ends it.    *)
AddAgain(c, max) ==
  LET i == clicks[c].row
  IN  /\ clicks[c].at = "add"
      /\ \/ /\ \E j \in JobIds : ~Exists(j)
            /\ Put(NextId, Job(errorQueue[i].work, max, i))
            /\ clicks' = [clicks EXCEPT ![c] = [@ EXCEPT !.at = "resolve", !.job = NextId]]
            /\ NoMishap
         \/ /\ JobFault("redis")
            /\ clicks' = [clicks EXCEPT ![c] = Unused]
            /\ UNCHANGED queue
      /\ UNCHANGED <<runs, memberLock, letters, errorQueue>>

(* ... and the row is resolved, what has become of the job meanwhile not   *)
(* being asked.                                                            *)
Resolve(c) ==
  LET i == clicks[c].row
      crossed == /\ clicks[c].job # NoJob
                 /\ \E j \in JobIds : /\ j >= clicks[c].job /\ queue[j].at = "failed"
                                      /\ Who(j) = errorQueue[i].work.who
                                      /\ queue[j].work.plan = errorQueue[i].work.plan
  IN  /\ clicks[c].at = "resolve"
      /\ \/ /\ errorQueue' = [errorQueue EXCEPT ![i] = [@ EXCEPT !.status = "resolved", !.recent = TRUE]]
            /\ UNCHANGED jobLeft
            /\ jobHappened' = jobHappened \cup (IF crossed THEN {"crossed"} ELSE {})
                                          \cup (IF clicks[c].job = NoJob THEN {"dismissed"} ELSE {})
         \/ JobFault("db") /\ UNCHANGED errorQueue
      /\ clicks' = [clicks EXCEPT ![c] = Unused]
      /\ UNCHANGED <<queue, runs, memberLock, letters>>

(* An hour goes by, and with the next one a day.                           *)
TimePasses ==
  /\ jobLeft.hours > 0
  /\ jobLeft' = [jobLeft EXCEPT !.hours = @ - 1] /\ UNCHANGED jobHappened
  /\ errorQueue' = [i \in DOMAIN errorQueue |->
       [errorQueue[i] EXCEPT !.fresh = FALSE, !.old = ~errorQueue[i].fresh,
                             !.recent = @ /\ errorQueue[i].fresh]]
  /\ UNCHANGED <<queue, runs, memberLock, letters, clicks>>

RunStep(r) ==
  \/ Lock(r) \/ Park(r) \/ Succeed(r) \/ LapsedEnds(r)
  \/ \E code \in Codes : Fail(r, code)

ClickStep(c) == Resolve(c) \/ \E max \in {1, Attempts} : AddAgain(c, max)

JobNext ==
  \/ \E j \in JobIds : Handed(j)
  \/ \E r \in runs : RunStep(r)
  \/ \E m \in Members : Expire(m)
  \/ \E l \in letters : LetterStep(l)
  \/ \E c \in Clicks : \/ \E i \in DOMAIN errorQueue :
                            PressRetry(c, i) \/ \E role \in {"gym", "owner"} : PressDismiss(c, i, role)
                       \/ ClickStep(c)
  \/ WorkerCrash
  \/ TimePasses

JobSpec == JobInit /\ [][JobNext]_jobVars

(* Runs of one job there may be at once: the last, and the one that was    *)
(* going when the job was given out again.                                 *)
MaxRuns == MaxStalledCount + 1

(* Timers fire, keys expire, the worker and the handlers go on.            *)
JobFairness ==
  /\ \A j \in JobIds : WF_jobVars(Handed(j))
  /\ \A m \in Members : WF_jobVars(Expire(m))
  /\ \A j \in JobIds, n \in 1 .. MaxRuns :
       WF_jobVars(\E r \in runs : r.job = j /\ r.no = n /\ RunStep(r))
  /\ WF_jobVars(\E l \in letters : LetterStep(l))
  /\ \A c \in Clicks : WF_jobVars(ClickStep(c))

JobFairSpec == JobSpec /\ JobFairness
-----------------------------------------------------------------------------
(* Properties.                                                             *)

Works(r) == r.at \in {"working", "lapsed"}

JobTypeOK ==
  /\ \A j \in JobIds : Exists(j) =>
       /\ queue[j].at \in {"waiting", "delayed", "active", "done", "failed"}
       /\ queue[j].made \in 0 .. queue[j].max
       /\ queue[j].stalls \in 0 .. MaxStalledCount + 1
  /\ \A r \in runs : Exists(r.job) /\ r.no \in Nat \ {0}
  /\ \A m \in Members : memberLock[m] \in JobIds \cup {NoJob}
  /\ \A l \in letters : queue[l.job].at = "failed" /\ l.row \in 0 .. Len(errorQueue)
  /\ \A i \in DOMAIN errorQueue : errorQueue[i].count >= 1

(* Two runs for one person never overlap, unless the key of one of them    *)
(* ran out under it: a run never frees a lock the TTL has given to another *)
(* job (queue-worker.js, withMemberLock).                                  *)
OneRunPerMember ==
  /\ JobTypeOK
  /\ "stall" \notin jobHappened =>
       \A r \in runs : r.at = "working" => memberLock[Who(r.job)] = r.job

AllSettled == letters = {} /\ runs = {} /\ \A c \in Clicks : clicks[c] = Unused
              /\ \A j \in JobIds : queue[j].at \notin {"waiting", "delayed", "active"}

(* A job that was failed for stalling has no error of its own to show.     *)
HasFailed(j) == queue[j].at = "failed" /\ queue[j].stalls <= MaxStalledCount

(* A job that failed for good is on the error list, under its person and   *)
(* plan, until someone deals with it: it is never simply gone.  The        *)
(* exceptions are a job that BullMQ failed because it stalled twice, which *)
(* may be on no list at all, a database that is down, a process that dies  *)
(* in the failed handler, a Dismiss, and a Retry whose job, or a later one *)
(* of the same plan, fails before its click is done.  A job that stalled   *)
(* once is no exception.                                                   *)
FailuresShow ==
  AllSettled /\ jobHappened \cap {"db", "crash", "crossed", "dismissed"} = {} =>
    \A j \in JobIds : HasFailed(j) =>
      \/ \E i \in DOMAIN errorQueue : /\ errorQueue[i].status = "failed"
                                      /\ errorQueue[i].work.who = Who(j)
                                      /\ errorQueue[i].work.plan = queue[j].work.plan
      \/ \E k \in JobIds : k > j /\ Exists(k) /\ queue[k].row # 0
                             /\ queue[k].work.who = Who(j) /\ queue[k].work.plan = queue[j].work.plan

(* ... and each under the event that failed: a removal that failed is not  *)
(* counted on the row of a grant, whose Retry sends the grant.             *)
RowsKeepTheirEvent ==
  AllSettled /\ jobHappened \cap {"db", "crash", "crossed", "dismissed"} = {} =>
    \A j \in JobIds : HasFailed(j) =>
      \/ \E i \in DOMAIN errorQueue : errorQueue[i].work = queue[j].work
      \/ queue[j].row # 0

(* A burst is never silent: a row whose mail was spared has an earlier row *)
(* of its cause that was mailed, or whose failure to be is on the alert    *)
(* list (retry-engine.js, _alertedRecentlyForCause).                       *)
SomeoneWasTold ==
  "crash" \notin jobHappened =>
  \A i \in DOMAIN errorQueue : errorQueue[i].told = "spared" =>
    \E k \in 1 .. i - 1 :
      /\ errorQueue[k].code = errorQueue[i].code
      /\ \/ errorQueue[k].told \in {"mailed", "logged"}
         \/ \E l \in letters : l.row = k

(* One cause, many members: not two mails within the hour.                 *)
OneMailPerBurst ==
  \A i, k \in DOMAIN errorQueue :
    LET a == errorQueue[i] b == errorQueue[k]
    IN  i < k /\ a.fresh /\ b.fresh /\ a.code = b.code /\ a.work.event = b.work.event
          => b.told # "mailed"

(* Who fails is seen, once: on the list until dealt with, and in one mail. *)
FailuresAreTold == FailuresShow /\ SomeoneWasTold /\ OneMailPerBurst

(* One job at a time for a person, and no failure out of sight.            *)
QueueHolds == OneRunPerMember /\ FailuresAreTold

(* Whatever crashes, stalls or keeps the lock, a job comes to an end: a    *)
(* person is never locked out of their own jobs for good.                  *)
JobsComeToAnEnd == []<>(\A j \in JobIds : Exists(j) => queue[j].at \in {"done", "failed"})
=============================================================================
