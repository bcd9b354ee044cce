------------------------------ MODULE SweepRun ------------------------------
(***************************************************************************)
(* One sweep from its timer to its stamp, over all gyms, and the manual    *)
(* sync beside it (core/reconciliation.js, runNightlySweep and             *)
(* _syncClient; admin/routes/operator.js, POST /sync/run): which gyms are  *)
(* due, the advisory lock that keeps two syncs of one gym apart, the       *)
(* alerts, the grants for members Kisi does not have, the stale locks, the *)
(* replay of failed grants, the digest and last_sync_at.                   *)
(*                                                                         *)
(* Whom a sync removes is RemovalSweep's; here a gym has one member.       *)
(***************************************************************************)
EXTENDS Integers, FiniteSets

CONSTANTS
  Gyms,
  Procs,           \* admin processes; two live side by side during a deploy
  Manual, Nobody,
  SweepScenarios

SweepFaults ==
  {"webhook", "vanish", "lockdb", "read", "job", "crash", "lockdown", "mail", "log"}

(* The gyms that are customers; who is a member at the start, and who      *)
(* still is in Kisi but pays no more; gyms with an old error row keyed by  *)
(* the access row, gyms with a door in lockdown; the manual syncs, the     *)
(* changes of mind and the things that go wrong.                           *)
SweepScenario ==
  [active : SUBSET Gyms, members : SUBSET Gyms, lapsed : SUBSET Gyms, oldRows : SUBSET Gyms, locked : SUBSET Gyms, procs : SUBSET Procs,
   manual : Nat, moves : Nat, faults : Nat, kinds : SUBSET SweepFaults]

ASSUME SweepRunAssumption ==
  /\ Manual \notin Procs /\ Nobody \notin Procs \cup {Manual}
  /\ SweepScenarios \subseteq SweepScenario

VARIABLES
  person,      \* gym |-> its member: [pays, role, row, sighted]
  grantJob,    \* gym |-> where the grant job of its member stands
  errorRows,   \* error_queue: [gym, key], the key one of the two ids of a member
  alerts,      \* gym |-> [open, quiet, door]: rows of config_alert_log
  fresh,       \* gyms whose last_sync_at is younger than their interval
  clientLock,  \* gym |-> who holds the advisory lock
  syncs,       \* syncs under way
  sweeps,      \* process |-> its sweep
  mails,       \* gym |-> [sent, logged]: digests within 23 hours
  synced,      \* gyms a sync came to its end for since the day began
  sweepLeft,   \* the scenario, with what of it may still happen
  sweepHappened

sweepVars == <<person, grantJob, errorRows, alerts, fresh, clientLock, syncs, sweeps, mails,
               synced, sweepLeft, sweepHappened>>
-----------------------------------------------------------------------------
AtRest == [at |-> "idle", due |-> {}, todo |-> {}, paying |-> {}, gym |-> Nobody]

SweepInit ==
  /\ sweepLeft \in SweepScenarios
  /\ person = [g \in Gyms |->
       LET known == g \in sweepLeft.members \cup sweepLeft.lapsed
       IN  [pays |-> g \in sweepLeft.members, role |-> known, row |-> IF known THEN "active" ELSE "none",
            sighted |-> FALSE]]
  /\ grantJob = [g \in Gyms |-> "none"]
  /\ errorRows = [gym : sweepLeft.oldRows, key : {"access"}]
  /\ alerts = [g \in Gyms |-> [open |-> 0, quiet |-> FALSE, door |-> FALSE]]
  /\ fresh = {}
  /\ clientLock = [g \in Gyms |-> Nobody]
  /\ syncs = {}
  /\ sweeps = [p \in Procs |-> AtRest]
  /\ mails = [g \in Gyms |-> [sent |-> 0, logged |-> FALSE]]
  /\ synced = {}
  /\ sweepHappened = {}

SweepFault(f) ==
  /\ f \in sweepLeft.kinds /\ sweepLeft.faults > 0
  /\ sweepLeft' = [sweepLeft EXCEPT !.faults = @ - 1]
  /\ sweepHappened' = sweepHappened \cup {f}
Well == UNCHANGED <<sweepLeft, sweepHappened>>

ActiveGyms == sweepLeft.active

members == <<person, grantJob, errorRows>>
records == <<alerts, fresh, mails, synced>>
-----------------------------------------------------------------------------
(* Members come and go, and grants run.                                    *)

Moves(g) ==
  /\ g \in ActiveGyms /\ sweepLeft.moves > 0
  /\ \/ /\ sweepLeft' = [sweepLeft EXCEPT !.moves = @ - 1] /\ UNCHANGED sweepHappened
        /\ ~person[g].pays /\ person[g].row = "none"
        /\ person' = [person EXCEPT ![g].pays = TRUE]
        /\ grantJob' = [grantJob EXCEPT ![g] = "queued"]
     \/ /\ SweepFault("webhook")
        /\ person' = [person EXCEPT ![g].pays = ~@]
        /\ UNCHANGED grantJob
     \/ /\ SweepFault("vanish") /\ person[g].role
        /\ person' = [person EXCEPT ![g].role = FALSE]
        /\ UNCHANGED grantJob
  /\ UNCHANGED <<errorRows, records, clientLock, syncs, sweeps>>

(* A grant: the row is locked, the role assigned, the row completed.       *)
GrantStep(g) ==
  /\ \/ /\ grantJob[g] = "queued"
        /\ grantJob' = [grantJob EXCEPT ![g] = "locked"]
        /\ person' = [person EXCEPT ![g].row = "in_flight"]
     \/ /\ grantJob[g] = "locked"
        /\ grantJob' = [grantJob EXCEPT ![g] = "assigned"]
        /\ person' = [person EXCEPT ![g].role = TRUE]
     \/ /\ grantJob[g] = "assigned"
        /\ grantJob' = [grantJob EXCEPT ![g] = "none"]
        /\ person' = [person EXCEPT ![g].row = "active"]
  /\ Well
  /\ UNCHANGED <<errorRows, records, clientLock, syncs, sweeps>>

(* It fails for good, and retry-engine files it under the member_master    *)
(* id; or its worker is lost and the row stays in_flight.                  *)
GrantFails(g) ==
  /\ grantJob[g] \in {"locked", "assigned"}
  /\ grantJob' = [grantJob EXCEPT ![g] = "none"]
  /\ \/ /\ SweepFault("job") /\ grantJob[g] = "locked"
        /\ person' = [person EXCEPT ![g].row = "failed"]
        /\ errorRows' = errorRows \cup {[gym |-> g, key |-> "master"]}
     \/ SweepFault("crash") /\ UNCHANGED <<person, errorRows>>
  /\ UNCHANGED <<records, clientLock, syncs, sweeps>>

(* A second job for the same member finds nothing left to do.              *)
QueueGrant(gs) ==
  grantJob' = [g \in Gyms |-> IF g \in gs /\ grantJob[g] = "none" THEN "queued" ELSE grantJob[g]]
-----------------------------------------------------------------------------
(* The sync of one gym, by a sweep or by a click on "Sync now".            *)

Sync(by, g) == [by |-> by, gym |-> g, at |-> "acquire", locked |-> FALSE, paying |-> FALSE, missing |-> FALSE, owing |-> FALSE]

Goes(s, changed) == syncs' = (syncs \ {s}) \cup {changed}
Over(s)          == syncs' = syncs \ {s}

Press(g) ==
  /\ g \in ActiveGyms /\ sweepLeft.manual > 0 /\ \A s \in syncs : s.by # Manual
  /\ sweepLeft' = [sweepLeft EXCEPT !.manual = @ - 1] /\ UNCHANGED sweepHappened
  /\ syncs' = syncs \cup {Sync(Manual, g)}
  /\ UNCHANGED <<members, records, clientLock, sweeps>>

(* A mutant of Taken: nobody asks whether the lock is held.                *)
TakenNever(g) == FALSE

Taken(g) == clientLock[g] # Nobody

(* pg_try_advisory_lock: had, held elsewhere, or not to be asked for, in   *)
(* which case the sync goes on without it.                                 *)
Acquire(s) ==
  /\ s.at = "acquire"
  /\ \/ /\ ~Taken(s.gym) /\ Well
        /\ clientLock' = [clientLock EXCEPT ![s.gym] = s.by]
        /\ Goes(s, [s EXCEPT !.at = "read", !.locked = TRUE])
     \/ /\ Taken(s.gym) /\ Well
        /\ Over(s) /\ UNCHANGED clientLock
     \/ /\ SweepFault("lockdb")
        /\ Goes(s, [s EXCEPT !.at = "read"]) /\ UNCHANGED clientLock
  /\ UNCHANGED <<members, records, sweeps>>

(* _releaseClientLock: unlocked, or freed with its connection.             *)
Unlock(s) == clientLock' = [clientLock EXCEPT ![s.gym] = IF s.locked THEN Nobody ELSE @]

(* kisi_user_disappeared_observed_at, of an active row whose user is gone. *)
Sighted(p) == IF p.row = "active" THEN [p EXCEPT !.sighted = ~p.role] ELSE p

(* Wix and Kisi are read, or the sync is aborted.  What was read decides:  *)
(* a paying member Kisi does not have, a member who no longer pays.  A     *)
(* member whose Kisi user is gone is noted once, and un-noted when back.   *)
Read(s) ==
  LET p == person[s.gym] IN
  /\ s.at = "read"
  /\ \/ /\ Well
        /\ Goes(s, [s EXCEPT !.at = "rows", !.paying = p.pays, !.missing = p.pays /\ ~p.role,
                             !.owing = ~p.pays /\ p.row = "active" /\ (p.role \/ p.sighted)])
        /\ person' = [person EXCEPT ![s.gym] = Sighted(@)]
        /\ sweeps' = IF s.by = Manual \/ ~p.pays THEN sweeps
                     ELSE [sweeps EXCEPT ![s.by].paying = @ \cup {s.gym}]
        /\ UNCHANGED clientLock
     \/ /\ SweepFault("read")
        /\ Over(s) /\ Unlock(s)
        /\ UNCHANGED <<person, sweeps>>
  /\ UNCHANGED <<grantJob, errorRows, records>>

(* The rows of who pays are made active, and the status follows them       *)
(* (rollupAccessStatusByPlatformMember).                                   *)
RolledUp(p) == IF p.row \in {"failed", "recovery"} THEN [p EXCEPT !.row = "active"] ELSE p

Rows(s) ==
  /\ s.at = "rows"
  /\ person' = IF s.paying THEN [person EXCEPT ![s.gym] = RolledUp(@)] ELSE person
  /\ Goes(s, [s EXCEPT !.at = "look"])
  /\ Well
  /\ UNCHANGED <<grantJob, errorRows, records, clientLock, sweeps>>

(* _insertAlertOnce: none is open, and none was put away by the gym within *)
(* thirty days.                                                            *)
MayAlert(g) == alerts[g].open = 0 /\ ~alerts[g].quiet

Look(s) ==
  /\ s.at = "look"
  /\ Goes(s, [s EXCEPT !.at = IF s.owing /\ MayAlert(s.gym) THEN "insert" ELSE "grant"])
  /\ Well
  /\ UNCHANGED <<members, records, clientLock, sweeps>>

Insert(s) ==
  /\ s.at = "insert"
  /\ alerts' = [alerts EXCEPT ![s.gym].open = @ + 1]
  /\ Goes(s, [s EXCEPT !.at = "grant"])
  /\ Well
  /\ UNCHANGED <<members, fresh, mails, synced, clientLock, sweeps>>

(* A mutant of Wanting: a member with a row is taken to be in Kisi.        *)
WantingRow(s) == s.missing /\ person[s.gym].row = "none"

Wanting(s) == s.missing

(* Missing members are queued, and the run is closed.  A manual sync that  *)
(* came this far stamps last_sync_at itself.                               *)
Close(s) ==
  /\ s.at = "grant"
  /\ QueueGrant(IF Wanting(s) THEN {s.gym} ELSE {})
  /\ Over(s) /\ Unlock(s)
  /\ synced' = synced \cup {s.gym}
  /\ fresh' = IF s.by = Manual THEN fresh \cup {s.gym} ELSE fresh
  /\ Well
  /\ UNCHANGED <<person, errorRows, alerts, mails, sweeps>>

SyncStep(s) == Acquire(s) \/ Read(s) \/ Rows(s) \/ Look(s) \/ Insert(s) \/ Close(s)
-----------------------------------------------------------------------------
(* The sweep.                                                              *)

Set(p, changed) == sweeps' = [sweeps EXCEPT ![p] = changed]
Turns(p, at)    == Set(p, [sweeps[p] EXCEPT !.at = at])

(* The timer fires; no gym due is no sweep.                                *)
TimerFires(p) ==
  /\ p \in sweepLeft.procs /\ sweeps[p].at = "idle" /\ ActiveGyms \ fresh # {}
  /\ Set(p, [AtRest EXCEPT !.at = "sync", !.due = ActiveGyms \ fresh, !.todo = ActiveGyms \ fresh])
  /\ sweepHappened' = IF \E q \in Procs : sweeps[q].at # "idle" THEN sweepHappened \cup {"overlap"} ELSE sweepHappened
  /\ UNCHANGED <<sweepLeft, members, records, clientLock, syncs>>

InSync(p) == \E s \in syncs : s.by = p

NextGym(p, g) ==
  /\ sweeps[p].at = "sync" /\ g \in sweeps[p].todo /\ ~InSync(p)
  /\ Set(p, [sweeps[p] EXCEPT !.todo = @ \ {g}])
  /\ syncs' = syncs \cup {Sync(p, g)}
  /\ Well
  /\ UNCHANGED <<members, records, clientLock>>

(* releaseStaleLocks: in_flight for ten minutes, its job long gone.        *)
ReleaseStale(p) ==
  /\ sweeps[p].at = "sync" /\ sweeps[p].todo = {} /\ ~InSync(p)
  /\ person' = [g \in Gyms |-> IF person[g].row = "in_flight" /\ grantJob[g] = "none"
                               THEN [person[g] EXCEPT !.row = "recovery"] ELSE person[g]]
  /\ Turns(p, "lockdown")
  /\ Well
  /\ UNCHANGED <<grantJob, errorRows, records, clientLock, syncs>>

(* _syncDoorLockdownStates: an alert for every locked door, each time.  An *)
(* error in it ends the sweep.                                             *)
Lockdown(p) ==
  /\ sweeps[p].at = "lockdown"
  /\ \/ /\ Well
        /\ alerts' = [g \in Gyms |-> [alerts[g] EXCEPT !.door = @ \/ g \in sweepLeft.locked]]
        /\ Set(p, [sweeps[p] EXCEPT !.at = "records", !.todo = {g \in Gyms : person[g].row = "recovery"}])
     \/ /\ SweepFault("lockdown")
        /\ Set(p, AtRest) /\ UNCHANGED alerts
  /\ UNCHANGED <<members, fresh, mails, synced, clientLock, syncs>>

(* The error row of a record is looked up by the id of its access row.     *)
ErrorFor(g) == {e \in errorRows : e.gym = g /\ e.key = "access"}

(* _processRecordTargeted: only a grant, only of who pays in this sweep's  *)
(* own read.                                                               *)
Replay(p, g) ==
  /\ sweeps[p].at = "records" /\ g \in sweeps[p].todo
  /\ QueueGrant(IF ErrorFor(g) # {} /\ g \in sweeps[p].paying THEN {g} ELSE {})
  /\ Set(p, [sweeps[p] EXCEPT !.todo = @ \ {g}])
  /\ Well
  /\ UNCHANGED <<person, errorRows, records, clientLock, syncs>>

(* Everything open goes into the digest, one mail a gym.                   *)
News == {g \in Gyms : alerts[g].open > 0 \/ alerts[g].door \/ \E e \in errorRows : e.gym = g}

DigestRead(p) ==
  /\ sweeps[p].at = "records" /\ sweeps[p].todo = {}
  /\ Set(p, [sweeps[p] EXCEPT !.at = "digest", !.todo = News])
  /\ Well
  /\ UNCHANGED <<members, records, clientLock, syncs>>

(* _gymDigestSentRecently                                                  *)
SentRecently(g) == mails[g].logged

DigestGym(p, g) ==
  /\ sweeps[p].at = "digest" /\ g \in sweeps[p].todo
  /\ Set(p, [sweeps[p] EXCEPT !.todo = @ \ {g}, !.at = IF SentRecently(g) THEN "digest" ELSE "send", !.gym = g])
  /\ Well
  /\ UNCHANGED <<members, records, clientLock, syncs>>

(* The mail, and the log line the next sweep asks for.                     *)
Send(p) ==
  LET g == sweeps[p].gym IN
  /\ sweeps[p].at = "send"
  /\ Turns(p, "digest")
  /\ \/ Well /\ mails' = [mails EXCEPT ![g] = [sent |-> IF @.sent < 2 THEN @.sent + 1 ELSE 2, logged |-> TRUE]]
     \/ SweepFault("log") /\ mails' = [mails EXCEPT ![g].sent = IF @ < 2 THEN @ + 1 ELSE 2]
     \/ SweepFault("mail") /\ UNCHANGED mails
  /\ UNCHANGED <<members, alerts, fresh, synced, clientLock, syncs>>

(* last_sync_at of every gym that was due.                                 *)
Stamp(p) ==
  /\ sweeps[p].at = "digest" /\ sweeps[p].todo = {}
  /\ fresh' = fresh \cup sweeps[p].due
  /\ Set(p, AtRest)
  /\ Well
  /\ UNCHANGED <<members, alerts, mails, synced, clientLock, syncs>>

(* The process dies; its locks go with their connections.                  *)
Dies(p) ==
  /\ sweeps[p].at # "idle" /\ SweepFault("crash")
  /\ Set(p, AtRest)
  /\ syncs' = {s \in syncs : s.by # p}
  /\ clientLock' = [g \in Gyms |-> IF clientLock[g] = p THEN Nobody ELSE clientLock[g]]
  /\ UNCHANGED <<members, records>>

SweepStep(p) ==
  \/ TimerFires(p) \/ ReleaseStale(p) \/ Lockdown(p) \/ DigestRead(p) \/ Send(p) \/ Stamp(p)
  \/ \E g \in Gyms : NextGym(p, g) \/ Replay(p, g) \/ DigestGym(p, g)
-----------------------------------------------------------------------------
(* The gym puts its alerts away, and time.                                 *)
Dismiss(g) ==
  /\ alerts[g].open > 0 /\ sweepLeft.moves > 0
  /\ sweepLeft' = [sweepLeft EXCEPT !.moves = @ - 1] /\ UNCHANGED sweepHappened
  /\ alerts' = [alerts EXCEPT ![g] = [open |-> 0, quiet |-> TRUE, door |-> FALSE]]
  /\ UNCHANGED <<members, fresh, mails, synced, clientLock, syncs, sweeps>>

DayPasses ==
  /\ syncs = {} /\ \A p \in Procs : sweeps[p].at = "idle"
  /\ fresh # {}
  /\ fresh' = {} /\ synced' = {}
  /\ mails' = [g \in Gyms |-> [sent |-> 0, logged |-> FALSE]]
  /\ Well
  /\ UNCHANGED <<members, alerts, clientLock, syncs, sweeps>>

SweepNext ==
  \/ \E g \in Gyms : Moves(g) \/ GrantStep(g) \/ GrantFails(g) \/ Press(g) \/ Dismiss(g)
  \/ \E s \in syncs : SyncStep(s)
  \/ \E p \in Procs : SweepStep(p) \/ Dies(p)
  \/ DayPasses

SweepSpec == SweepInit /\ [][SweepNext]_sweepVars

(* The timers go on firing, jobs are run, a sync goes on.                  *)
SweepFairness ==
  /\ \A p \in Procs : WF_sweepVars(SweepStep(p))
  /\ \A p \in Procs \cup {Manual} : WF_sweepVars(\E s \in syncs : s.by = p /\ SyncStep(s))
  /\ \A g \in Gyms : WF_sweepVars(GrantStep(g))
  /\ WF_sweepVars(DayPasses)

SweepFairSpec == SweepSpec /\ SweepFairness
-----------------------------------------------------------------------------
(* Properties.                                                             *)

SweepTypeOK ==
  /\ \A g \in Gyms : person[g].row \in {"none", "active", "in_flight", "recovery", "failed"}
                  /\ alerts[g].open \in Nat
                  /\ clientLock[g] \in Procs \cup {Manual, Nobody}
                  /\ mails[g].logged => mails[g].sent > 0
  /\ \A s \in syncs : s.locked => s.at \in {"read", "rows", "look", "insert", "grant"}
  /\ \A p \in Procs : sweeps[p].todo \subseteq Gyms /\ sweeps[p].paying \subseteq sweeps[p].due

(* No gym has the same alert open twice, whichever syncs of it ran beside  *)
(* each other: looking and inserting are two reads of the table, and only  *)
(* the advisory lock keeps them together (_acquireClientLock).  And no gym *)
(* gets two digests a day, unless two processes sweep at once or the line  *)
(* in the log is lost.                                                     *)
OneOfEach ==
  /\ SweepTypeOK
  /\ "lockdb" \notin sweepHappened => \A g \in Gyms : alerts[g].open <= 1
  /\ sweepHappened \cap {"overlap", "log"} = {} => \A g \in Gyms : mails[g].sent <= 1

(* What a gym has decided it is not asked again (_insertAlertOnce).        *)
QuietOnceDecided ==
  [][\A g \in Gyms : alerts[g].quiet /\ "lockdb" \notin sweepHappened' => alerts'[g].open <= alerts[g].open]_sweepVars

(* Whichever webhook was lost, read failed, job died, user was deleted or  *)
(* mail failed, later sweeps bring everything in order at once: who pays   *)
(* is in, no grant that died on the way leaves its member a case for       *)
(* recovery (_runNightlySweepBody, Step 1), and an open alert was mailed.  *)
SweepsDeliver ==
  []<>(\A g \in Gyms :
         /\ person[g].pays => person[g].role /\ person[g].row # "recovery"
         /\ alerts[g].open > 0 => mails[g].sent > 0)

(* last_sync_at says a sync was done (operator.js: "Don't stamp            *)
(* last_sync_at on an aborted sync").                                      *)
FreshMeansSynced == fresh \subseteq synced
=============================================================================
