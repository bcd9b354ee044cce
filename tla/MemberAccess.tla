--------------------------- MODULE MemberAccess ---------------------------
(***************************************************************************)
(* The access of ONE person at ONE client: the member_access row, its      *)
(* member_access_sources rows, the person's Kisi user with its role        *)
(* assignments, the per-member Redis lock, and the BullMQ jobs that move    *)
(* all of them (core/queue-worker.js, core/grant-revoke.js,                 *)
(* adapters/standard-adapter.js, adapters/kisi/kisi-adapter.js).            *)
(*                                                                         *)
(* A job is a slot with its own program counter: one action is one         *)
(* database statement (or transaction) or one Kisi call of the job, so two  *)
(* jobs, a crash, the stalled-job handler and the sweep interleave at       *)
(* exactly the awaits of the code.                                         *)
(***************************************************************************)
EXTENDS Naturals, FiniteSets

CONSTANTS
    Plans,          \* Wix plan ids (a booking service is one more plan id)
    Groups,         \* Kisi door groups
    DoorsOf,        \* plan |-> the groups its active mappings name
    NoPlan,         \* the NULL source_plan_id
    Jobs, NoJob,    \* BullMQ job slots; NoJob: the lock key is absent
    Kinds,          \* the kinds of job the world may enqueue
    Parks,          \* the reasons a grant may be parked
    ForeignUser,    \* TRUE: Kisi may already have a user AccessSync did not make
    StaffDeletes,   \* TRUE: staff may delete the user in the Kisi dashboard
    MaxAttempts,    \* BullMQ attempts per job (3 in webhook-processor)
    MaxStalls,      \* crashes a job survives (BullMQ maxStalledCount is 1)
    MaxFaults,      \* bound: failed or unanswered calls, crashes, deletions
    MaxIds          \* bound: Kisi ids minted

GrantKinds  == {"purchase", "started"}
CancelKinds == {"cancel", "finish"}
PlanKinds   == {"purchase", "started", "cancel"}
AllKinds    == {"purchase", "started", "recovered", "payfail",
                "cancel", "deleted", "finish"}

ASSUME ConstantsAssumption ==
    /\ NoPlan \notin Plans
    /\ NoJob \notin Jobs
    /\ DoorsOf \in [Plans -> SUBSET Groups]
    /\ Kinds \subseteq AllKinds
    /\ Parks \subseteq {"no_api_key", "future_start", "no_email"}
    /\ ForeignUser \in BOOLEAN /\ StaffDeletes \in BOOLEAN
    /\ MaxAttempts \in Nat \ {0}
    /\ MaxStalls \in Nat /\ MaxFaults \in Nat /\ MaxIds \in Nat

VARIABLES
    access,     \* member_access: [status, user]; user 0 is NULL
    src,        \* member_access_sources by <<plan, group>>; role 0 is NULL
    kuser,      \* id of the live Kisi user with this person's email, or 0
    disabled,   \* that user's access_enabled is false
    kroles,     \* the group_basic role assignments in Kisi
    minted,     \* Kisi ids issued so far
    memberLock, \* owner of accesssync:member-lock, or NoJob
    job,        \* per slot: [kind, plan, tries, stalls]
    pc,         \* per slot: where its run stands
    loc,        \* per slot: the locals of its run
    faults      \* faults injected so far

kisi == <<kuser, disabled, kroles, minted>>
vars == <<access, src, kuser, disabled, kroles, minted, memberLock, job, pc, loc, faults>>

Keys  == (Plans \cup {NoPlan}) \X Groups
Ids   == Nat
Door  == [group : Groups, role : Ids]
NoRow == [status |-> "none", role |-> 0]
Rows  == {k \in Keys : src[k].status # "none"}

\* What a run remembers: Kisi said the user is gone; the user was recreated;
\* only the finalize is left to do (finalizePending).
Flags == {"gone", "again", "pending"}

NoDoor == [group |-> NoPlan, role |-> 0]
FreshLoc == [user |-> 0, todo |-> {}, got |-> {}, cur |-> NoDoor,
             first |-> "none", flags |-> {}, out |-> "done"]

Resting == {"absent", "queued", "lost", "done", "dead"}
AtKisi  == {"identify", "assign", "remove", "wipe", "suspend", "enable",
            "finalize", "delete"}
AtDb    == {"resolve", "purge", "cache", "park", "record", "rollup", "scan",
            "count", "drop", "complete", "mark"}
Running == AtKisi \cup AtDb \cup {"catch", "leave"}

\* The DR-046 rollup: active if one source row is active, else inactive.
RollupOf(s) ==
    IF \E k \in Keys : s[k].status = "active" THEN "active" ELSE "inactive"

\* A live user's roles; the id of a new Kisi object.
RolesOf(u) == {r \in kroles : r.user = u}
NextId     == minted + 1
Owned(u)   == ~(ForeignUser /\ u = 1)

\* Role ids a source row already holds on this group (OB-47).
Reusable(g) == {src[k].role : k \in {x \in Rows : x[2] = g}} \ {0}

-----------------------------------------------------------------------------
Init ==
    /\ access = [status |-> "none", user |-> 0]
    /\ src = [k \in Keys |-> NoRow]
    /\ kuser \in (IF ForeignUser THEN {0, 1} ELSE {0})
    /\ disabled = FALSE
    /\ kroles = {}
    /\ minted = (IF ForeignUser THEN 1 ELSE 0)
    /\ memberLock = NoJob
    /\ job = [j \in Jobs |-> [kind |-> "purchase", plan |-> NoPlan,
                              tries |-> 0, stalls |-> 0]]
    /\ pc = [j \in Jobs |-> "absent"]
    /\ loc = [j \in Jobs |-> FreshLoc]
    /\ faults = 0

-----------------------------------------------------------------------------
\* Steps of a run share these shapes.

Goto(j, step) == pc' = [pc EXCEPT ![j] = step]

\* finalizePending: a throw from here on leaves only the finalize undone.
Thrown(j, out) ==
    [FreshLoc EXCEPT !.out = out,
                     !.flags = IF pc[j] \in {"finalize", "delete", "mark"}
                               THEN {"pending"} ELSE {}]

\* The run throws: the catch block is next, BullMQ's verdict is `out'.
Throw(j, out) ==
    /\ loc' = [loc EXCEPT ![j] = Thrown(j, out)]
    /\ Goto(j, "catch")

\* A call whose effect may land although its answer is lost (a timeout).
Answer(j, lost, step, newLoc) ==
    \/ /\ ~lost
       /\ Goto(j, step)
       /\ loc' = [loc EXCEPT ![j] = newLoc]
       /\ UNCHANGED faults
    \/ /\ lost
       /\ faults < MaxFaults
       /\ faults' = faults + 1
       /\ Throw(j, "retry")

-----------------------------------------------------------------------------
(* The queue.                                                              *)

\* A job arrives: a webhook's, or the sweep's restart of a stuck removal.
Enqueue(j, k, p) ==
    /\ pc[j] = "absent"
    /\ p \in (IF k \in PlanKinds THEN Plans ELSE {NoPlan})
    /\ k = "finish" => /\ access.status = "removing"
                       /\ access.user # 0
                       /\ Rows = {}
    /\ job' = [job EXCEPT ![j].kind = k, ![j].plan = p]
    /\ Goto(j, "queued")
    /\ UNCHANGED <<access, src, kisi, memberLock, loc, faults>>

\* Mutation: a purchase does not wait for the lock of a cancel.
TakeUnlocked(j) ==
    /\ pc[j] = "queued"
    /\ \/ memberLock = NoJob
       \/ job[j].kind = "purchase" /\ memberLock \in {x \in Jobs : job[x].kind = "cancel"}
    /\ memberLock' = j
    /\ Goto(j, "resolve")
    /\ UNCHANGED <<access, src, kisi, job, loc, faults>>

\* SET key job.id PX NX; a busy lock parks the job again without a change.
Take(j) ==
    /\ pc[j] = "queued"
    /\ memberLock = NoJob
    /\ memberLock' = j
    /\ Goto(j, "resolve")
    /\ UNCHANGED <<access, src, kisi, job, loc, faults>>

\* The run ends: compare-and-delete of the lock, then BullMQ's bookkeeping.
Leave(j) ==
    /\ pc[j] = "leave"
    /\ memberLock' = (IF memberLock = j THEN NoJob ELSE memberLock)
    /\ loc' = [loc EXCEPT ![j] = FreshLoc]
    /\ \/ /\ loc[j].out \in {"done", "dead"}
          /\ Goto(j, loc[j].out)
          /\ UNCHANGED job
       \/ /\ loc[j].out = "retry"
          /\ job' = [job EXCEPT ![j].tries = @ + 1]
          /\ Goto(j, IF job[j].tries + 1 >= MaxAttempts THEN "dead" ELSE "queued")
    /\ UNCHANGED <<access, src, kisi, faults>>

\* The run's next call goes to Kisi (and not only to the database).
CallsKisi(j) ==
    \/ pc[j] \in {"suspend", "enable", "delete"}
    \/ pc[j] = "identify" /\ (access.user = 0 \/ "again" \in loc[j].flags)
    \/ pc[j] = "assign" /\ \E d \in loc[j].todo : Reusable(d.group) = {}
    \/ pc[j] = "remove" /\ loc[j].cur.role # 0
    \/ pc[j] = "wipe" /\ loc[j].todo # {}
    \/ pc[j] = "finalize" /\ access.status = "inactive" /\ loc[j].user # 0

\* A call fails outright: a 4xx ends the job, anything else is retried.
\* resolveAndLock rolls back and the catch block has no member to release.
Fail(j, out) ==
    /\ pc[j] \in AtKisi \cup AtDb
    /\ out = "dead" => CallsKisi(j)
    /\ faults < MaxFaults
    /\ faults' = faults + 1
    /\ loc' = [loc EXCEPT ![j] = Thrown(j, out)]
    /\ Goto(j, IF pc[j] = "resolve" THEN "leave" ELSE "catch")
    /\ UNCHANGED <<access, src, kisi, memberLock, job>>

\* Mutation: the error status of before S-11, which no enum value allows.
CatchFailed(j) ==
    /\ pc[j] = "catch"
    /\ access' = [access EXCEPT !.status = "failed"]
    /\ Goto(j, "leave")
    /\ UNCHANGED <<src, kisi, memberLock, job, loc, faults>>

\* releaseLock: the rollup, or 'removing' when only the finalize is left.
Catch(j) ==
    /\ pc[j] = "catch"
    /\ access' = [access EXCEPT !.status =
                     IF "pending" \in loc[j].flags /\ RollupOf(src) = "inactive"
                     THEN "removing" ELSE RollupOf(src)]
    /\ Goto(j, "leave")
    /\ UNCHANGED <<src, kisi, memberLock, job, loc, faults>>

\* releaseLock's own write fails: logged and swallowed, in_flight stays.
CatchFails(j) ==
    /\ pc[j] = "catch"
    /\ faults < MaxFaults
    /\ faults' = faults + 1
    /\ Goto(j, "leave")
    /\ UNCHANGED <<access, src, kisi, memberLock, job, loc>>

\* The worker process dies mid-run; the Redis lock outlives it.
Crash(j) ==
    /\ pc[j] \in Running
    /\ job[j].stalls < MaxStalls
    /\ faults < MaxFaults
    /\ faults' = faults + 1
    /\ job' = [job EXCEPT ![j].stalls = @ + 1]
    /\ Goto(j, "lost")
    /\ loc' = [loc EXCEPT ![j] = FreshLoc]
    /\ UNCHANGED <<access, src, kisi, memberLock>>

\* BullMQ moves the stalled job back to wait; the 'stalled' handler
\* releases the member if the row still says in_flight.
Stalled(j) ==
    /\ pc[j] = "lost"
    /\ Goto(j, "queued")
    /\ access' = [access EXCEPT !.status =
                     IF @ = "in_flight" THEN RollupOf(src) ELSE @]
    /\ UNCHANGED <<src, kisi, memberLock, job, loc, faults>>

\* Mutation: the lock is set without a TTL.
LockNeverExpires(j) == memberLock = j /\ FALSE /\ UNCHANGED vars

\* The lock's TTL runs out after its owner died.
LockExpires(j) ==
    /\ memberLock = j
    /\ pc[j] \in Resting
    /\ memberLock' = NoJob
    /\ UNCHANGED <<access, src, kisi, job, pc, loc, faults>>

-----------------------------------------------------------------------------
(* Grants: purchase, plan.started.                                         *)

Plan(j)  == job[j].plan
Doors(j) == {[group |-> g, role |-> 0] : g \in DoorsOf[Plan(j)]}

\* plan.started for a plan without a door: nothing to do.
SkipStarted(j) ==
    /\ pc[j] = "resolve"
    /\ job[j].kind = "started"
    /\ Doors(j) = {}
    /\ Goto(j, "leave")
    /\ UNCHANGED <<access, src, kisi, memberLock, job, loc, faults>>

\* resolveAndLock, grant path: in_flight, and a finalized user's id is dropped.
ResolveGrant(j) ==
    /\ pc[j] = "resolve"
    /\ job[j].kind \in GrantKinds
    /\ job[j].kind = "started" => Doors(j) # {}
    /\ access' = [status |-> "in_flight",
                  user |-> IF access.status = "deleted" THEN 0 ELSE access.user]
    /\ Goto(j, IF Doors(j) = {} THEN "park" ELSE "identify")
    /\ UNCHANGED <<src, kisi, memberLock, job, loc, faults>>

\* parkPendingHardware([]): no door is mapped, the row is set 'inactive'.
ParkUnmapped(j) ==
    /\ pc[j] = "park"
    /\ access' = [access EXCEPT !.status = "inactive"]
    /\ Goto(j, "leave")
    /\ UNCHANGED <<src, kisi, memberLock, job, loc, faults>>

\* The resolver's mappings carry no sourcePlanId: a parked row is a NULL-plan
\* row, and NULLs never conflict, so no row of the plan is ever touched.
WriteParkedRows(j) ==
    /\ src' = [k \in Keys |-> IF k[1] = NoPlan /\ k[2] \in DoorsOf[Plan(j)]
                              THEN [status |-> "pending", role |-> 0]
                              ELSE src[k]]
    /\ Goto(j, "rollup")
    /\ UNCHANGED <<access, kisi, memberLock, job, loc, faults>>

\* parkPendingHardware(mappings): the client has no API key.
ParkHardware(j) ==
    /\ pc[j] = "identify" /\ "again" \notin loc[j].flags
    /\ "no_api_key" \in Parks
    /\ WriteParkedRows(j)

\* parkPendingStart(mappings): the plan starts more than a minute from now.
ParkStart(j) ==
    /\ pc[j] = "assign" /\ "again" \notin loc[j].flags
    /\ job[j].kind = "purchase"
    /\ loc[j].todo = Doors(j)
    /\ "future_start" \in Parks
    /\ WriteParkedRows(j)

ToAssign(j, u) == [loc[j] EXCEPT !.user = u, !.todo = Doors(j), !.got = {},
                                 !.first = "none", !.flags = @ \ {"gone"}]

\* resolveIdentity: the id cached on member_access.
IdentifyCached(j) ==
    /\ pc[j] = "identify"
    /\ access.user # 0 /\ "again" \notin loc[j].flags
    /\ loc' = [loc EXCEPT ![j] = ToAssign(j, access.user)]
    /\ Goto(j, "assign")
    /\ UNCHANGED <<access, src, kisi, memberLock, job, faults>>

\* No email anywhere: the recovery ladder is exhausted.
ParkIdentity(j) ==
    /\ pc[j] = "identify"
    /\ access.user = 0 \/ "again" \in loc[j].flags
    /\ "no_email" \in Parks
    /\ access' = [access EXCEPT !.status = "pending_identity"]
    /\ Goto(j, "leave")
    /\ UNCHANGED <<src, kisi, memberLock, job, loc, faults>>

\* resolveIdentity: find the Kisi user by email, or create it.
FindOrCreateUser(j, lost) ==
    LET u == IF kuser # 0 THEN kuser ELSE NextId
    IN  /\ pc[j] = "identify"
        /\ access.user = 0 \/ "again" \in loc[j].flags
        /\ u <= MaxIds
        /\ kuser' = u
        /\ minted' = (IF kuser # 0 THEN minted ELSE NextId)
        /\ Answer(j, lost, IF access.user \in {0, u} THEN "cache" ELSE "purge",
                  [loc[j] EXCEPT !.user = u])
        /\ UNCHANGED <<access, src, disabled, kroles, memberLock, job>>

\* OB-80: the user changed, every source row points at the dead one.
PurgeRows(j) ==
    /\ pc[j] = "purge"
    /\ src' = [k \in Keys |-> NoRow]
    /\ Goto(j, "cache")
    /\ UNCHANGED <<access, kisi, memberLock, job, loc, faults>>

CacheUser(j) ==
    /\ pc[j] = "cache"
    /\ access' = [access EXCEPT !.user = loc[j].user]
    /\ loc' = [loc EXCEPT ![j] = ToAssign(j, loc[j].user)]
    /\ Goto(j, "assign")
    /\ UNCHANGED <<src, kisi, memberLock, job, faults>>

\* processGrant, one mapping: a row on this group already holds a role.
ReuseRole(j, d) ==
    /\ pc[j] = "assign" /\ d \in loc[j].todo
    /\ \E r \in Reusable(d.group) :
          loc' = [loc EXCEPT ![j].todo = @ \ {d},
                             ![j].got = @ \cup {[d EXCEPT !.role = r]}]
    /\ UNCHANGED <<access, src, kisi, memberLock, job, pc, faults>>

\* A failed mapping: recorded, and the loop goes on (K-2).
MissDoor(j, d, why) ==
    loc' = [loc EXCEPT ![j].todo = @ \ {d},
                       ![j].flags = @ \cup (IF why = "gone" THEN {why} ELSE {}),
                       ![j].first = IF @ = "none" THEN why ELSE @]

\* assignRole on a live user; Kisi's 409 answers with the role it has.
AssignRole(j, d, lost) ==
    LET held == {r \in RolesOf(kuser) : r.group = d.group}
        id   == IF held = {} THEN NextId ELSE (CHOOSE r \in held : TRUE).id
    IN  /\ pc[j] = "assign" /\ d \in loc[j].todo
        /\ Reusable(d.group) = {}
        /\ "gone" \notin loc[j].flags /\ kuser = loc[j].user
        /\ id <= MaxIds
        /\ kroles' = kroles \cup {[id |-> id, user |-> kuser, group |-> d.group]}
        /\ minted' = (IF held = {} THEN NextId ELSE minted)
        /\ Answer(j, lost, "assign",
                  [loc[j] EXCEPT !.todo = @ \ {d},
                                 !.got = @ \cup {[d EXCEPT !.role = id]}])
        /\ UNCHANGED <<access, src, kuser, disabled, memberLock, job>>

\* assignRole answers 404 or 422 and getUserById finds no user.
UserGone(j, d) ==
    /\ pc[j] = "assign" /\ d \in loc[j].todo
    /\ Reusable(d.group) = {}
    /\ "gone" \in loc[j].flags \/ kuser # loc[j].user
    /\ MissDoor(j, d, "gone")
    /\ UNCHANGED <<access, src, kisi, memberLock, job, pc, faults>>

\* assignRole answers 404: the user is there, so the group is gone (and the
\* person holds no role on it), or a 409 that no role of ours explains.
DoorMissing(j, d) ==
    /\ pc[j] = "assign" /\ d \in loc[j].todo
    /\ Reusable(d.group) = {}
    /\ "gone" \notin loc[j].flags /\ kuser = loc[j].user
    /\ \A r \in RolesOf(kuser) : r.group # d.group
    /\ faults < MaxFaults
    /\ faults' = faults + 1
    /\ MissDoor(j, d, "door")
    /\ UNCHANGED <<access, src, kisi, memberLock, job, pc>>

\* Every mapping was tried: record what was collected, or recreate a user
\* that is gone once, or dead-letter on the first failure.
EndAssign(j) ==
    /\ pc[j] = "assign" /\ loc[j].todo = {}
    /\ \/ /\ loc[j].got # {}
          /\ Goto(j, "record")
          /\ UNCHANGED loc
       \/ /\ loc[j].got = {}
          /\ loc[j].first = "gone" /\ "again" \notin loc[j].flags
          /\ loc' = [loc EXCEPT ![j].flags = @ \cup {"again"}]
          /\ Goto(j, "identify")
       \/ /\ loc[j].got = {}
          /\ loc[j].first # "gone" \/ "again" \in loc[j].flags
          /\ Throw(j, "dead")
    /\ UNCHANGED <<access, src, kisi, memberLock, job, faults>>

\* completeGrant: one source row upserted per assignment.
RecordRow(j, d) ==
    /\ pc[j] = "record" /\ d \in loc[j].got
    /\ src' = [src EXCEPT ![<<Plan(j), d.group>>] =
                  [status |-> "active", role |-> d.role]]
    /\ loc' = [loc EXCEPT ![j].got = @ \ {d}]
    /\ Goto(j, IF loc[j].got = {d} THEN "rollup" ELSE "record")
    /\ UNCHANGED <<access, kisi, memberLock, job, faults>>

\* rollupAccessStatus, which ends completeGrant and the parks.
RollUp(j) ==
    /\ pc[j] = "rollup"
    /\ access' = [access EXCEPT !.status = RollupOf(src)]
    /\ Goto(j, "leave")
    /\ UNCHANGED <<src, kisi, memberLock, job, loc, faults>>

-----------------------------------------------------------------------------
(* Revokes: cancel, the sweep's finish, member.deleted; pause and resume.  *)

\* Mutation: the lookup as it was before 'removing' was added to it.
FindableByStatus ==
    /\ access.status \notin {"none", "deleted"}
    /\ \/ access.status \in {"active", "in_flight"}
       \/ \E k \in Keys : \/ src[k].status = "active"
                          \/ src[k].status = "failed" /\ src[k].role # 0

\* resolveAndLock, revoke path: is there anything of this person to act on?
Findable ==
    /\ access.status \notin {"none", "deleted"}
    /\ \/ access.status \in {"active", "in_flight", "removing"}
       \/ \E k \in Keys : \/ src[k].status = "active"
                          \/ src[k].status = "failed" /\ src[k].role # 0

SkipUnknown(j) ==
    /\ pc[j] = "resolve"
    /\ job[j].kind \notin GrantKinds
    /\ ~Findable
    /\ Goto(j, "leave")
    /\ UNCHANGED <<access, src, kisi, memberLock, job, loc, faults>>

ResolveRevoke(j) ==
    /\ pc[j] = "resolve"
    /\ job[j].kind \notin GrantKinds
    /\ Findable
    /\ access' = [access EXCEPT !.status = "in_flight"]
    /\ loc' = [loc EXCEPT ![j].user = access.user]
    /\ Goto(j, CASE job[j].kind = "payfail" ->
                        IF access.user = 0 THEN "complete" ELSE "suspend"
                 [] job[j].kind = "recovered" ->
                        IF access.user = 0 THEN "complete" ELSE "enable"
                 [] OTHER -> "scan")
    /\ UNCHANGED <<src, kisi, memberLock, job, faults>>

Held(ks) == {[group |-> k[2], role |-> src[k].role] : k \in ks}

\* processRevoke reads the source rows it will work through.
Scan(j) ==
    /\ pc[j] = "scan"
    /\ \/ /\ job[j].kind \in CancelKinds
          /\ loc' = [loc EXCEPT ![j].todo = Held(Rows)]
          /\ Goto(j, "count")
       \/ /\ job[j].kind = "deleted"
          /\ loc' = [loc EXCEPT ![j].todo =
                        Held({k \in Rows : src[k].role # 0})]
          /\ Goto(j, "wipe")
    /\ UNCHANGED <<access, src, kisi, memberLock, job, faults>>

\* The rows on a group that cancelling plan p leaves behind.
Remaining(p, g) == {k \in Rows : k[2] = g /\ k[1] # p}

\* Mutation: no remaining-count, every row's role is removed.
CountNothing(j, d) ==
    /\ pc[j] = "count" /\ d \in loc[j].todo
    /\ loc' = [loc EXCEPT ![j].cur = d]
    /\ Goto(j, "remove")
    /\ UNCHANGED <<access, src, kisi, memberLock, job, faults>>

\* Mutation: the row DELETE before the Kisi call (2026-10-19 review H1).
CountRowFirst(j, d) ==
    /\ pc[j] = "count" /\ d \in loc[j].todo
    /\ loc' = [loc EXCEPT ![j].cur = d]
    /\ Goto(j, IF Remaining(Plan(j), d.group) # {} THEN "drop" ELSE "remove")
    /\ src' = [k \in Keys |-> IF k = <<Plan(j), d.group>> THEN NoRow ELSE src[k]]
    /\ UNCHANGED <<access, kisi, memberLock, job, faults>>

\* Does another plan still hold this group? Then the role stays.
Count(j, d) ==
    /\ pc[j] = "count" /\ d \in loc[j].todo
    /\ loc' = [loc EXCEPT ![j].cur = d]
    /\ Goto(j, IF Remaining(Plan(j), d.group) # {} THEN "drop" ELSE "remove")
    /\ UNCHANGED <<access, src, kisi, memberLock, job, faults>>

CountedAll(j) ==
    /\ \/ pc[j] = "count"
       \/ pc[j] = "wipe"
    /\ loc[j].todo = {}
    /\ Goto(j, "complete")
    /\ UNCHANGED <<access, src, kisi, memberLock, job, loc, faults>>

\* removeRole; Kisi's 404 for a role already gone counts as success.
RemoveRole(j, lost) ==
    /\ pc[j] = "remove" /\ loc[j].cur.role # 0
    /\ kroles' = {r \in kroles : r.id # loc[j].cur.role}
    /\ Answer(j, lost, "drop", loc[j])
    /\ UNCHANGED <<access, src, kuser, disabled, minted, memberLock, job>>

\* hardware-adapter refuses a removeRole without a role id, before any call.
RefuseNullRole(j) ==
    /\ pc[j] = "remove" /\ loc[j].cur.role = 0
    /\ Throw(j, "retry")
    /\ UNCHANGED <<access, src, kisi, memberLock, job, faults>>

\* deleteSourceRow: this plan's row on the group, whoever's role it was.
DropRow(j) ==
    /\ pc[j] = "drop"
    /\ src' = [k \in Keys |-> IF k = <<Plan(j), loc[j].cur.group>> THEN NoRow ELSE src[k]]
    /\ loc' = [loc EXCEPT ![j].todo = @ \ {loc[j].cur}, ![j].cur = NoDoor]
    /\ Goto(j, "count")
    /\ UNCHANGED <<access, kisi, memberLock, job, faults>>

\* member.deleted: every role AccessSync recorded for the person goes.
WipeRole(j, d, lost) ==
    /\ pc[j] = "wipe" /\ d \in loc[j].todo
    /\ kroles' = {r \in kroles : r.id # d.role}
    /\ Answer(j, lost, "wipe", [loc[j] EXCEPT !.todo = @ \ {d}])
    /\ UNCHANGED <<access, src, kuser, disabled, minted, memberLock, job>>

\* payment.failed and payment.recovered flip access_enabled on a live user.
SetEnabled(j, lost) ==
    /\ pc[j] \in {"suspend", "enable"}
    /\ kuser = loc[j].user
    /\ disabled' = (pc[j] = "suspend")
    /\ Answer(j, lost, "complete", loc[j])
    /\ UNCHANGED <<access, src, kuser, kroles, minted, memberLock, job>>

\* The user is gone from Kisi: 404, which ends the job.
SetEnabledGone(j) ==
    /\ pc[j] \in {"suspend", "enable"}
    /\ kuser # loc[j].user
    /\ Throw(j, "dead")
    /\ UNCHANGED <<access, src, kisi, memberLock, job, faults>>

\* Mutation: a pause deletes the rows a resume would need.
RowsLostInPause(kind) ==
    CASE kind \in CancelKinds  -> src
      [] kind = "deleted"      -> [k \in Keys |-> NoRow]
      [] kind = "payfail"      -> [k \in Keys |-> NoRow]
      [] kind = "recovered"    -> src

\* completeRevoke, one transaction: the rows, then the rollup of the rows.
RowsAfter(kind) ==
    CASE kind \in CancelKinds  -> src
      [] kind = "deleted"      -> [k \in Keys |-> NoRow]
      [] kind = "payfail"      -> [k \in Keys |-> IF src[k].status = "active"
                                                 THEN [src[k] EXCEPT !.status = "failed"]
                                                 ELSE src[k]]
      [] kind = "recovered"    -> [k \in Keys |-> IF src[k].status = "failed"
                                                 THEN [src[k] EXCEPT !.status = "active"]
                                                 ELSE src[k]]

CompleteRevoke(j) ==
    /\ pc[j] = "complete"
    /\ src' = RowsAfter(job[j].kind)
    /\ access' = [access EXCEPT !.status = RollupOf(src')]
    /\ Goto(j, IF job[j].kind \in {"payfail", "recovered"} THEN "leave" ELSE "finalize")
    /\ UNCHANGED <<kisi, memberLock, job, loc, faults>>

\* finalizeRevoke: the status is read again, then Guard D asks Kisi.
Finalize(j) ==
    /\ pc[j] = "finalize"
    /\ Goto(j, IF access.status # "inactive" THEN "leave"
               ELSE IF loc[j].user = 0 THEN "mark"
               ELSE IF RolesOf(loc[j].user) # {} THEN "leave"
               ELSE "delete")
    /\ UNCHANGED <<access, src, kisi, memberLock, job, loc, faults>>

\* deleteUser: refused for a user AccessSync did not create, done if gone.
KeepForeignUser(j) ==
    /\ pc[j] = "delete"
    /\ kuser = loc[j].user /\ ~Owned(kuser)
    /\ Goto(j, "leave")
    /\ UNCHANGED <<access, src, kisi, memberLock, job, loc, faults>>

DeleteUser(j, lost) ==
    /\ pc[j] = "delete"
    /\ kuser = loc[j].user => Owned(kuser)
    /\ kuser' = (IF kuser = loc[j].user THEN 0 ELSE kuser)
    /\ disabled' = (disabled /\ kuser' # 0)
    /\ kroles' = kroles \ RolesOf(loc[j].user)
    /\ Answer(j, lost, "mark", loc[j])
    /\ UNCHANGED <<access, src, minted, memberLock, job>>

\* The DR-044 end state; the dead id stays on the row as lineage.
MarkDeleted(j) ==
    /\ pc[j] = "mark"
    /\ access' = [access EXCEPT !.status = "deleted"]
    /\ Goto(j, "leave")
    /\ UNCHANGED <<src, kisi, memberLock, job, loc, faults>>

-----------------------------------------------------------------------------
(* Around the jobs.                                                        *)

\* The sweep frees rows in_flight far longer than any run takes.
ReleaseStaleLocks ==
    /\ access.status = "in_flight"
    /\ \A j \in Jobs : pc[j] \in Resting
    /\ access' = [access EXCEPT !.status = "recovery_pending"]
    /\ UNCHANGED <<src, kisi, memberLock, job, pc, loc, faults>>

\* Staff delete the user in Kisi; its roles go with it.
StaffDeletesUser ==
    /\ StaffDeletes /\ kuser # 0
    /\ faults < MaxFaults
    /\ faults' = faults + 1
    /\ kuser' = 0 /\ disabled' = FALSE
    /\ kroles' = kroles \ RolesOf(kuser)
    /\ UNCHANGED <<access, src, minted, memberLock, job, pc, loc>>

GrantStep(j) ==
    \/ SkipStarted(j) \/ ResolveGrant(j)
    \/ ParkUnmapped(j) \/ ParkHardware(j) \/ ParkStart(j) \/ ParkIdentity(j)
    \/ IdentifyCached(j) \/ FindOrCreateUser(j, FALSE)
    \/ PurgeRows(j) \/ CacheUser(j)
    \/ \E d \in loc[j].todo : \/ ReuseRole(j, d) \/ UserGone(j, d)
                              \/ AssignRole(j, d, FALSE)
    \/ EndAssign(j)
    \/ \E d \in loc[j].got : RecordRow(j, d)
    \/ RollUp(j)

RevokeStep(j) ==
    \/ SkipUnknown(j) \/ ResolveRevoke(j) \/ Scan(j)
    \/ \E d \in loc[j].todo : Count(j, d) \/ WipeRole(j, d, FALSE)
    \/ CountedAll(j)
    \/ RemoveRole(j, FALSE) \/ RefuseNullRole(j) \/ DropRow(j)
    \/ SetEnabled(j, FALSE) \/ SetEnabledGone(j)
    \/ CompleteRevoke(j)
    \/ Finalize(j) \/ KeepForeignUser(j) \/ DeleteUser(j, FALSE) \/ MarkDeleted(j)

\* What the code does by itself, with every call answered.
RunStep(j) ==
    \/ Take(j) \/ GrantStep(j) \/ RevokeStep(j)
    \/ Catch(j) \/ Leave(j) \/ Stalled(j) \/ LockExpires(j)

\* What goes wrong around it.
FaultStep(j) ==
    \/ \E out \in {"retry", "dead"} : Fail(j, out)
    \/ FindOrCreateUser(j, TRUE) \/ RemoveRole(j, TRUE)
    \/ SetEnabled(j, TRUE) \/ DeleteUser(j, TRUE)
    \/ \E d \in loc[j].todo : \/ AssignRole(j, d, TRUE) \/ DoorMissing(j, d)
                              \/ WipeRole(j, d, TRUE)
    \/ CatchFails(j) \/ Crash(j)

Next ==
    \/ \E j \in Jobs : \/ \E k \in Kinds, p \in Plans \cup {NoPlan} : Enqueue(j, k, p)
                       \/ RunStep(j)
                       \/ FaultStep(j)
    \/ ReleaseStaleLocks
    \/ StaffDeletesUser

Spec == Init /\ [][Next]_vars

\* A worker keeps working, a TTL runs out and the sweep comes round.
Fairness ==
    /\ \A j \in Jobs : WF_vars(RunStep(j))
    /\ WF_vars(ReleaseStaleLocks)

FairSpec == Spec /\ Fairness

-----------------------------------------------------------------------------
(* Properties.                                                             *)

AccessRow == [status : {"none", "active", "inactive", "in_flight", "removing",
                        "pending_identity", "recovery_pending", "deleted"},
              user : Ids]
SourceRow == [status : {"none", "active", "failed", "pending"}, role : Ids]
Role      == [id : Ids, user : Ids, group : Groups]
Job       == [kind : AllKinds, plan : Plans \cup {NoPlan}, tries : Nat, stalls : Nat]
Locals    == [user : Ids, todo : SUBSET Door, got : SUBSET Door,
              cur : Door \cup {NoDoor}, first : {"none", "gone", "door"},
              flags : SUBSET Flags, out : {"done", "retry", "dead"}]
Steps     == Resting \cup Running

TypeOK ==
    /\ access \in AccessRow
    /\ src \in [Keys -> SourceRow]
    /\ kuser \in Ids /\ minted \in Nat /\ disabled \in BOOLEAN
    /\ kroles \in SUBSET Role
    /\ memberLock \in Jobs \cup {NoJob}
    /\ job \in [Jobs -> Job]
    /\ pc \in [Jobs -> Steps]
    /\ loc \in [Jobs -> Locals]
    /\ faults \in Nat

\* Every job that came was carried through, and none is under way.
Settled == \A j \in Jobs : pc[j] \in {"absent", "done"}

\* A live role assignment is on record: some source row of its group holds its
\* id, or a later cancel could never close that door (2026-10-19 review H1:
\* Kisi before the row DELETE, processRevoke).
RolesAreTracked ==
    Settled => \A r \in kroles : \E k \in Rows : k[2] = r.group /\ src[k].role = r.id

\* What AccessSync calls active opens: the row's role is live in Kisi as long
\* as the person's Kisi user is (the OB-47 reuse hands role ids from row to
\* row without asking Kisi).
ActiveRowsOpen ==
    Settled /\ kuser = access.user =>
        \A k \in Keys : src[k].status = "active" =>
            \E r \in RolesOf(kuser) : r.id = src[k].role /\ r.group = k[2]

\* DR-046: at rest the access row says active exactly when a source row does.
StatusIsRollup ==
    Settled /\ access.status \in {"active", "inactive"} =>
        access.status = RollupOf(src)

\* DR-044: a finalized person has no source row and no live Kisi user.
DeletedIsFinal ==
    access.status = "deleted" =>
        Rows = {} /\ (kuser = 0 \/ kuser # access.user)

\* The three together: what is on record, of doors, rows and people, is so.
RecordsHold == RolesAreTracked /\ StatusIsRollup /\ DeletedIsFinal

\* No job so far was for a plan without a door; no row is parked.
Mapped   == \A j \in Jobs : job[j].plan = NoPlan \/ DoorsOf[job[j].plan] # {}
Unparked == \A k \in Keys : src[k].status # "pending"

\* The three that hold through pauses, parks and users that vanish: an active
\* row opens, the status is the rollup of the rows, and unless a grant is
\* parked every role is on a row (queue-worker.js processGrant, processRevoke;
\* standard-adapter.js rollupAccessStatus).
RowsAreTrue ==
    Mapped => ActiveRowsOpen /\ StatusIsRollup /\ (Unparked => RolesAreTracked)

\* A member parked 'removing' (door off, cleanup failed) has a job that will
\* finish the cleanup or is on the error list, never nobody.
RemovingHasOwner ==
    access.status = "removing" =>
        \E j \in Jobs : job[j].kind \in CancelKinds \cup {"deleted"}
                        /\ pc[j] \notin {"absent", "done"}

\* A whole cancellation ends in the finalize: no AccessSync-made Kisi user
\* without a door is left behind by a member whose jobs all completed.
CancelIsFinalized ==
    Settled /\ access.status = "inactive" /\ Rows = {} /\ kuser = access.user
        => kuser = 0 \/ ~Owned(kuser) \/ RolesOf(kuser) # {}

\* Cancelling one plan never takes a door another plan's row still holds
\* (DR-034 remaining-count; the INCIDENT of 2026-07-02).
OtherPlansKeepDoors ==
    [][\A r \in kroles \ kroles' :
          kuser' = r.user /\ (\E j \in Jobs : pc[j] = "remove" /\ pc'[j] # "remove")
            => \A k \in Rows : k[2] = r.group =>
                 \E j \in Jobs : pc[j] = "remove" /\ k[1] = Plan(j)]_vars

\* The remaining-count is a read, the removeRole it decides comes after: nothing
\* may put a row of another plan on that group in between (stale count).
CountStands ==
    \A j \in Jobs : pc[j] = "remove" => Remaining(Plan(j), loc[j].cur.group) = {}

\* When plan.started completes, a row parked for the plan's door is parked no
\* more (standard-adapter.js, parkPendingStart: "grant-revoke flips the source
\* row to 'active'").
StartedFlipsParked ==
    [][\A j \in Jobs :
          /\ pc[j] = "leave" /\ pc'[j] = "done" /\ job[j].kind = "started"
          => \A k \in Rows : k[2] \in DoorsOf[Plan(j)] => src[k].status # "pending"]_vars

-----------------------------------------------------------------------------
(* What makes CountStands and OtherPlansKeepDoors inductive.               *)

\* K-1: at most one run per member, the one that owns the lock.
Serial == \A j \in Jobs : pc[j] \in Running => memberLock = j

\* A run stands where its kind of job can stand, and names a plan if it must.
GrantAt  == {"park", "identify", "purge", "cache", "assign", "record", "rollup"}
CancelAt == {"count", "remove", "drop"}
RevokeAt == CancelAt \cup {"scan", "wipe", "complete", "suspend", "enable",
                           "finalize", "delete", "mark"}

KindsFit ==
    \A j \in Jobs :
        /\ job[j].kind \in PlanKinds /\ pc[j] # "absent" => Plan(j) \in Plans
        /\ pc[j] \in GrantAt  => job[j].kind \in GrantKinds
        /\ pc[j] \in RevokeAt => job[j].kind \notin GrantKinds
        /\ pc[j] \in CancelAt => job[j].kind \in CancelKinds

\* Wherever a Kisi role id is written down, it names one group, and Kisi has
\* issued it.
Ref(i, g) ==
    \/ \E r \in kroles : r.id = i /\ r.group = g
    \/ \E k \in Keys : src[k].role = i /\ k[2] = g
    \/ \E j \in Jobs : \E d \in loc[j].todo \cup loc[j].got \cup {loc[j].cur} :
                          d.role = i /\ d.group = g

IdsAgree ==
    \A i \in 1 .. minted, g, h \in Groups : Ref(i, g) /\ Ref(i, h) => g = h

IdsIssued ==
    /\ \A r \in kroles : r.id <= minted
    /\ \A k \in Keys : src[k].role <= minted
    /\ \A j \in Jobs : \A d \in loc[j].todo \cup loc[j].got \cup {loc[j].cur} :
          d.role <= minted

IInv == TypeOK /\ Serial /\ KindsFit /\ IdsAgree /\ IdsIssued /\ CountStands

-----------------------------------------------------------------------------
(* What makes RemovingHasOwner inductive.                                  *)

\* A run of these kinds ends in the finalize, if it gets that far.
CleansUp(j) == job[j].kind \in CancelKinds \cup {"deleted"}

\* Only such a run throws with the finalize pending; and whoever finds the
\* person 'removing' takes the person over, or leaves to be tried again or to
\* be listed.
OwnersFit ==
    \A j \in Jobs :
        /\ pc[j] \in {"scan", "wipe", "finalize", "delete", "mark"} => CleansUp(j)
        /\ pc[j] = "catch" => /\ loc[j].out # "done"
                              /\ "pending" \in loc[j].flags => CleansUp(j)
        /\ access.status = "removing" /\ pc[j] \in Running =>
               \/ pc[j] = "resolve"
               \/ pc[j] = "leave" /\ (CleansUp(j) => loc[j].out # "done")

OwnerInv == TypeOK /\ Serial /\ KindsFit /\ OwnersFit /\ RemovingHasOwner

-----------------------------------------------------------------------------
(* Liveness.                                                               *)

(* Every job is carried through or dead-lettered, whoever held the lock,   *)
(* and no member stays in_flight once they are (DR-023).                   *)
JobsEnd == []<>(/\ \A j \in Jobs : pc[j] \in {"absent", "done", "dead"}
                /\ access.status # "in_flight")
=============================================================================
