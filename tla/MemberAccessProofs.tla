------------------------ MODULE MemberAccessProofs ------------------------
(***************************************************************************)
(* Theorems about MemberAccess, for every set of plans, groups and jobs.   *)
(***************************************************************************)
EXTENDS MemberAccess, TLAPS

-----------------------------------------------------------------------------
(* Facts about the types, so that no step below has to expand them.        *)

\* Every value a step assigns to a program counter is one.
LEMMA StepNames ==
    /\ {"absent", "queued", "lost", "done", "dead"} \subseteq Steps
    /\ {"identify", "assign", "remove", "wipe", "suspend", "enable",
        "finalize", "delete"} \subseteq Steps
    /\ {"resolve", "purge", "cache", "park", "record", "rollup", "scan",
        "count", "drop", "complete", "mark", "catch", "leave"} \subseteq Steps
BY DEF Steps, Resting, Running, AtKisi, AtDb

LEMMA FreshLocType == FreshLoc \in Locals
BY DEF FreshLoc, Locals, NoDoor, Ids

LEMMA ThrownType ==
    ASSUME NEW j \in Jobs, NEW out \in {"done", "retry", "dead"}
    PROVE  Thrown(j, out) \in Locals
BY DEF Thrown, FreshLoc, Locals, NoDoor, Ids, Flags

LEMMA RollupType == \A s : RollupOf(s) \in {"active", "inactive"}
BY DEF RollupOf

LEMMA StatusType ==
    ASSUME NEW v \in {"active", "inactive", "in_flight", "removing", "deleted",
                      "pending_identity", "recovery_pending"},
           access \in AccessRow
    PROVE  [access EXCEPT !.status = v] \in AccessRow
BY DEF AccessRow

-----------------------------------------------------------------------------
\* Initially every variable has its type.
LEMMA TypeInit == Init => TypeOK
<1> SUFFICES ASSUME Init PROVE TypeOK
  OBVIOUS
<1>1. access \in AccessRow
  BY DEF Init, AccessRow, Ids
<1>2. src \in [Keys -> SourceRow]
  BY DEF Init, SourceRow, NoRow, Ids
<1>3. job \in [Jobs -> Job]
  BY DEF Init, Job, AllKinds
<1>4. pc \in [Jobs -> Steps] /\ loc \in [Jobs -> Locals]
  BY StepNames, FreshLocType DEF Init
<1>5. kuser \in Ids /\ minted \in Nat
  BY DEF Init, Ids
<1> QED BY <1>1, <1>2, <1>3, <1>4, <1>5 DEF TypeOK, Init, Ids

\* The queue's steps keep the types.
LEMMA TypeQueue ==
    ASSUME TypeOK, NEW j \in Jobs
    PROVE  /\ \A k \in Kinds, p \in Plans \cup {NoPlan} : Enqueue(j, k, p) => TypeOK'
           /\ Take(j) => TypeOK'
           /\ Leave(j) => TypeOK'
           /\ \A out \in {"retry", "dead"} : Fail(j, out) => TypeOK'
           /\ Catch(j) => TypeOK'
           /\ CatchFails(j) => TypeOK'
           /\ Crash(j) => TypeOK'
           /\ Stalled(j) => TypeOK'
           /\ LockExpires(j) => TypeOK'
<1> USE StepNames DEF TypeOK, Goto, kisi
<1>1. \A k \in Kinds, p \in Plans \cup {NoPlan} : Enqueue(j, k, p) => TypeOK'
  <2> SUFFICES ASSUME NEW k \in Kinds, NEW p \in Plans \cup {NoPlan}, Enqueue(j, k, p)
               PROVE  TypeOK'
    OBVIOUS
  <2>1. job' \in [Jobs -> Job]
    BY ConstantsAssumption DEF Enqueue, Job
  <2> QED BY <2>1 DEF Enqueue
<1>2. Take(j) => TypeOK'
  BY DEF Take
<1>3. ASSUME Leave(j) PROVE TypeOK'
  <2>0. job \in [Jobs -> Job] /\ job[j] \in Job /\ job[j].tries + 1 \in Nat
    BY DEF Job
  <2>4. job' = job \/ job' = [job EXCEPT ![j].tries = job[j].tries + 1]
    BY <1>3 DEF Leave
  <2>5. [job[j] EXCEPT !.tries = job[j].tries + 1] \in Job
    BY <2>0 DEF Job
  <2>1. job' \in [Jobs -> Job]
    BY <2>0, <2>4, <2>5
  <2>2. loc[j].out \in {"done", "retry", "dead"}
    BY DEF Locals
  <2> QED BY <1>3, <2>1, <2>2, FreshLocType DEF Leave
<1>4. \A out \in {"retry", "dead"} : Fail(j, out) => TypeOK'
  BY ThrownType DEF Fail
<1>5. ASSUME Catch(j) PROVE TypeOK'
  <2>1. access' \in AccessRow
    BY <1>5, RollupType, StatusType DEF Catch
  <2> QED BY <1>5, <2>1 DEF Catch
<1>6. CatchFails(j) => TypeOK'
  BY DEF CatchFails
<1>7. ASSUME Crash(j) PROVE TypeOK'
  <2>1. job' \in [Jobs -> Job]
    BY <1>7 DEF Crash, Job
  <2> QED BY <1>7, <2>1, FreshLocType DEF Crash
<1>8. ASSUME Stalled(j) PROVE TypeOK'
  <2>1. access' \in AccessRow
    BY <1>8, RollupType DEF Stalled, AccessRow
  <2> QED BY <1>8, <2>1 DEF Stalled
<1>9. LockExpires(j) => TypeOK'
  BY DEF LockExpires
<1> QED BY <1>1, <1>2, <1>3, <1>4, <1>5, <1>6, <1>7, <1>8, <1>9

\* What Answer leaves of a run.
LEMMA AnswerType ==
    ASSUME TypeOK, NEW j \in Jobs, NEW lost \in BOOLEAN, NEW step \in Steps,
           NEW l \in Locals, Answer(j, lost, step, l)
    PROVE  pc' \in [Jobs -> Steps] /\ loc' \in [Jobs -> Locals] /\ faults' \in Nat
<1>1. CASE ~lost
  BY <1>1 DEF Answer, TypeOK, Goto
<1>2. CASE lost
  BY <1>2, ThrownType, StepNames DEF Answer, Throw, TypeOK, Goto
<1> QED BY <1>1, <1>2

LEMMA DoorsType ==
    ASSUME TypeOK, NEW j \in Jobs, job[j].kind \in GrantKinds, Plan(j) \in Plans
    PROVE  Doors(j) \in SUBSET Door
BY ConstantsAssumption DEF Doors, Door, Ids

LEMMA ReusableType ==
    ASSUME TypeOK, NEW g
    PROVE  Reusable(g) \in SUBSET Nat
BY DEF Reusable, Rows, TypeOK, SourceRow, Ids

\* The calls to Kisi, answered or not.
LEMMA TypeKisiCalls ==
    ASSUME TypeOK, NEW j \in Jobs, NEW lost \in BOOLEAN
    PROVE  /\ FindOrCreateUser(j, lost) => TypeOK'
           /\ \A d \in loc[j].todo : AssignRole(j, d, lost) => TypeOK'
           /\ \A d \in loc[j].todo : WipeRole(j, d, lost) => TypeOK'
           /\ RemoveRole(j, lost) => TypeOK'
           /\ SetEnabled(j, lost) => TypeOK'
           /\ DeleteUser(j, lost) => TypeOK'
<1> USE StepNames DEF TypeOK, Goto, kisi
<1>0. loc[j] \in Locals /\ loc[j].todo \in SUBSET Door /\ loc[j].got \in SUBSET Door
  BY DEF Locals
<1>1. ASSUME FindOrCreateUser(j, lost) PROVE TypeOK'
  <2>1. [loc[j] EXCEPT !.user = IF kuser # 0 THEN kuser ELSE NextId] \in Locals
    BY <1>0 DEF Locals, Ids, NextId
  <2>2. pc' \in [Jobs -> Steps] /\ loc' \in [Jobs -> Locals] /\ faults' \in Nat
    BY <1>1, <2>1, AnswerType DEF FindOrCreateUser
  <2>3. kuser' \in Nat /\ minted' \in Nat
    BY <1>1 DEF FindOrCreateUser, NextId, Ids
  <2> QED BY <1>1, <2>2, <2>3 DEF FindOrCreateUser, Ids
<1>2. ASSUME NEW d \in loc[j].todo, AssignRole(j, d, lost) PROVE TypeOK'
  <2> DEFINE held == {r \in RolesOf(kuser) : r.group = d.group}
             id   == IF held = {} THEN NextId ELSE (CHOOSE r \in held : TRUE).id
  <2>1. id \in Nat
    BY DEF RolesOf, Role, NextId, Ids
  <2>2. [d EXCEPT !.role = id] \in Door
    BY <1>0, <2>1 DEF Door, Ids
  <2>3. [loc[j] EXCEPT !.todo = @ \ {d}, !.got = @ \cup {[d EXCEPT !.role = id]}] \in Locals
    BY <1>0, <2>2 DEF Locals
  <2>4. pc' \in [Jobs -> Steps] /\ loc' \in [Jobs -> Locals] /\ faults' \in Nat
    BY <1>2, <2>3, AnswerType DEF AssignRole
  <2>5. kroles' \in SUBSET Role
    BY <1>2, <1>0, <2>1 DEF AssignRole, Role, Door, Ids
  <2>6. minted' \in Nat
    BY <1>2 DEF AssignRole, NextId
  <2> QED BY <1>2, <2>4, <2>5, <2>6 DEF AssignRole
<1>3. ASSUME NEW d \in loc[j].todo, WipeRole(j, d, lost) PROVE TypeOK'
  <2>1. [loc[j] EXCEPT !.todo = @ \ {d}] \in Locals
    BY <1>0 DEF Locals
  <2>2. pc' \in [Jobs -> Steps] /\ loc' \in [Jobs -> Locals] /\ faults' \in Nat
    BY <1>3, <2>1, AnswerType DEF WipeRole
  <2> QED BY <1>3, <2>2 DEF WipeRole
<1>4. ASSUME RemoveRole(j, lost) PROVE TypeOK'
  <2>1. pc' \in [Jobs -> Steps] /\ loc' \in [Jobs -> Locals] /\ faults' \in Nat
    BY <1>4, <1>0, AnswerType DEF RemoveRole
  <2> QED BY <1>4, <2>1 DEF RemoveRole
<1>5. ASSUME SetEnabled(j, lost) PROVE TypeOK'
  <2>1. pc' \in [Jobs -> Steps] /\ loc' \in [Jobs -> Locals] /\ faults' \in Nat
    BY <1>5, <1>0, AnswerType DEF SetEnabled
  <2> QED BY <1>5, <2>1 DEF SetEnabled
<1>6. ASSUME DeleteUser(j, lost) PROVE TypeOK'
  <2>1. pc' \in [Jobs -> Steps] /\ loc' \in [Jobs -> Locals] /\ faults' \in Nat
    BY <1>6, <1>0, AnswerType DEF DeleteUser
  <2>2. kuser' \in Ids /\ disabled' \in BOOLEAN /\ kroles' \in SUBSET Role
    BY <1>6 DEF DeleteUser, Ids
  <2> QED BY <1>6, <2>1, <2>2 DEF DeleteUser
<1> QED BY <1>1, <1>2, <1>3, <1>4, <1>5, <1>6

\* The steps of the grants keep the types.
LEMMA TypeGrant ==
    ASSUME TypeOK, NEW j \in Jobs, Doors(j) \in SUBSET Door, GrantStep(j),
           pc[j] = "record" => Plan(j) \in Plans
    PROVE  TypeOK'
<1> USE StepNames DEF TypeOK, Goto, kisi
<1>0. loc[j] \in Locals /\ loc[j].todo \in SUBSET Door /\ loc[j].got \in SUBSET Door
      /\ loc[j].user \in Nat /\ access.user \in Nat
  BY DEF Locals, Ids, AccessRow
<1>1. CASE SkipStarted(j)
  BY <1>1 DEF SkipStarted
<1>2. CASE ResolveGrant(j)
  <2>1. access' \in AccessRow
    BY <1>2, <1>0 DEF ResolveGrant, AccessRow, Ids
  <2> QED BY <1>2, <2>1 DEF ResolveGrant
<1>3. CASE ParkUnmapped(j)
  BY <1>3, StatusType DEF ParkUnmapped
<1>4. ASSUME WriteParkedRows(j) PROVE TypeOK'
  <2>1. src' \in [Keys -> SourceRow]
    BY <1>4 DEF WriteParkedRows, SourceRow, Ids
  <2> QED BY <1>4, <2>1 DEF WriteParkedRows
<1>5. CASE ParkHardware(j)
  BY <1>5, <1>4 DEF ParkHardware
<1>6. CASE ParkStart(j)
  BY <1>6, <1>4 DEF ParkStart
<1>7. CASE ParkIdentity(j)
  BY <1>7, StatusType DEF ParkIdentity
<1>8. \A u \in Nat : ToAssign(j, u) \in Locals
  BY <1>0 DEF ToAssign, Locals, Ids
<1>9. CASE IdentifyCached(j)
  BY <1>9, <1>0, <1>8 DEF IdentifyCached
<1>10. CASE FindOrCreateUser(j, FALSE)
  BY <1>10, TypeKisiCalls
<1>11. CASE PurgeRows(j)
  <2>1. src' \in [Keys -> SourceRow]
    BY <1>11 DEF PurgeRows, SourceRow, NoRow, Ids
  <2> QED BY <1>11, <2>1 DEF PurgeRows
<1>12. CASE CacheUser(j)
  <2>1. access' \in AccessRow
    BY <1>12, <1>0 DEF CacheUser, AccessRow, Ids
  <2> QED BY <1>12, <1>0, <1>8, <2>1 DEF CacheUser
<1>13. ASSUME NEW d \in loc[j].todo, ReuseRole(j, d) PROVE TypeOK'
  <2>1. PICK r \in Reusable(d.group) :
          loc' = [loc EXCEPT ![j].todo = @ \ {d}, ![j].got = @ \cup {[d EXCEPT !.role = r]}]
    BY <1>13 DEF ReuseRole
  <2>2. [d EXCEPT !.role = r] \in Door
    BY <1>0, <2>1, ReusableType DEF Door, Ids
  <2>3. loc' \in [Jobs -> Locals]
    BY <1>0, <2>1, <2>2 DEF Locals
  <2> QED BY <1>13, <2>3 DEF ReuseRole
<1>14. ASSUME NEW d \in loc[j].todo, UserGone(j, d) PROVE TypeOK'
  <2>1. loc' \in [Jobs -> Locals]
    BY <1>14, <1>0 DEF UserGone, MissDoor, Locals, Flags
  <2> QED BY <1>14, <2>1 DEF UserGone
<1>15. CASE \E d \in loc[j].todo : AssignRole(j, d, FALSE)
  BY <1>15, TypeKisiCalls
<1>16. CASE EndAssign(j)
  <2>1. \A out \in {"dead"} : Thrown(j, out) \in Locals
    BY ThrownType
  <2>2. [loc[j] EXCEPT !.flags = @ \cup {"again"}] \in Locals
    BY <1>0 DEF Locals, Flags
  <2> QED BY <1>16, <2>1, <2>2 DEF EndAssign, Throw
<1>17. ASSUME NEW d \in loc[j].got, RecordRow(j, d) PROVE TypeOK'
  <2>1. d \in Door /\ Plan(j) \in Plans
    BY <1>0, <1>17 DEF RecordRow
  <2>2. src' \in [Keys -> SourceRow]
    BY <1>17, <2>1 DEF RecordRow, SourceRow, Door, Ids
  <2>3. loc' \in [Jobs -> Locals]
    BY <1>17, <1>0 DEF RecordRow, Locals
  <2> QED BY <1>17, <2>2, <2>3 DEF RecordRow
<1>18. CASE RollUp(j)
  <2>1. access' \in AccessRow
    BY <1>18, RollupType, StatusType DEF RollUp
  <2> QED BY <1>18, <2>1 DEF RollUp
<1> QED
  BY <1>1, <1>2, <1>3, <1>5, <1>6, <1>7, <1>9, <1>10, <1>11, <1>12, <1>13,
     <1>14, <1>15, <1>16, <1>17, <1>18 DEF GrantStep

LEMMA HeldType ==
    ASSUME TypeOK, NEW ks \in SUBSET Keys
    PROVE  Held(ks) \in SUBSET Door
BY DEF Held, Door, Keys, TypeOK, SourceRow, Ids

LEMMA RowsAfterType ==
    ASSUME TypeOK, NEW k \in AllKinds \ GrantKinds
    PROVE  RowsAfter(k) \in [Keys -> SourceRow]
<1>1. CASE k \in CancelKinds
  BY <1>1 DEF RowsAfter, TypeOK, CancelKinds
<1>2. CASE k = "deleted"
  BY <1>2 DEF RowsAfter, TypeOK, CancelKinds, SourceRow, NoRow, Ids
<1>3. CASE k = "payfail"
  BY <1>3 DEF RowsAfter, TypeOK, CancelKinds, SourceRow
<1>4. CASE k = "recovered"
  BY <1>4 DEF RowsAfter, TypeOK, CancelKinds, SourceRow
<1> QED BY <1>1, <1>2, <1>3, <1>4 DEF AllKinds, GrantKinds, CancelKinds

\* The steps of the revokes keep the types.
LEMMA TypeRevoke ==
    ASSUME TypeOK, NEW j \in Jobs, RevokeStep(j),
           pc[j] = "complete" => job[j].kind \notin GrantKinds
    PROVE  TypeOK'
<1> USE StepNames DEF TypeOK, Goto, kisi
<1>0. loc[j] \in Locals /\ loc[j].todo \in SUBSET Door /\ access.user \in Nat
  BY DEF Locals, Ids, AccessRow
<1>1. CASE SkipUnknown(j)
  BY <1>1 DEF SkipUnknown
<1>2. CASE ResolveRevoke(j)
  <2>1. loc' \in [Jobs -> Locals]
    BY <1>2, <1>0 DEF ResolveRevoke, Locals, Ids
  <2>2. access' \in AccessRow
    BY <1>2, StatusType DEF ResolveRevoke
  <2> QED BY <1>2, <2>1, <2>2 DEF ResolveRevoke
<1>3. CASE Scan(j)
  <2>1. \A ks \in SUBSET Keys : [loc[j] EXCEPT !.todo = Held(ks)] \in Locals
    BY <1>0, HeldType DEF Locals
  <2>2. Rows \in SUBSET Keys /\ {k \in Rows : src[k].role # 0} \in SUBSET Keys
    BY DEF Rows
  <2>3. loc' \in [Jobs -> Locals]
    BY <1>3, <2>1, <2>2 DEF Scan
  <2> QED BY <1>3, <2>3 DEF Scan
<1>4. ASSUME NEW d \in loc[j].todo, Count(j, d) PROVE TypeOK'
  <2>1. loc' \in [Jobs -> Locals]
    BY <1>4, <1>0 DEF Count, Locals
  <2> QED BY <1>4, <2>1 DEF Count
<1>5. CASE CountedAll(j)
  BY <1>5 DEF CountedAll
<1>6. CASE RemoveRole(j, FALSE) \/ SetEnabled(j, FALSE) \/ DeleteUser(j, FALSE)
  BY <1>6, TypeKisiCalls
<1>7. CASE RefuseNullRole(j)
  BY <1>7, ThrownType DEF RefuseNullRole, Throw
<1>8. CASE DropRow(j)
  <2>1. src' \in [Keys -> SourceRow]
    BY <1>8 DEF DropRow, SourceRow, NoRow, Ids
  <2>2. loc' \in [Jobs -> Locals]
    BY <1>8, <1>0 DEF DropRow, Locals
  <2> QED BY <1>8, <2>1, <2>2 DEF DropRow
<1>9. CASE \E d \in loc[j].todo : WipeRole(j, d, FALSE)
  BY <1>9, TypeKisiCalls
<1>11. CASE SetEnabledGone(j)
  BY <1>11, ThrownType DEF SetEnabledGone, Throw
<1>12. CASE CompleteRevoke(j)
  <2>1. src' \in [Keys -> SourceRow]
    BY <1>12, RowsAfterType DEF CompleteRevoke, Job
  <2>2. access' \in AccessRow
    BY <1>12, RollupType, StatusType DEF CompleteRevoke
  <2> QED BY <1>12, <2>1, <2>2 DEF CompleteRevoke
<1>13. CASE Finalize(j)
  BY <1>13 DEF Finalize
<1>14. CASE KeepForeignUser(j)
  BY <1>14 DEF KeepForeignUser
<1>16. CASE MarkDeleted(j)
  BY <1>16, StatusType DEF MarkDeleted
<1> QED
  BY <1>1, <1>2, <1>3, <1>4, <1>5, <1>6, <1>7, <1>8, <1>9, <1>11, <1>12,
     <1>13, <1>14, <1>16 DEF RevokeStep

\* The calls that fail or whose answer is lost keep the types too.
LEMMA TypeFault ==
    ASSUME TypeOK, NEW j \in Jobs, FaultStep(j)
    PROVE  TypeOK'
<1> USE StepNames DEF TypeOK, Goto, kisi
<1>0. loc[j] \in Locals /\ loc[j].todo \in SUBSET Door
  BY DEF Locals
<1>1. CASE \E out \in {"retry", "dead"} : Fail(j, out)
  BY <1>1, TypeQueue
<1>2. CASE CatchFails(j) \/ Crash(j)
  BY <1>2, TypeQueue
<1>3. CASE FindOrCreateUser(j, TRUE)
  BY <1>3, TypeKisiCalls
<1>4. CASE \E d \in loc[j].todo : AssignRole(j, d, TRUE)
  BY <1>4, TypeKisiCalls
<1>5. CASE \E d \in loc[j].todo : DoorMissing(j, d)
  <2>1. PICK d \in loc[j].todo : DoorMissing(j, d)
    BY <1>5
  <2>2. loc' \in [Jobs -> Locals]
    BY <2>1, <1>0 DEF DoorMissing, MissDoor, Locals, Flags
  <2> QED BY <2>1, <2>2 DEF DoorMissing
<1>6. CASE RemoveRole(j, TRUE) \/ SetEnabled(j, TRUE) \/ DeleteUser(j, TRUE)
  BY <1>6, TypeKisiCalls
<1>7. CASE \E d \in loc[j].todo : WipeRole(j, d, TRUE)
  BY <1>7, TypeKisiCalls
<1> QED BY <1>1, <1>2, <1>3, <1>4, <1>5, <1>6, <1>7 DEF FaultStep

-----------------------------------------------------------------------------
(* How the steps move a run: who moves, from where, to where.              *)

LEMMA RunningNames ==
    /\ \A s \in GrantAt \cup RevokeAt : s \in Running
    /\ {"resolve", "catch", "leave"} \subseteq Running
    /\ Running \cap Resting = {}
BY DEF Running, Resting, AtKisi, AtDb, GrantAt, RevokeAt, CancelAt

\* Everybody but j keeps still, j keeps its job and the lock stays put.
OnlyMoves(j) ==
    /\ \A i \in Jobs \ {j} : pc'[i] = pc[i] /\ loc'[i] = loc[i]
    /\ memberLock' = memberLock
    /\ \A i \in Jobs : job'[i].kind = job[i].kind /\ job'[i].plan = job[i].plan

LEMMA AnswerMoves ==
    ASSUME TypeOK, NEW j \in Jobs, NEW lost \in BOOLEAN, NEW step, NEW l,
           Answer(j, lost, step, l)
    PROVE  /\ pc'[j] = (IF lost THEN "catch" ELSE step)
           /\ loc'[j] = (IF lost THEN Thrown(j, "retry") ELSE l)
           /\ \A i \in Jobs \ {j} : pc'[i] = pc[i] /\ loc'[i] = loc[i]
BY DEF Answer, Throw, Goto, TypeOK

LEMMA GrantMoves ==
    ASSUME TypeOK, KindsFit, NEW j \in Jobs, GrantStep(j)
    PROVE  /\ pc[j] \in Running
           /\ job[j].kind \in GrantKinds
           /\ pc'[j] \in GrantAt \cup {"catch", "leave"}
           /\ OnlyMoves(j)
<1> USE DEF Goto, OnlyMoves, GrantAt, RevokeAt, CancelAt, kisi
<1>0. pc \in [Jobs -> Steps] /\ loc \in [Jobs -> Locals]
      /\ (pc[j] \in GrantAt => job[j].kind \in GrantKinds)
  BY DEF TypeOK, KindsFit
<1>1. CASE SkipStarted(j) \/ ResolveGrant(j)
  BY <1>0, <1>1, RunningNames DEF SkipStarted, ResolveGrant, GrantKinds
<1>2. CASE ParkUnmapped(j) \/ ParkHardware(j) \/ ParkStart(j) \/ ParkIdentity(j)
  BY <1>0, <1>2, RunningNames DEF ParkUnmapped, ParkHardware, ParkStart, ParkIdentity, WriteParkedRows
<1>3. CASE IdentifyCached(j) \/ PurgeRows(j) \/ CacheUser(j)
  BY <1>0, <1>3, RunningNames DEF IdentifyCached, PurgeRows, CacheUser
<1>4. CASE FindOrCreateUser(j, FALSE)
  BY <1>0, <1>4, RunningNames, AnswerMoves DEF FindOrCreateUser
<1>5. ASSUME NEW d \in loc[j].todo, ReuseRole(j, d) \/ UserGone(j, d)
      PROVE  pc[j] = "assign" /\ pc' = pc /\ OnlyMoves(j)
  BY <1>0, <1>5 DEF ReuseRole, UserGone, MissDoor
<1>6. ASSUME NEW d \in loc[j].todo, AssignRole(j, d, FALSE)
      PROVE  pc[j] = "assign" /\ pc'[j] = "assign" /\ OnlyMoves(j)
  BY <1>0, <1>6, AnswerMoves DEF AssignRole
<1>7. CASE EndAssign(j)
  BY <1>0, <1>7, RunningNames DEF EndAssign, Throw
<1>8. ASSUME NEW d \in loc[j].got, RecordRow(j, d)
      PROVE  pc[j] = "record" /\ pc'[j] \in {"record", "rollup"} /\ OnlyMoves(j)
  BY <1>0, <1>8 DEF RecordRow
<1>9. CASE RollUp(j)
  BY <1>0, <1>9, RunningNames DEF RollUp
<1>10. CASE \E d \in loc[j].todo : ReuseRole(j, d) \/ UserGone(j, d) \/ AssignRole(j, d, FALSE)
  BY <1>0, <1>5, <1>6, <1>10, RunningNames
<1>11. CASE \E d \in loc[j].got : RecordRow(j, d)
  BY <1>0, <1>8, <1>11, RunningNames
<1> QED BY <1>1, <1>2, <1>3, <1>4, <1>7, <1>9, <1>10, <1>11 DEF GrantStep

LEMMA RevokeMoves ==
    ASSUME TypeOK, KindsFit, NEW j \in Jobs, RevokeStep(j)
    PROVE  /\ pc[j] \in Running
           /\ job[j].kind \notin GrantKinds
           /\ pc'[j] \in RevokeAt \cup {"catch", "leave"}
           /\ pc'[j] \in CancelAt => job[j].kind \in CancelKinds
           /\ OnlyMoves(j)
           /\ pc'[j] = "remove" => \E d \in loc[j].todo : Count(j, d)
<1> USE DEF Goto, OnlyMoves, RevokeAt, CancelAt, kisi
<1>0. /\ pc \in [Jobs -> Steps] /\ loc \in [Jobs -> Locals]
      /\ (pc[j] \in RevokeAt => job[j].kind \notin GrantKinds)
      /\ (pc[j] \in CancelAt => job[j].kind \in CancelKinds)
  BY DEF TypeOK, KindsFit
<1>1. CASE SkipUnknown(j) \/ ResolveRevoke(j)
  BY <1>0, <1>1, RunningNames DEF SkipUnknown, ResolveRevoke
<1>2. CASE Scan(j)
  BY <1>0, <1>2, RunningNames DEF Scan
<1>3. ASSUME NEW d \in loc[j].todo, Count(j, d)
      PROVE  pc[j] = "count" /\ pc'[j] \in {"drop", "remove"} /\ OnlyMoves(j)
  BY <1>0, <1>3 DEF Count
<1>4. ASSUME NEW d \in loc[j].todo, WipeRole(j, d, FALSE)
      PROVE  pc[j] = "wipe" /\ pc'[j] = "wipe" /\ OnlyMoves(j)
  BY <1>0, <1>4, AnswerMoves DEF WipeRole
<1>5. CASE CountedAll(j)
  BY <1>0, <1>5, RunningNames DEF CountedAll
<1>6. CASE RemoveRole(j, FALSE)
  <2>1. pc[j] = "remove" /\ pc'[j] = "drop" /\ OnlyMoves(j)
    BY <1>0, <1>6, AnswerMoves DEF RemoveRole
  <2> QED BY <1>0, <2>1, RunningNames
<1>11. CASE SetEnabled(j, FALSE)
  <2>1. pc[j] \in {"suspend", "enable"} /\ pc'[j] = "complete" /\ OnlyMoves(j)
    BY <1>0, <1>11, AnswerMoves DEF SetEnabled
  <2> QED BY <1>0, <2>1, RunningNames
<1>12. CASE DeleteUser(j, FALSE)
  <2>1. pc[j] = "delete" /\ pc'[j] = "mark" /\ OnlyMoves(j)
    BY <1>0, <1>12, AnswerMoves DEF DeleteUser
  <2> QED BY <1>0, <2>1, RunningNames
<1>7. CASE RefuseNullRole(j) \/ SetEnabledGone(j)
  BY <1>0, <1>7, RunningNames DEF RefuseNullRole, SetEnabledGone, Throw
<1>8. CASE DropRow(j) \/ CompleteRevoke(j) \/ MarkDeleted(j)
  BY <1>0, <1>8, RunningNames DEF DropRow, CompleteRevoke, MarkDeleted
<1>9. CASE Finalize(j) \/ KeepForeignUser(j)
  BY <1>0, <1>9, RunningNames DEF Finalize, KeepForeignUser
<1>10. CASE \E d \in loc[j].todo : Count(j, d) \/ WipeRole(j, d, FALSE)
  BY <1>0, <1>3, <1>4, <1>10, RunningNames
<1> QED BY <1>1, <1>2, <1>5, <1>6, <1>7, <1>8, <1>9, <1>10, <1>11, <1>12 DEF RevokeStep

LEMMA FaultMoves ==
    ASSUME TypeOK, NEW j \in Jobs, FaultStep(j)
    PROVE  /\ pc[j] \in Running
           /\ pc'[j] \in {"catch", "leave", "lost"} \/ (pc[j] = "assign" /\ pc'[j] = "assign")
           /\ OnlyMoves(j)
<1> USE DEF Goto, OnlyMoves, kisi
<1>0. pc \in [Jobs -> Steps] /\ loc \in [Jobs -> Locals] /\ job \in [Jobs -> Job]
  BY DEF TypeOK
<1>a. {"assign", "identify", "remove", "wipe", "suspend", "enable", "delete", "catch"} \subseteq Running
      /\ AtKisi \subseteq Running /\ AtDb \subseteq Running
  BY DEF Running, AtKisi, AtDb
<1>1. CASE \E out \in {"retry", "dead"} : Fail(j, out)
  BY <1>0, <1>a, <1>1 DEF Fail
<1>2. CASE FindOrCreateUser(j, TRUE)
  BY <1>0, <1>a, <1>2, AnswerMoves DEF FindOrCreateUser
<1>3. CASE RemoveRole(j, TRUE) \/ SetEnabled(j, TRUE) \/ DeleteUser(j, TRUE)
  BY <1>0, <1>a, <1>3, AnswerMoves DEF RemoveRole, SetEnabled, DeleteUser
<1>4. ASSUME NEW d \in loc[j].todo, AssignRole(j, d, TRUE) \/ WipeRole(j, d, TRUE)
      PROVE  pc[j] \in {"assign", "wipe"} /\ pc'[j] = "catch" /\ OnlyMoves(j)
  BY <1>0, <1>4, AnswerMoves DEF AssignRole, WipeRole
<1>5. ASSUME NEW d \in loc[j].todo, DoorMissing(j, d)
      PROVE  pc[j] = "assign" /\ pc'[j] = "assign" /\ OnlyMoves(j)
  BY <1>0, <1>5 DEF DoorMissing, MissDoor
<1>6. CASE CatchFails(j)
  BY <1>0, <1>a, <1>6 DEF CatchFails
<1>7. CASE Crash(j)
  BY <1>0, <1>7 DEF Crash, Job
<1>8. CASE \E d \in loc[j].todo : \/ AssignRole(j, d, TRUE) \/ DoorMissing(j, d)
                                  \/ WipeRole(j, d, TRUE)
  BY <1>a, <1>4, <1>5, <1>8
<1> QED BY <1>1, <1>2, <1>3, <1>6, <1>7, <1>8 DEF FaultStep

\* The steps that are not a grant's, a revoke's or a fault.
EnvStep(j) ==
    \/ \E k \in Kinds, p \in Plans \cup {NoPlan} : Enqueue(j, k, p)
    \/ Take(j) \/ Catch(j) \/ Leave(j) \/ Stalled(j) \/ LockExpires(j)

LEMMA NextCases ==
    Next <=> \/ \E j \in Jobs : EnvStep(j) \/ GrantStep(j) \/ RevokeStep(j) \/ FaultStep(j)
             \/ ReleaseStaleLocks
             \/ StaffDeletesUser
BY DEF Next, RunStep, EnvStep

LEMMA TypeNext == TypeOK /\ KindsFit /\ [Next]_vars => TypeOK'
<1> SUFFICES ASSUME TypeOK, KindsFit, [Next]_vars PROVE TypeOK'
  OBVIOUS
<1>1. ASSUME NEW j \in Jobs, EnvStep(j) PROVE TypeOK'
  BY <1>1, TypeQueue DEF EnvStep
<1>2. ASSUME NEW j \in Jobs, GrantStep(j) PROVE TypeOK'
  <2>1. job[j].kind \in GrantKinds /\ pc[j] \in Running
    BY <1>2, GrantMoves
  <2>2. Plan(j) \in Plans
    BY <2>1, RunningNames DEF KindsFit, GrantKinds, PlanKinds, Resting
  <2> QED BY <1>2, <2>1, <2>2, DoorsType, TypeGrant
<1>3. ASSUME NEW j \in Jobs, RevokeStep(j) PROVE TypeOK'
  BY <1>3, RevokeMoves, TypeRevoke
<1>4. ASSUME NEW j \in Jobs, FaultStep(j) PROVE TypeOK'
  BY <1>4, TypeFault
<1>5. ASSUME ReleaseStaleLocks PROVE TypeOK'
  BY <1>5, StatusType DEF ReleaseStaleLocks, TypeOK, kisi
<1>6. ASSUME StaffDeletesUser PROVE TypeOK'
  <2>1. kuser' = 0 /\ disabled' = FALSE /\ kroles' \subseteq kroles /\ faults' = faults + 1
        /\ UNCHANGED <<access, src, minted, memberLock, job, pc, loc>>
    BY <1>6 DEF StaffDeletesUser
  <2>2. faults' \in Nat
    BY <2>1 DEF TypeOK
  <2> QED BY <2>1, <2>2 DEF TypeOK, Ids
<1>7. ASSUME UNCHANGED vars PROVE TypeOK'
  BY <1>7 DEF vars, TypeOK
<1> QED BY <1>1, <1>2, <1>3, <1>4, <1>5, <1>6, <1>7, NextCases

\* A run never starts while another one is under way.
LEMMA SerialNext == TypeOK /\ Serial /\ KindsFit /\ [Next]_vars => Serial'
<1> SUFFICES ASSUME TypeOK, Serial, KindsFit, [Next]_vars PROVE Serial'
  OBVIOUS
<1>1. ASSUME NEW j \in Jobs, EnvStep(j) PROVE Serial'
  <2> USE DEF Goto, Serial
  <2>0. pc \in [Jobs -> Steps] /\ NoJob \notin Jobs /\ {"absent", "queued", "lost", "done", "dead"} \cap Running = {}
    BY ConstantsAssumption, RunningNames DEF TypeOK, Resting
  <2>1. CASE \E k \in Kinds, p \in Plans \cup {NoPlan} : Enqueue(j, k, p)
    BY <2>0, <2>1 DEF Enqueue
  <2>2. CASE Take(j)
    BY <2>0, <2>2 DEF Take
  <2>3. CASE Catch(j)
    BY <2>0, <2>3, RunningNames DEF Catch
  <2>4. CASE Leave(j)
    <3>1. pc'[j] \notin Running /\ \A i \in Jobs \ {j} : pc'[i] = pc[i]
      BY <2>0, <2>4 DEF Leave
    <3>2. memberLock = j
      BY <2>4, RunningNames DEF Leave
    <3> QED BY <3>1, <3>2
  <2>5. CASE Stalled(j)
    BY <2>0, <2>5 DEF Stalled
  <2>6. CASE LockExpires(j)
    BY <2>0, <2>6, RunningNames DEF LockExpires
  <2> QED BY <1>1, <2>1, <2>2, <2>3, <2>4, <2>5, <2>6 DEF EnvStep
<1>2. ASSUME NEW j \in Jobs, GrantStep(j) \/ RevokeStep(j) \/ FaultStep(j) PROVE Serial'
  BY <1>2, GrantMoves, RevokeMoves, FaultMoves DEF Serial, OnlyMoves
<1>3. ASSUME ReleaseStaleLocks \/ StaffDeletesUser \/ UNCHANGED vars PROVE Serial'
  BY <1>3 DEF ReleaseStaleLocks, StaffDeletesUser, vars, Serial
<1> QED BY <1>1, <1>2, <1>3, NextCases

\* A run never strays into the steps of another kind of job.
LEMMA KindsNext == TypeOK /\ KindsFit /\ [Next]_vars => KindsFit'
<1> SUFFICES ASSUME TypeOK, KindsFit, [Next]_vars PROVE KindsFit'
  OBVIOUS
<1> USE DEF KindsFit, Plan
<1>0. pc \in [Jobs -> Steps] /\ job \in [Jobs -> Job]
  BY DEF TypeOK
<1>a. {"absent", "queued", "lost", "done", "dead", "resolve", "catch", "leave"} \cap (GrantAt \cup RevokeAt) = {}
      /\ CancelAt \subseteq RevokeAt /\ "absent" \notin Running
  BY DEF GrantAt, RevokeAt, CancelAt, Running, AtKisi, AtDb
<1>1. ASSUME NEW j \in Jobs, EnvStep(j) PROVE KindsFit'
  <2> USE DEF Goto
  <2>1. CASE \E k \in Kinds, p \in Plans \cup {NoPlan} : Enqueue(j, k, p)
    BY <1>0, <1>a, <2>1 DEF Enqueue, Job
  <2>2. CASE Take(j)
    BY <1>0, <1>a, <2>2 DEF Take
  <2>3. CASE Catch(j)
    BY <1>0, <1>a, <2>3 DEF Catch
  <2>4. CASE Leave(j)
    <3>1. pc'[j] \in {"done", "dead", "queued"} /\ \A i \in Jobs \ {j} : pc'[i] = pc[i]
      BY <1>0, <2>4 DEF Leave
    <3>2. \A i \in Jobs : job'[i].kind = job[i].kind /\ job'[i].plan = job[i].plan
      BY <1>0, <2>4 DEF Leave, Job
    <3>3. pc[j] # "absent"
      BY <2>4 DEF Leave
    <3> QED BY <1>a, <3>1, <3>2, <3>3
  <2>5. CASE Stalled(j)
    BY <1>0, <1>a, <2>5 DEF Stalled
  <2>6. CASE LockExpires(j)
    BY <2>6 DEF LockExpires
  <2> QED BY <1>1, <2>1, <2>2, <2>3, <2>4, <2>5, <2>6 DEF EnvStep
<1>2. ASSUME NEW j \in Jobs, GrantStep(j) PROVE KindsFit'
  <2>1. pc[j] \in Running /\ job[j].kind \in GrantKinds /\ OnlyMoves(j)
        /\ pc'[j] \in GrantAt \cup {"catch", "leave"}
    BY <1>2, GrantMoves
  <2>2. GrantAt \cap RevokeAt = {}
    BY DEF GrantAt, RevokeAt, CancelAt
  <2> QED BY <1>a, <2>1, <2>2 DEF OnlyMoves
<1>3. ASSUME NEW j \in Jobs, RevokeStep(j) PROVE KindsFit'
  <2>1. pc[j] \in Running /\ job[j].kind \notin GrantKinds /\ OnlyMoves(j)
        /\ pc'[j] \in RevokeAt \cup {"catch", "leave"}
        /\ (pc'[j] \in CancelAt => job[j].kind \in CancelKinds)
    BY <1>3, RevokeMoves
  <2>2. GrantAt \cap RevokeAt = {}
    BY DEF GrantAt, RevokeAt, CancelAt
  <2> QED BY <1>a, <2>1, <2>2 DEF OnlyMoves
<1>4. ASSUME NEW j \in Jobs, FaultStep(j) PROVE KindsFit'
  <2>1. pc[j] \in Running /\ OnlyMoves(j)
        /\ (pc'[j] \in {"catch", "leave", "lost"} \/ pc'[j] = pc[j])
    BY <1>4, FaultMoves
  <2> QED BY <1>a, <2>1 DEF OnlyMoves
<1>5. ASSUME ReleaseStaleLocks \/ StaffDeletesUser \/ UNCHANGED vars PROVE KindsFit'
  BY <1>5 DEF ReleaseStaleLocks, StaffDeletesUser, vars
<1> QED BY <1>1, <1>2, <1>3, <1>4, <1>5, NextCases

LEMMA ControlInit == Init => Serial /\ KindsFit
BY RunningNames DEF Init, Serial, KindsFit, GrantAt, RevokeAt, CancelAt, Resting

\* The variables keep their types, whatever fails, crashes or interleaves.
THEOREM TypeCorrect == Spec => []TypeOK
<1>1. Init => TypeOK /\ Serial /\ KindsFit
  BY TypeInit, ControlInit
<1>2. TypeOK /\ Serial /\ KindsFit /\ [Next]_vars => (TypeOK /\ Serial /\ KindsFit)'
  BY TypeNext, SerialNext, KindsNext
<1> QED BY <1>1, <1>2, PTL DEF Spec

-----------------------------------------------------------------------------
(* Role ids: every id written down after a step was written down before it, *)
(* or it is the one Kisi has just issued.                                   *)

DoorsOfRun(l) == l.todo \cup l.got \cup {l.cur}

\* What RefNext shows of each step; h is the group a new role is for.
Inherits(h) ==
    LET Known(i, g) == \/ i = 0 \/ Ref(i, g)
                       \/ i = minted + 1 /\ minted' = minted + 1 /\ g = h
    IN  /\ minted' \in {minted, minted + 1}
        /\ \A r \in kroles' : Known(r.id, r.group)
        /\ \A k \in Keys : Known(src'[k].role, k[2])
        /\ \A i \in Jobs : \A d \in DoorsOfRun(loc'[i]) : Known(d.role, d.group)

LEMMA OldRefs ==
    /\ \A r \in kroles : Ref(r.id, r.group)
    /\ \A k \in Keys : Ref(src[k].role, k[2])
    /\ \A j \in Jobs : \A d \in DoorsOfRun(loc[j]) : Ref(d.role, d.group)
BY DEF Ref, DoorsOfRun

\* Steps that write no id down at all.
LEMMA Forgets ==
    ASSUME TypeOK, NEW h, NEW j \in Jobs,
           minted' \in {minted, minted + 1},
           kroles' \subseteq kroles,
           \A k \in Keys : src'[k] = src[k] \/ src'[k].role \in {0, src[k].role},
           \A i \in Jobs \ {j} : loc'[i] = loc[i],
           \A d \in DoorsOfRun(loc'[j]) : d.role = 0 \/ d \in DoorsOfRun(loc[j])
    PROVE  Inherits(h)
BY OldRefs DEF Inherits

LEMMA BlankLocals ==
    /\ \A d \in DoorsOfRun(FreshLoc) : d.role = 0
    /\ \A j, out : \A d \in DoorsOfRun(Thrown(j, out)) : d.role = 0
    /\ \A j, u : \A d \in DoorsOfRun(ToAssign(j, u)) : d.role = 0 \/ d \in DoorsOfRun(loc[j])
BY DEF DoorsOfRun, FreshLoc, Thrown, ToAssign, NoDoor, Doors

LEMMA CallRefs ==
    ASSUME TypeOK, NEW j \in Jobs, NEW lost \in BOOLEAN
    PROVE  /\ FindOrCreateUser(j, lost) => Inherits(0)
           /\ \A d \in loc[j].todo : AssignRole(j, d, lost) => Inherits(d.group)
           /\ \A d \in loc[j].todo : WipeRole(j, d, lost) => Inherits(0)
           /\ RemoveRole(j, lost) => Inherits(0)
           /\ SetEnabled(j, lost) => Inherits(0)
           /\ DeleteUser(j, lost) => Inherits(0)
<1>0. loc[j] \in Locals /\ loc \in [Jobs -> Locals]
  BY DEF TypeOK
<1>1. ASSUME FindOrCreateUser(j, lost) PROVE Inherits(0)
  <2>1. \A d \in DoorsOfRun(loc'[j]) : d.role = 0 \/ d \in DoorsOfRun(loc[j])
    BY <1>0, <1>1, AnswerMoves, BlankLocals DEF FindOrCreateUser, DoorsOfRun, Locals
  <2>2. \A i \in Jobs \ {j} : loc'[i] = loc[i]
    BY <1>1, AnswerMoves DEF FindOrCreateUser
  <2> QED BY <1>1, <2>1, <2>2, Forgets DEF FindOrCreateUser, NextId
<1>2. ASSUME NEW d \in loc[j].todo, AssignRole(j, d, lost) PROVE Inherits(d.group)
  <2> DEFINE held == {r \in RolesOf(kuser) : r.group = d.group}
             id   == IF held = {} THEN NextId ELSE (CHOOSE r \in held : TRUE).id
             new  == [d EXCEPT !.role = id]
  <2>0. d \in Door
    BY <1>0 DEF Locals
  <2>1. Ref(id, d.group) \/ (id = minted + 1 /\ minted' = minted + 1)
    <3>1. CASE held = {}
      BY <1>2, <3>1 DEF AssignRole, NextId
    <3>2. CASE held # {}
      <4>1. PICK r \in held : r = (CHOOSE x \in held : TRUE)
        BY <3>2
      <4> QED BY <3>2, <4>1, OldRefs DEF RolesOf
    <3> QED BY <3>1, <3>2
  <2>2. minted' \in {minted, minted + 1} /\ src' = src
        /\ kroles' = kroles \cup {[id |-> id, user |-> kuser, group |-> d.group]}
    BY <1>2 DEF AssignRole, NextId
  <2>3. new.role = id /\ new.group = d.group
    BY <2>0 DEF Door
  <2>4. \A i \in Jobs \ {j} : loc'[i] = loc[i]
    BY <1>2, AnswerMoves DEF AssignRole
  <2>5. \A x \in DoorsOfRun(loc'[j]) : x.role = 0 \/ x \in DoorsOfRun(loc[j]) \/ x = new
    <3>1. loc'[j] = (IF lost THEN Thrown(j, "retry")
                     ELSE [loc[j] EXCEPT !.todo = @ \ {d}, !.got = @ \cup {new}])
      BY <1>2, AnswerMoves DEF AssignRole
    <3> HIDE DEF new
    <3>2. CASE lost
      BY <3>1, <3>2, BlankLocals
    <3>3. CASE ~lost
      <4>1. /\ loc'[j].todo = loc[j].todo \ {d}
            /\ loc'[j].got = loc[j].got \cup {new}
            /\ loc'[j].cur = loc[j].cur
        BY <1>0, <3>1, <3>3 DEF Locals
      <4> QED BY <4>1 DEF DoorsOfRun
    <3> QED BY <3>2, <3>3
  <2> HIDE DEF held, id, new
  <2>6. \A r \in kroles' : Ref(r.id, r.group) \/ (r.id = id /\ r.group = d.group)
    BY <2>2, OldRefs
  <2>7. \A k \in Keys : Ref(src'[k].role, k[2])
    BY <2>2, OldRefs
  <2>8. \A i \in Jobs : \A x \in DoorsOfRun(loc'[i]) :
           x.role = 0 \/ Ref(x.role, x.group) \/ (x.role = id /\ x.group = d.group)
    BY <2>3, <2>4, <2>5, OldRefs
  <2> QED BY <2>1, <2>2, <2>6, <2>7, <2>8 DEF Inherits
<1>3. ASSUME NEW d \in loc[j].todo, WipeRole(j, d, lost) PROVE Inherits(0)
  <2>1. \A x \in DoorsOfRun(loc'[j]) : x.role = 0 \/ x \in DoorsOfRun(loc[j])
    BY <1>0, <1>3, AnswerMoves, BlankLocals DEF WipeRole, DoorsOfRun, Locals
  <2>2. \A i \in Jobs \ {j} : loc'[i] = loc[i]
    BY <1>3, AnswerMoves DEF WipeRole
  <2> QED BY <1>3, <2>1, <2>2, Forgets DEF WipeRole
<1>4. ASSUME RemoveRole(j, lost) \/ SetEnabled(j, lost) \/ DeleteUser(j, lost) PROVE Inherits(0)
  <2>1. loc'[j] = loc[j] \/ loc'[j] = Thrown(j, "retry")
    BY <1>4, AnswerMoves DEF RemoveRole, SetEnabled, DeleteUser
  <2>2. \A i \in Jobs \ {j} : loc'[i] = loc[i]
    BY <1>4, AnswerMoves DEF RemoveRole, SetEnabled, DeleteUser
  <2>3. minted' = minted /\ src' = src /\ kroles' \subseteq kroles
    BY <1>4 DEF RemoveRole, SetEnabled, DeleteUser
  <2> QED BY <2>1, <2>2, <2>3, Forgets, BlankLocals
<1> QED BY <1>1, <1>2, <1>3, <1>4

LEMMA GrantRefs ==
    ASSUME TypeOK, NEW j \in Jobs, GrantStep(j)
    PROVE  \E h : Inherits(h)
<1> USE DEF kisi, Goto
<1>0. loc[j] \in Locals /\ loc \in [Jobs -> Locals]
  BY DEF TypeOK
<1>1. CASE SkipStarted(j) \/ ResolveGrant(j) \/ ParkUnmapped(j) \/ ParkIdentity(j) \/ RollUp(j)
  BY <1>1, Forgets DEF SkipStarted, ResolveGrant, ParkUnmapped, ParkIdentity, RollUp
<1>2. CASE ParkHardware(j) \/ ParkStart(j)
  BY <1>2, Forgets DEF ParkHardware, ParkStart, WriteParkedRows
<1>3. CASE PurgeRows(j)
  BY <1>3, Forgets DEF PurgeRows, NoRow
<1>4. CASE IdentifyCached(j) \/ CacheUser(j)
  <2>1. \E u : loc' = [loc EXCEPT ![j] = ToAssign(j, u)]
    BY <1>4 DEF IdentifyCached, CacheUser
  <2>2. minted' = minted /\ src' = src /\ kroles' = kroles
    BY <1>4 DEF IdentifyCached, CacheUser
  <2> QED BY <1>0, <2>1, <2>2, Forgets, BlankLocals
<1>5. CASE FindOrCreateUser(j, FALSE) \/ \E d \in loc[j].todo : AssignRole(j, d, FALSE)
  BY <1>5, CallRefs
<1>6. ASSUME NEW d \in loc[j].todo, ReuseRole(j, d) PROVE Inherits(0)
  <2>1. PICK r \in Reusable(d.group) :
          loc' = [loc EXCEPT ![j].todo = @ \ {d}, ![j].got = @ \cup {[d EXCEPT !.role = r]}]
    BY <1>6 DEF ReuseRole
  <2>2. Ref(r, d.group)
    BY OldRefs DEF Reusable, Rows
  <2>3. d \in Door
    BY <1>0 DEF Locals
  <2> DEFINE new == [d EXCEPT !.role = r]
  <2>4. new.role = r /\ new.group = d.group
    BY <2>3 DEF Door
  <2>5. \A x \in DoorsOfRun(loc'[j]) : x \in DoorsOfRun(loc[j]) \/ x = new
    <3>1. loc'[j] = [loc[j] EXCEPT !.todo = @ \ {d}, !.got = @ \cup {new}]
      BY <1>0, <2>1
    <3> HIDE DEF new
    <3> QED BY <1>0, <3>1 DEF DoorsOfRun, Locals
  <2>6. \A i \in Jobs \ {j} : loc'[i] = loc[i]
    BY <1>0, <2>1
  <2>7. minted' = minted /\ src' = src /\ kroles' = kroles
    BY <1>6 DEF ReuseRole
  <2> QED BY <2>2, <2>4, <2>5, <2>6, <2>7, OldRefs DEF Inherits
<1>7. ASSUME NEW d \in loc[j].todo, UserGone(j, d) PROVE Inherits(0)
  <2>1. \A x \in DoorsOfRun(loc'[j]) : x \in DoorsOfRun(loc[j])
    BY <1>0, <1>7 DEF UserGone, MissDoor, DoorsOfRun, Locals
  <2>2. \A i \in Jobs \ {j} : loc'[i] = loc[i]
    BY <1>0, <1>7 DEF UserGone, MissDoor
  <2> QED BY <1>7, <2>1, <2>2, Forgets DEF UserGone
<1>8. CASE EndAssign(j)
  <2>1. \A x \in DoorsOfRun(loc'[j]) : x.role = 0 \/ x \in DoorsOfRun(loc[j])
    BY <1>0, <1>8, BlankLocals DEF EndAssign, Throw, DoorsOfRun, Locals
  <2>2. \A i \in Jobs \ {j} : loc'[i] = loc[i]
    BY <1>0, <1>8 DEF EndAssign, Throw
  <2> QED BY <1>8, <2>1, <2>2, Forgets DEF EndAssign
<1>9. ASSUME NEW d \in loc[j].got, RecordRow(j, d) PROVE Inherits(0)
  <2>1. \A x \in DoorsOfRun(loc'[j]) : x \in DoorsOfRun(loc[j])
    BY <1>0, <1>9 DEF RecordRow, DoorsOfRun, Locals
  <2>2. \A i \in Jobs \ {j} : loc'[i] = loc[i]
    BY <1>0, <1>9 DEF RecordRow
  <2>3. Ref(d.role, d.group)
    BY OldRefs DEF DoorsOfRun
  <2>4. \A k \in Keys : src'[k] = src[k] \/ (src'[k].role = d.role /\ k[2] = d.group)
    BY <1>9 DEF RecordRow, TypeOK, Keys
  <2> QED BY <1>9, <2>1, <2>2, <2>3, <2>4, OldRefs DEF RecordRow, Inherits
<1> QED
  BY <1>1, <1>2, <1>3, <1>4, <1>5, <1>6, <1>7, <1>8, <1>9 DEF GrantStep

LEMMA RevokeRefs ==
    ASSUME TypeOK, KindsFit, NEW j \in Jobs, RevokeStep(j)
    PROVE  \E h : Inherits(h)
<1> USE DEF kisi, Goto
<1>0. loc[j] \in Locals /\ loc \in [Jobs -> Locals]
  BY DEF TypeOK
<1>1. CASE SkipUnknown(j) \/ CountedAll(j) \/ Finalize(j) \/ KeepForeignUser(j) \/ MarkDeleted(j)
  BY <1>1, Forgets DEF SkipUnknown, CountedAll, Finalize, KeepForeignUser, MarkDeleted
<1>2. CASE ResolveRevoke(j)
  <2>1. \A x \in DoorsOfRun(loc'[j]) : x \in DoorsOfRun(loc[j])
    BY <1>0, <1>2 DEF ResolveRevoke, DoorsOfRun, Locals
  <2>2. \A i \in Jobs \ {j} : loc'[i] = loc[i]
    BY <1>0, <1>2 DEF ResolveRevoke
  <2> QED BY <1>2, <2>1, <2>2, Forgets DEF ResolveRevoke
<1>3. CASE Scan(j)
  <2>1. PICK ks \in SUBSET Keys : loc' = [loc EXCEPT ![j].todo = Held(ks)]
    BY <1>3 DEF Scan, Rows
  <2>2. \A x \in DoorsOfRun(loc'[j]) : x \in DoorsOfRun(loc[j]) \/ x \in Held(ks)
    BY <1>0, <2>1 DEF DoorsOfRun, Locals
  <2>3. \A x \in Held(ks) : Ref(x.role, x.group)
    BY OldRefs DEF Held
  <2>4. \A i \in Jobs \ {j} : loc'[i] = loc[i]
    BY <1>0, <2>1
  <2>5. minted' = minted /\ src' = src /\ kroles' = kroles
    BY <1>3 DEF Scan
  <2> QED BY <2>2, <2>3, <2>4, <2>5, OldRefs DEF Inherits
<1>4. ASSUME NEW d \in loc[j].todo, Count(j, d) PROVE Inherits(0)
  <2>1. \A x \in DoorsOfRun(loc'[j]) : x \in DoorsOfRun(loc[j])
    BY <1>0, <1>4 DEF Count, DoorsOfRun, Locals
  <2>2. \A i \in Jobs \ {j} : loc'[i] = loc[i]
    BY <1>0, <1>4 DEF Count
  <2> QED BY <1>4, <2>1, <2>2, Forgets DEF Count
<1>5. CASE DropRow(j)
  <2>1. \A x \in DoorsOfRun(loc'[j]) : x.role = 0 \/ x \in DoorsOfRun(loc[j])
    BY <1>0, <1>5 DEF DropRow, DoorsOfRun, Locals, NoDoor
  <2>2. \A i \in Jobs \ {j} : loc'[i] = loc[i]
    BY <1>0, <1>5 DEF DropRow
  <2> QED BY <1>5, <2>1, <2>2, Forgets DEF DropRow, NoRow
<1>6. CASE RefuseNullRole(j) \/ SetEnabledGone(j)
  <2>1. \E out : loc' = [loc EXCEPT ![j] = Thrown(j, out)]
    BY <1>6 DEF RefuseNullRole, SetEnabledGone, Throw
  <2> QED BY <1>0, <1>6, <2>1, Forgets, BlankLocals DEF RefuseNullRole, SetEnabledGone
<1>7. CASE CompleteRevoke(j)
  <2>1. src' = RowsAfter(job[j].kind) /\ src \in [Keys -> SourceRow]
    BY <1>7 DEF CompleteRevoke, TypeOK
  <2>2. \A k \in Keys : src'[k].role \in {0, src[k].role}
    <3>1. CASE job[j].kind \in CancelKinds \cup {"deleted"}
      BY <2>1, <3>1 DEF RowsAfter, CancelKinds, NoRow
    <3>2. CASE job[j].kind \in {"payfail", "recovered"}
      BY <2>1, <3>2 DEF RowsAfter, CancelKinds, SourceRow
    <3>3. job[j].kind \in AllKinds \ GrantKinds
      BY RevokeMoves DEF TypeOK, Job
    <3> QED BY <3>1, <3>2, <3>3 DEF AllKinds, GrantKinds, CancelKinds
  <2> QED BY <1>7, <2>2, Forgets DEF CompleteRevoke
<1>8. CASE \/ RemoveRole(j, FALSE) \/ SetEnabled(j, FALSE) \/ DeleteUser(j, FALSE)
           \/ \E d \in loc[j].todo : WipeRole(j, d, FALSE)
  BY <1>8, CallRefs
<1> QED
  BY <1>1, <1>2, <1>3, <1>4, <1>5, <1>6, <1>7, <1>8 DEF RevokeStep

LEMMA NextRefs ==
    ASSUME TypeOK, KindsFit, [Next]_vars
    PROVE  \E h : Inherits(h)
<1> USE DEF kisi, Goto
<1>0. loc \in [Jobs -> Locals]
  BY DEF TypeOK
<1>1. ASSUME NEW j \in Jobs, EnvStep(j) PROVE Inherits(0)
  <2>1. minted' = minted /\ src' = src /\ kroles' = kroles
    BY <1>1 DEF EnvStep, Enqueue, Take, Catch, Leave, Stalled, LockExpires
  <2>2. loc' = loc \/ loc' = [loc EXCEPT ![j] = FreshLoc]
    BY <1>1 DEF EnvStep, Enqueue, Take, Catch, Leave, Stalled, LockExpires
  <2> QED BY <1>0, <2>1, <2>2, Forgets, BlankLocals
<1>2. ASSUME NEW j \in Jobs, FaultStep(j) PROVE \E h : Inherits(h)
  <2>1. CASE (\E out \in {"retry", "dead"} : Fail(j, out)) \/ CatchFails(j) \/ Crash(j)
    <3>1. minted' = minted /\ src' = src /\ kroles' = kroles
      BY <2>1 DEF Fail, CatchFails, Crash
    <3>2. loc' = loc \/ (\E out : loc' = [loc EXCEPT ![j] = Thrown(j, out)])
          \/ loc' = [loc EXCEPT ![j] = FreshLoc]
      BY <2>1 DEF Fail, CatchFails, Crash
    <3> QED BY <1>0, <3>1, <3>2, Forgets, BlankLocals
  <2>2. ASSUME NEW d \in loc[j].todo, DoorMissing(j, d) PROVE Inherits(0)
    <3>1. \A x \in DoorsOfRun(loc'[j]) : x \in DoorsOfRun(loc[j])
      BY <1>0, <2>2 DEF DoorMissing, MissDoor, DoorsOfRun, Locals
    <3>2. \A i \in Jobs \ {j} : loc'[i] = loc[i]
      BY <1>0, <2>2 DEF DoorMissing, MissDoor
    <3> QED BY <2>2, <3>1, <3>2, Forgets DEF DoorMissing
  <2> QED BY <1>2, <2>1, <2>2, CallRefs DEF FaultStep
<1>3. ASSUME ReleaseStaleLocks \/ StaffDeletesUser \/ UNCHANGED vars PROVE \E h : Inherits(h)
  <2>1. loc' = loc /\ src' = src /\ minted' = minted /\ kroles' \subseteq kroles
    BY <1>3 DEF ReleaseStaleLocks, StaffDeletesUser, vars
  <2> QED BY <2>1, OldRefs DEF Inherits
<1> QED BY <1>1, <1>2, <1>3, GrantRefs, RevokeRefs, NextCases

\* An id never comes to name a second group.
LEMMA IdsNext ==
    TypeOK /\ KindsFit /\ IdsAgree /\ IdsIssued /\ [Next]_vars => IdsAgree' /\ IdsIssued'
<1> SUFFICES ASSUME TypeOK, KindsFit, IdsAgree, IdsIssued, [Next]_vars
             PROVE  IdsAgree' /\ IdsIssued'
  OBVIOUS
<1>1. PICK h : Inherits(h)
  BY NextRefs
<1>2. minted \in Nat /\ minted' \in Nat /\ minted <= minted'
  BY <1>1 DEF Inherits, TypeOK
<1>3. \A i, g : Ref(i, g) => i \in Nat /\ i <= minted
  <2>1. \A j \in Jobs : \A d \in loc[j].todo \cup loc[j].got \cup {loc[j].cur} : d.role \in Nat
    BY DEF TypeOK, Locals, Door, NoDoor, Ids
  <2>2. \A r \in kroles : r.id \in Nat
    BY DEF TypeOK, Role, Ids
  <2>3. \A k \in Keys : src[k].role \in Nat
    BY DEF TypeOK, SourceRow, Ids
  <2> QED BY <2>1, <2>2, <2>3 DEF Ref, IdsIssued
<1>4. \A i, g : Ref(i, g)' => \/ i = 0 \/ Ref(i, g)
                              \/ i = minted + 1 /\ minted' = minted + 1 /\ g = h
  BY <1>1 DEF Inherits, Ref, DoorsOfRun
<1>5. IdsIssued'
  <2>1. \A i, g : Ref(i, g)' => i <= minted'
    BY <1>2, <1>3, <1>4
  <2>2. /\ \A r \in kroles' : Ref(r.id, r.group)'
        /\ \A k \in Keys : Ref(src[k].role, k[2])'
        /\ \A j \in Jobs : \A d \in (loc[j].todo \cup loc[j].got \cup {loc[j].cur})' :
              Ref(d.role, d.group)'
    BY DEF Ref
  <2> QED BY <2>1, <2>2 DEF IdsIssued
<1>6. IdsAgree'
  <2> SUFFICES ASSUME NEW i \in 1 .. minted', NEW g \in Groups, NEW k \in Groups,
                      Ref(i, g)', Ref(i, k)'
               PROVE  g = k
    BY DEF IdsAgree
  <2>1. CASE i = minted + 1
    BY <1>2, <1>3, <1>4, <2>1
  <2>2. CASE i # minted + 1
    <3>1. Ref(i, g) /\ Ref(i, k) /\ i \in 1 .. minted
      BY <1>2, <1>3, <1>4, <2>2
    <3> QED BY <3>1 DEF IdsAgree
  <2> QED BY <2>1, <2>2
<1> QED BY <1>5, <1>6

-----------------------------------------------------------------------------
(* The remaining-count and the doors it protects.                          *)

\* Serial leaves nobody to write a row between the count and its removeRole.
LEMMA CountNext ==
    TypeOK /\ Serial /\ KindsFit /\ CountStands /\ [Next]_vars => CountStands'
<1> SUFFICES ASSUME TypeOK, Serial, KindsFit, CountStands, [Next]_vars,
                    NEW i \in Jobs, pc'[i] = "remove"
             PROVE  Remaining(Plan(i), loc[i].cur.group)' = {}
  BY DEF CountStands
<1> USE DEF kisi, Goto
<1>0. /\ pc \in [Jobs -> Steps] /\ loc \in [Jobs -> Locals] /\ job \in [Jobs -> Job]
      /\ "remove" \in Running /\ NoJob \notin Jobs
  BY ConstantsAssumption DEF TypeOK, Running, AtKisi
\* Nothing the count depends on moves.
<1>a. ASSUME pc[i] = "remove", src' = src, loc'[i] = loc[i], job'[i].plan = job[i].plan
      PROVE  Remaining(Plan(i), loc[i].cur.group)' = {}
  BY <1>a DEF CountStands, Remaining, Rows, Plan
<1>1. ASSUME NEW j \in Jobs, EnvStep(j)
      PROVE  Remaining(Plan(i), loc[i].cur.group)' = {}
  <2>1. CASE \E k \in Kinds, p \in Plans \cup {NoPlan} : Enqueue(j, k, p)
    BY <1>0, <1>a, <2>1 DEF Enqueue, Job
  <2>2. CASE Take(j) \/ Catch(j) \/ Stalled(j) \/ LockExpires(j)
    BY <1>0, <1>a, <2>2 DEF Take, Catch, Stalled, LockExpires
  <2>3. CASE Leave(j)
    BY <1>0, <1>a, <2>3 DEF Leave, Job
  <2> QED BY <1>1, <2>1, <2>2, <2>3 DEF EnvStep
<1>2. ASSUME NEW j \in Jobs, GrantStep(j) \/ RevokeStep(j) \/ FaultStep(j)
      PROVE  Remaining(Plan(i), loc[i].cur.group)' = {}
  <2>1. pc[j] \in Running /\ OnlyMoves(j)
    BY <1>2, GrantMoves, RevokeMoves, FaultMoves
  <2>2. i = j
    <3>1. CASE i # j
      <4>1. pc[i] = "remove"
        BY <2>1, <3>1 DEF OnlyMoves
      <4> QED BY <1>0, <2>1, <3>1, <4>1 DEF Serial
    <3> QED BY <3>1
  <2>3. ~ GrantStep(i) /\ ~ FaultStep(i)
    BY <2>2, GrantMoves, FaultMoves DEF GrantAt
  <2>4. PICK d \in loc[i].todo : Count(i, d)
    BY <1>2, <2>2, <2>3, RevokeMoves
  <2>5. loc'[i].cur = d /\ src' = src /\ job' = job
    BY <1>0, <2>4 DEF Count, Locals
  <2>6. Remaining(Plan(i), d.group) = {}
    BY <1>0, <2>4 DEF Count
  <2> QED BY <2>5, <2>6 DEF Remaining, Rows, Plan
<1>3. ASSUME ReleaseStaleLocks \/ StaffDeletesUser \/ UNCHANGED vars
      PROVE  Remaining(Plan(i), loc[i].cur.group)' = {}
  BY <1>a, <1>3 DEF ReleaseStaleLocks, StaffDeletesUser, vars
<1> QED BY <1>1, <1>2, <1>3, NextCases

\* The inductive invariant: initially, and kept by every step.
LEMMA IInvInit == Init => IInv
<1> SUFFICES ASSUME Init PROVE IInv
  OBVIOUS
<1>1. IdsAgree /\ IdsIssued
  BY ConstantsAssumption DEF Init, IdsAgree, IdsIssued, Ref, FreshLoc, NoDoor, NoRow
<1>2. CountStands
  BY DEF Init, CountStands
<1> QED BY <1>1, <1>2, TypeInit, ControlInit DEF IInv

LEMMA IInvNext == IInv /\ [Next]_vars => IInv'
BY TypeNext, SerialNext, KindsNext, IdsNext, CountNext DEF IInv

\* A remaining-count is still true when the role it condemns is removed.
THEOREM CountIsNeverStale == Spec => []CountStands
<1>1. IInv => CountStands
  BY DEF IInv
<1> QED BY <1>1, IInvInit, IInvNext, PTL DEF Spec

\* A role taken away by a cancel opened no door that another plan's row holds.
THEOREM OtherPlansAreSafe == Spec => OtherPlansKeepDoors
<1> DEFINE Safe == \A r \in kroles \ kroles' :
          kuser' = r.user /\ (\E j \in Jobs : pc[j] = "remove" /\ pc'[j] # "remove")
            => \A k \in Rows : k[2] = r.group =>
                 \E j \in Jobs : pc[j] = "remove" /\ k[1] = Plan(j)
<1>1. IInv /\ [Next]_vars => Safe
  <2> SUFFICES ASSUME IInv, [Next]_vars, NEW r \in kroles, r \notin kroles',
                      NEW i \in Jobs, pc[i] = "remove", pc'[i] # "remove",
                      NEW k \in Rows, k[2] = r.group
               PROVE  \E j \in Jobs : pc[j] = "remove" /\ k[1] = Plan(j)
    OBVIOUS
  <2> USE DEF kisi, Goto
  <2>0. /\ TypeOK /\ Serial /\ KindsFit /\ IdsAgree /\ IdsIssued /\ CountStands
        /\ "remove" \in Running
    BY DEF IInv, Running, AtKisi
  <2>1. PICK lost \in BOOLEAN : RemoveRole(i, lost)
    <3>1. PICK j \in Jobs : GrantStep(j) \/ RevokeStep(j) \/ FaultStep(j)
      <4>1. ~ (ReleaseStaleLocks \/ StaffDeletesUser \/ UNCHANGED vars)
        BY DEF ReleaseStaleLocks, StaffDeletesUser, vars
      <4>2. \A j \in Jobs : ~ EnvStep(j)
        BY DEF EnvStep, Enqueue, Take, Catch, Leave, Stalled, LockExpires
      <4> QED BY <4>1, <4>2, NextCases
    <3>2. j = i
      BY <2>0, <3>1, GrantMoves, RevokeMoves, FaultMoves DEF Serial
    <3>3. ~ GrantStep(i)
      BY <2>0, GrantMoves DEF KindsFit, CancelAt, GrantKinds, CancelKinds
    <3>4. RevokeStep(i) => RemoveRole(i, FALSE)
      BY DEF RevokeStep, SkipUnknown, ResolveRevoke, Scan, Count, WipeRole, CountedAll,
             RefuseNullRole, DropRow, SetEnabled, SetEnabledGone, CompleteRevoke,
             Finalize, KeepForeignUser, DeleteUser, MarkDeleted
    <3>5. FaultStep(i) => RemoveRole(i, TRUE)
      BY DEF FaultStep, Fail, FindOrCreateUser, SetEnabled, DeleteUser, AssignRole,
             DoorMissing, WipeRole, CatchFails, Crash
    <3> QED BY <3>1, <3>2, <3>3, <3>4, <3>5
  <2>2. r.id = loc[i].cur.role /\ r.id # 0
    BY <2>1 DEF RemoveRole
  <2>3. r.group \in Groups /\ r.id \in Nat /\ loc[i].cur.group \in Groups
    BY <2>0, <2>2 DEF TypeOK, Role, Locals, Door, NoDoor, Ids
  <2>4. Ref(r.id, r.group) /\ Ref(r.id, loc[i].cur.group) /\ r.id \in 1 .. minted
    BY <2>0, <2>2, <2>3 DEF Ref, IdsIssued, TypeOK
  <2>5. r.group = loc[i].cur.group
    BY <2>0, <2>3, <2>4 DEF IdsAgree
  <2>6. Remaining(Plan(i), r.group) = {}
    BY <2>0, <2>5 DEF CountStands
  <2> QED BY <2>6 DEF Remaining
<1>2. IInv /\ [Next]_vars => [Safe]_vars
  BY <1>1
<1> QED BY <1>2, IInvInit, IInvNext, PTL DEF Spec, OtherPlansKeepDoors

-----------------------------------------------------------------------------
(* Whoever is parked 'removing' has a job that answers for it.             *)

\* What a run's step does about 'removing': a grant's leaves it alone or takes
\* the person over,
LEMMA GrantOwns ==
    ASSUME TypeOK, KindsFit, OwnersFit, NEW j \in Jobs, GrantStep(j)
    PROVE  /\ access'.status = "removing" => /\ access.status = "removing"
                                             /\ pc'[j] = "leave"
           /\ pc'[j] = "catch" => loc'[j].out # "done" /\ "pending" \notin loc'[j].flags
<1> USE DEF Goto
<1>0. /\ pc \in [Jobs -> Steps] /\ loc \in [Jobs -> Locals] /\ access \in AccessRow
      /\ access.status = "removing" => pc[j] \in {"resolve", "leave"} \/ pc[j] \notin Running
  BY DEF TypeOK, OwnersFit
<1>1. CASE SkipStarted(j)
  BY <1>0, <1>1 DEF SkipStarted
<1>2. CASE ResolveGrant(j)
  BY <1>0, <1>2 DEF ResolveGrant
<1>3. CASE /\ pc[j] \in GrantAt /\ UNCHANGED access
           /\ \/ pc'[j] # "catch"
              \/ \E out \in {"dead", "retry"} : loc'[j] = Thrown(j, out)
  <2>1. pc[j] \in Running /\ pc[j] \notin {"resolve", "leave", "finalize", "delete", "mark"}
    BY <1>3, RunningNames DEF GrantAt
  <2>2. \A out : Thrown(j, out).out = out /\ Thrown(j, out).flags = {}
    BY <2>1 DEF Thrown, FreshLoc
  <2> QED BY <1>0, <1>3, <2>1, <2>2
<1>4. CASE ParkUnmapped(j) \/ ParkIdentity(j) \/ CacheUser(j) \/ RollUp(j)
  BY <1>0, <1>4, RollupType DEF ParkUnmapped, ParkIdentity, CacheUser, RollUp, AccessRow, GrantAt, Running, AtDb, AtKisi
<1>5. CASE ParkHardware(j) \/ ParkStart(j) \/ IdentifyCached(j) \/ PurgeRows(j)
  BY <1>0, <1>3, <1>5 DEF ParkHardware, ParkStart, IdentifyCached, PurgeRows, WriteParkedRows, GrantAt
<1>6. CASE FindOrCreateUser(j, FALSE)
  <2>1. pc[j] = "identify" /\ pc'[j] \in {"cache", "purge"} /\ UNCHANGED access
    BY <1>6, AnswerMoves DEF FindOrCreateUser
  <2> QED BY <1>3, <2>1 DEF GrantAt
<1>7. ASSUME NEW d \in loc[j].todo, ReuseRole(j, d) \/ UserGone(j, d) PROVE pc[j] = "assign" /\ pc' = pc /\ UNCHANGED access
  BY <1>7 DEF ReuseRole, UserGone
<1>8. ASSUME NEW d \in loc[j].todo, AssignRole(j, d, FALSE) PROVE pc[j] = "assign" /\ pc'[j] = "assign" /\ UNCHANGED access
  BY <1>8, AnswerMoves DEF AssignRole
<1>9. CASE \E d \in loc[j].todo : ReuseRole(j, d) \/ UserGone(j, d) \/ AssignRole(j, d, FALSE)
  <2>1. pc[j] = "assign" /\ pc'[j] = "assign" /\ UNCHANGED access
    BY <1>7, <1>8, <1>9
  <2> QED BY <1>3, <2>1 DEF GrantAt
<1>10. CASE EndAssign(j)
  BY <1>0, <1>3, <1>10 DEF EndAssign, Throw, GrantAt
<1>11. CASE \E d \in loc[j].got : RecordRow(j, d)
  BY <1>0, <1>3, <1>11 DEF RecordRow, GrantAt
<1> QED BY <1>1, <1>2, <1>4, <1>5, <1>6, <1>9, <1>10, <1>11 DEF GrantStep

\* a revoke's takes the person over,
LEMMA RevokeOwns ==
    ASSUME TypeOK, KindsFit, OwnersFit, NEW j \in Jobs, RevokeStep(j)
    PROVE  /\ access'.status # "removing"
           /\ pc'[j] \in {"scan", "wipe", "finalize", "delete", "mark"} => CleansUp(j)
           /\ pc'[j] = "catch" => loc'[j].out # "done" /\ "pending" \notin loc'[j].flags
<1> USE DEF Goto
<1>0. /\ pc \in [Jobs -> Steps] /\ loc \in [Jobs -> Locals] /\ access \in AccessRow /\ job[j].kind \in AllKinds
      /\ access.status = "removing" => pc[j] \in {"resolve", "leave"} \/ pc[j] \notin Running
      /\ pc[j] \in {"scan", "wipe", "finalize", "delete", "mark"} => CleansUp(j)
      /\ pc[j] \in RevokeAt => pc[j] \in Running
  BY RunningNames DEF TypeOK, OwnersFit, Job
<1>1. CASE SkipUnknown(j)
  BY <1>0, <1>1 DEF SkipUnknown, Findable
<1>2. CASE ResolveRevoke(j)
  <2>1. access'.status = "in_flight" /\ pc'[j] # "catch"
    BY <1>0, <1>2 DEF ResolveRevoke, AccessRow
  <2>2. pc'[j] = "scan" => CleansUp(j)
    BY <1>0, <1>2 DEF ResolveRevoke, CleansUp, AllKinds, GrantKinds, CancelKinds
  <2>3. pc'[j] \in {"complete", "suspend", "enable", "scan"}
    BY <1>0, <1>2 DEF ResolveRevoke
  <2>4. UNCHANGED job
    BY <1>2 DEF ResolveRevoke
  <2> QED BY <2>1, <2>2, <2>3
<1>3. CASE /\ pc[j] \in RevokeAt /\ UNCHANGED access
           /\ pc'[j] \in {"count", "remove", "drop", "complete", "leave"}
  BY <1>0, <1>3 DEF RevokeAt, CancelAt
<1>4. CASE Scan(j)
  <2>1. pc[j] = "scan" /\ pc'[j] \in {"count", "wipe"} /\ UNCHANGED access
    BY <1>0, <1>4 DEF Scan
  <2> QED BY <1>0, <2>1 DEF RevokeAt
<1>5. ASSUME NEW d \in loc[j].todo, Count(j, d)
      PROVE  pc[j] = "count" /\ pc'[j] \in {"drop", "remove"} /\ UNCHANGED access
  BY <1>0, <1>5 DEF Count
<1>6. ASSUME NEW d \in loc[j].todo, WipeRole(j, d, FALSE)
      PROVE  pc[j] = "wipe" /\ pc'[j] = "wipe" /\ UNCHANGED access
  BY <1>6, AnswerMoves DEF WipeRole
<1>7. CASE \E d \in loc[j].todo : Count(j, d) \/ WipeRole(j, d, FALSE)
  <2>1. \/ pc[j] = "count" /\ pc'[j] \in {"drop", "remove"} /\ UNCHANGED access
        \/ pc[j] = "wipe" /\ pc'[j] = "wipe" /\ UNCHANGED access
    BY <1>5, <1>6, <1>7
  <2> QED BY <1>0, <2>1 DEF RevokeAt, CancelAt
<1>8. CASE CountedAll(j) \/ DropRow(j) \/ KeepForeignUser(j)
  BY <1>0, <1>3, <1>8 DEF CountedAll, DropRow, KeepForeignUser, RevokeAt, CancelAt
<1>9. CASE RemoveRole(j, FALSE)
  <2>1. pc[j] = "remove" /\ pc'[j] = "drop" /\ UNCHANGED access
    BY <1>9, AnswerMoves DEF RemoveRole
  <2> QED BY <1>3, <2>1 DEF RevokeAt, CancelAt
<1>10. CASE RefuseNullRole(j) \/ SetEnabledGone(j)
  <2>1. /\ pc[j] \in {"remove", "suspend", "enable"} /\ pc'[j] = "catch" /\ UNCHANGED access
        /\ \E out \in {"dead", "retry"} : loc'[j] = Thrown(j, out)
    BY <1>0, <1>10 DEF RefuseNullRole, SetEnabledGone, Throw
  <2>2. \A out : Thrown(j, out).out = out /\ Thrown(j, out).flags = {}
    BY <2>1 DEF Thrown, FreshLoc
  <2> QED BY <1>0, <2>1, <2>2 DEF RevokeAt, CancelAt
<1>11. CASE SetEnabled(j, FALSE)
  <2>1. pc[j] \in {"suspend", "enable"} /\ pc'[j] = "complete" /\ UNCHANGED access
    BY <1>11, AnswerMoves DEF SetEnabled
  <2> QED BY <1>3, <2>1 DEF RevokeAt
<1>12. CASE CompleteRevoke(j)
  <2>1. /\ access'.status \in {"active", "inactive"} /\ pc'[j] \in {"leave", "finalize"}
        /\ pc'[j] = "finalize" => job[j].kind \notin {"payfail", "recovered"}
        /\ pc[j] = "complete"
    BY <1>0, <1>12, RollupType DEF CompleteRevoke, AccessRow
  <2>2. job[j].kind \notin GrantKinds
    BY <2>1 DEF KindsFit, RevokeAt
  <2> QED BY <1>0, <2>1, <2>2 DEF CleansUp, AllKinds, GrantKinds, CancelKinds
<1>13. CASE Finalize(j)
  <2>1. pc[j] = "finalize" /\ pc'[j] \in {"leave", "mark", "delete"} /\ UNCHANGED access
    BY <1>0, <1>13 DEF Finalize
  <2> QED BY <1>0, <2>1 DEF RevokeAt
<1>14. CASE DeleteUser(j, FALSE)
  <2>1. pc[j] = "delete" /\ pc'[j] = "mark" /\ UNCHANGED access
    BY <1>14, AnswerMoves DEF DeleteUser
  <2> QED BY <1>0, <2>1 DEF RevokeAt
<1>15. CASE MarkDeleted(j)
  BY <1>0, <1>15 DEF MarkDeleted, AccessRow
<1> QED BY <1>1, <1>2, <1>4, <1>7, <1>8, <1>9, <1>10, <1>11, <1>12, <1>13, <1>14, <1>15 DEF RevokeStep

\* and one that fails remembers what is left to do.
LEMMA FaultOwns ==
    ASSUME TypeOK, KindsFit, OwnersFit, NEW j \in Jobs, FaultStep(j)
    PROVE  /\ UNCHANGED access
           /\ \/ pc'[j] = "lost"
              \/ pc[j] = "assign" /\ pc'[j] = "assign"
              \/ /\ pc'[j] \in {"catch", "leave"} /\ loc'[j].out # "done"
                 /\ pc'[j] = "leave" => pc[j] \in {"resolve", "catch"}
                 /\ pc'[j] = "catch" => pc[j] \in AtKisi \cup AtDb /\ pc[j] # "resolve"
                 /\ "pending" \in loc'[j].flags /\ pc'[j] = "catch" => CleansUp(j)
<1> USE DEF Goto
<1>0. /\ pc \in [Jobs -> Steps] /\ loc \in [Jobs -> Locals]
      /\ pc[j] \in {"finalize", "delete", "mark"} => CleansUp(j)
      /\ pc[j] = "catch" => loc[j].out # "done"
  BY DEF TypeOK, OwnersFit
<1>1. \A out : /\ Thrown(j, out).out = out
               /\ "pending" \in Thrown(j, out).flags => CleansUp(j)
  BY <1>0 DEF Thrown, FreshLoc
<1>2. CASE \E out \in {"retry", "dead"} : Fail(j, out)
  BY <1>0, <1>1, <1>2 DEF Fail
<1>3. ASSUME NEW d \in loc[j].todo, AssignRole(j, d, TRUE) \/ WipeRole(j, d, TRUE)
      PROVE  pc[j] \in AtKisi /\ pc'[j] = "catch" /\ loc'[j] = Thrown(j, "retry") /\ UNCHANGED access
  BY <1>3, AnswerMoves DEF AssignRole, WipeRole, AtKisi
<1>4. ASSUME FindOrCreateUser(j, TRUE) \/ RemoveRole(j, TRUE) \/ SetEnabled(j, TRUE) \/ DeleteUser(j, TRUE)
      PROVE  pc[j] \in AtKisi /\ pc'[j] = "catch" /\ loc'[j] = Thrown(j, "retry") /\ UNCHANGED access
  BY <1>4, AnswerMoves DEF FindOrCreateUser, RemoveRole, SetEnabled, DeleteUser, AtKisi
<1>5. "resolve" \notin AtKisi
  BY DEF AtKisi
<1>6. ASSUME NEW d \in loc[j].todo, DoorMissing(j, d)
      PROVE  pc[j] = "assign" /\ pc' = pc /\ UNCHANGED access
  BY <1>6 DEF DoorMissing
<1>7. CASE \E d \in loc[j].todo : \/ AssignRole(j, d, TRUE) \/ DoorMissing(j, d)
                                  \/ WipeRole(j, d, TRUE)
  BY <1>1, <1>3, <1>5, <1>6, <1>7
<1>8. CASE CatchFails(j)
  BY <1>0, <1>8 DEF CatchFails
<1>9. CASE Crash(j)
  BY <1>0, <1>9 DEF Crash
<1> QED BY <1>1, <1>2, <1>4, <1>5, <1>7, <1>8, <1>9 DEF FaultStep

\* Of two jobs only one runs, so a step of j leaves nobody else to speak of.
LEMMA OthersRest ==
    ASSUME TypeOK, Serial, NEW j \in Jobs, pc[j] \in Running, OnlyMoves(j)
    PROVE  \A i \in Jobs \ {j} : /\ pc[i] \notin Running /\ pc'[i] = pc[i]
                                 /\ CleansUp(i)' = CleansUp(i)
BY DEF Serial, OnlyMoves, CleansUp

\* What OwnersFit asks of one job.
OwnerFit(i) ==
    /\ pc[i] \in {"scan", "wipe", "finalize", "delete", "mark"} => CleansUp(i)
    /\ pc[i] = "catch" => /\ loc[i].out # "done"
                          /\ "pending" \in loc[i].flags => CleansUp(i)
    /\ access.status = "removing" /\ pc[i] \in Running =>
           \/ pc[i] = "resolve"
           \/ pc[i] = "leave" /\ (CleansUp(i) => loc[i].out # "done")

LEMMA FitsAtRest ==
    \A i \in Jobs : pc'[i] \notin Running => OwnerFit(i)'
BY DEF OwnerFit, Running, AtKisi, AtDb

LEMMA OwnersNext ==
    TypeOK /\ Serial /\ KindsFit /\ OwnersFit /\ RemovingHasOwner /\ [Next]_vars
        => OwnersFit' /\ RemovingHasOwner'
<1> SUFFICES ASSUME TypeOK, Serial, KindsFit, OwnersFit, RemovingHasOwner, [Next]_vars
             PROVE  (\A i \in Jobs : OwnerFit(i)') /\ RemovingHasOwner'
  BY DEF OwnersFit, OwnerFit
<1>0. \A i \in Jobs : OwnerFit(i)
  BY DEF OwnersFit, OwnerFit
<1>1. ASSUME NEW j \in Jobs, GrantStep(j)
      PROVE  (\A i \in Jobs : OwnerFit(i)') /\ RemovingHasOwner'
  <2>1. /\ pc[j] \in Running /\ OnlyMoves(j) /\ job[j].kind \in GrantKinds
        /\ pc'[j] \in GrantAt \cup {"catch", "leave"}
    BY <1>1, GrantMoves
  <2>2. /\ access'.status = "removing" => access.status = "removing" /\ pc'[j] = "leave"
        /\ pc'[j] = "catch" => loc'[j].out # "done" /\ "pending" \notin loc'[j].flags
    BY <1>1, GrantOwns
  <2>3. ~CleansUp(j) /\ ~CleansUp(j)'
    BY <2>1 DEF OnlyMoves, CleansUp, CancelKinds, GrantKinds
  <2>4. OwnerFit(j)'
    BY <2>1, <2>2, <2>3 DEF OwnerFit, GrantAt
  <2>5. RemovingHasOwner'
    BY <2>1, <2>2, <2>3, OthersRest DEF RemovingHasOwner, CleansUp
  <2> QED BY <2>1, <2>4, <2>5, OthersRest, FitsAtRest
<1>2. ASSUME NEW j \in Jobs, RevokeStep(j)
      PROVE  (\A i \in Jobs : OwnerFit(i)') /\ RemovingHasOwner'
  <2>1. pc[j] \in Running /\ OnlyMoves(j)
    BY <1>2, RevokeMoves
  <2>2. /\ access'.status # "removing"
        /\ pc'[j] \in {"scan", "wipe", "finalize", "delete", "mark"} => CleansUp(j)
        /\ pc'[j] = "catch" => loc'[j].out # "done" /\ "pending" \notin loc'[j].flags
    BY <1>2, RevokeOwns
  <2>3. CleansUp(j)' = CleansUp(j)
    BY <2>1 DEF OnlyMoves, CleansUp
  <2>4. OwnerFit(j)'
    BY <2>2, <2>3 DEF OwnerFit
  <2> QED BY <2>1, <2>2, <2>4, OthersRest, FitsAtRest DEF RemovingHasOwner
<1>3. ASSUME NEW j \in Jobs, FaultStep(j)
      PROVE  (\A i \in Jobs : OwnerFit(i)') /\ RemovingHasOwner'
  <2>1. pc[j] \in Running /\ OnlyMoves(j)
    BY <1>3, FaultMoves
  <2>2. /\ UNCHANGED access
        /\ \/ pc'[j] = "lost"
           \/ pc[j] = "assign" /\ pc'[j] = "assign"
           \/ /\ pc'[j] \in {"catch", "leave"} /\ loc'[j].out # "done"
              /\ pc'[j] = "leave" => pc[j] \in {"resolve", "catch"}
              /\ pc'[j] = "catch" => pc[j] \in AtKisi \cup AtDb /\ pc[j] # "resolve"
              /\ "pending" \in loc'[j].flags /\ pc'[j] = "catch" => CleansUp(j)
    BY <1>3, FaultOwns
  <2>3. CleansUp(j)' = CleansUp(j)
    BY <2>1 DEF OnlyMoves, CleansUp
  <2>4. access.status = "removing" => pc[j] \in {"resolve", "leave"}
    BY <1>0, <2>1 DEF OwnerFit
  <2>5. "leave" \notin AtKisi \cup AtDb
    BY DEF AtKisi, AtDb
  <2>6. OwnerFit(j)'
    BY <2>2, <2>3, <2>4, <2>5, RunningNames DEF OwnerFit, Resting
  <2>7. \A i \in Jobs : /\ pc[i] \notin {"absent", "done"} => pc'[i] \notin {"absent", "done"}
                        /\ CleansUp(i)' = CleansUp(i)
    BY <2>1, <2>2, <2>3, OthersRest
  <2>8. RemovingHasOwner'
    BY <2>2, <2>7 DEF RemovingHasOwner, CleansUp
  <2> QED BY <2>1, <2>6, <2>8, OthersRest, FitsAtRest
<1>4. ASSUME NEW j \in Jobs, EnvStep(j)
      PROVE  (\A i \in Jobs : OwnerFit(i)') /\ RemovingHasOwner'
  <2> USE DEF Goto
  <2>0. /\ pc \in [Jobs -> Steps] /\ loc \in [Jobs -> Locals] /\ job \in [Jobs -> Job]
        /\ access \in AccessRow
        /\ {"absent", "queued", "lost", "done", "dead"} \cap Running = {}
    BY RunningNames DEF TypeOK, Resting
  <2>1. CASE \E k \in Kinds, p \in Plans \cup {NoPlan} : Enqueue(j, k, p)
    <3>1. /\ pc[j] = "absent" /\ pc'[j] = "queued" /\ UNCHANGED <<access, loc>>
          /\ \A i \in Jobs \ {j} : pc'[i] = pc[i] /\ job'[i] = job[i]
      BY <2>0, <2>1 DEF Enqueue
    <3>2. \A i \in Jobs \ {j} : OwnerFit(i)'
      BY <1>0, <3>1 DEF OwnerFit, CleansUp
    <3> QED BY <2>0, <3>1, <3>2, FitsAtRest DEF RemovingHasOwner
  <2>2. CASE Take(j)
    <3>1. /\ pc[j] = "queued" /\ pc'[j] = "resolve" /\ UNCHANGED <<access, loc, job>>
          /\ \A i \in Jobs \ {j} : pc'[i] = pc[i]
      BY <2>0, <2>2 DEF Take
    <3> QED BY <1>0, <3>1 DEF OwnerFit, CleansUp, RemovingHasOwner
  <2>3. CASE Catch(j)
    <3>1. /\ pc[j] = "catch" /\ pc'[j] = "leave" /\ UNCHANGED <<loc, job, memberLock>>
          /\ access'.status = "removing" => "pending" \in loc[j].flags
          /\ \A i \in Jobs \ {j} : pc'[i] = pc[i]
      BY <2>0, <2>3, RollupType DEF Catch, AccessRow
    <3>2. OnlyMoves(j) /\ pc[j] \in Running
      BY <3>1, RunningNames DEF OnlyMoves
    <3>3. OwnerFit(j)'
      BY <1>0, <3>1 DEF OwnerFit, CleansUp
    <3>4. access'.status = "removing" => CleansUp(j) /\ CleansUp(j)'
      BY <1>0, <3>1 DEF OwnerFit, CleansUp
    <3> QED BY <3>1, <3>2, <3>3, <3>4, OthersRest, FitsAtRest DEF RemovingHasOwner, CleansUp
  <2>4. CASE Leave(j)
    <3>1. /\ pc[j] = "leave" /\ access' = access
          /\ pc'[j] \in {"done", "dead", "queued"}
          /\ pc'[j] = "done" => loc[j].out = "done"
          /\ \A i \in Jobs \ {j} : pc'[i] = pc[i] /\ loc'[i] = loc[i]
          /\ \A i \in Jobs : CleansUp(i)' = CleansUp(i)
      BY <2>0, <2>4 DEF Leave, CleansUp, Job
    <3>2. \A i \in Jobs : OwnerFit(i)'
      BY <1>0, <2>0, <3>1, FitsAtRest DEF OwnerFit
    <3>3. access.status = "removing" /\ CleansUp(j) => pc'[j] # "done"
      BY <1>0, <3>1, RunningNames DEF OwnerFit
    <3>4. RemovingHasOwner'
      BY <3>1, <3>3 DEF RemovingHasOwner, CleansUp
    <3> QED BY <3>2, <3>4
  <2>5. CASE Stalled(j)
    <3>1. /\ pc[j] = "lost" /\ pc'[j] = "queued" /\ UNCHANGED <<loc, job>>
          /\ access'.status = "removing" => access.status = "removing"
          /\ \A i \in Jobs \ {j} : pc'[i] = pc[i]
      BY <2>0, <2>5, RollupType DEF Stalled, AccessRow
    <3>2. \A i \in Jobs : OwnerFit(i)'
      BY <1>0, <2>0, <3>1, FitsAtRest DEF OwnerFit, CleansUp
    <3> QED BY <3>1, <3>2 DEF RemovingHasOwner
  <2>6. CASE LockExpires(j)
    BY <1>0, <2>6 DEF LockExpires, OwnerFit, CleansUp, RemovingHasOwner
  <2> QED BY <1>4, <2>1, <2>2, <2>3, <2>4, <2>5, <2>6 DEF EnvStep
<1>5. ASSUME ReleaseStaleLocks PROVE (\A i \in Jobs : OwnerFit(i)') /\ RemovingHasOwner'
  <2>1. access'.status = "recovery_pending" /\ UNCHANGED <<job, pc, loc>>
    BY <1>5 DEF ReleaseStaleLocks, TypeOK, AccessRow
  <2> QED BY <1>0, <2>1 DEF OwnerFit, CleansUp, RemovingHasOwner
<1>6. ASSUME StaffDeletesUser \/ UNCHANGED vars
      PROVE  (\A i \in Jobs : OwnerFit(i)') /\ RemovingHasOwner'
  BY <1>0, <1>6 DEF StaffDeletesUser, vars, OwnerFit, CleansUp, RemovingHasOwner
<1> QED BY <1>1, <1>2, <1>3, <1>4, <1>5, <1>6, NextCases

LEMMA OwnersInit == Init => OwnersFit /\ RemovingHasOwner
<1> SUFFICES ASSUME Init PROVE OwnersFit /\ RemovingHasOwner
  OBVIOUS
<1>1. "absent" \notin Running /\ access.status = "none" /\ \A j \in Jobs : pc[j] = "absent"
  BY RunningNames DEF Init, Resting
<1> QED BY <1>1 DEF OwnersFit, RemovingHasOwner

\* A member parked 'removing' (the door is off, the cleanup is not done) is
\* never nobody's: a cancel's, a deletion's or the sweep's own job still
\* answers for it, waiting, running or on the error list.
THEOREM RemovingIsOwned == Spec => []RemovingHasOwner
<1>1. Init => OwnerInv
  BY TypeInit, ControlInit, OwnersInit DEF OwnerInv
<1>2. OwnerInv /\ [Next]_vars => OwnerInv'
  BY TypeNext, SerialNext, KindsNext, OwnersNext DEF OwnerInv
<1>3. OwnerInv => RemovingHasOwner
  BY DEF OwnerInv
<1> QED BY <1>1, <1>2, <1>3, PTL DEF Spec
=============================================================================
