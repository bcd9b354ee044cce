------------------------ MODULE AccessRecordsProofs ------------------------
(***************************************************************************)
(* What is on record of a member is so (MemberAccess): the status is the   *)
(* rollup of the rows, whoever is finalized is gone from Kisi and has no    *)
(* row left, and every role that Kisi holds is on a row.                   *)
(***************************************************************************)
EXTENDS MemberAccessProofs

-----------------------------------------------------------------------------
(* What the steps do to the access row.                                    *)

\* Only the run that moves is under way, before the step and after it.
LEMMA AloneInRun ==
    ASSUME OwnerInv, NEW j \in Jobs, pc[j] \in Running, OnlyMoves(j)
    PROVE  \A i \in Jobs \ {j} : pc[i] \notin Running /\ pc'[i] = pc[i]
BY OthersRest DEF OwnerInv

\* A grant changes nothing, takes the person over, or writes an outcome.
LEMMA GrantWrites ==
    ASSUME TypeOK, NEW j \in Jobs, GrantStep(j)
    PROVE  \/ /\ pc[j] = "resolve" /\ pc'[j] = "leave" /\ Doors(j) = {}
              /\ UNCHANGED <<access, src, kisi>>
           \/ /\ pc[j] = "resolve" /\ access'.status = "in_flight"
              /\ access'.user = IF access.status = "deleted" THEN 0 ELSE access.user
              /\ pc'[j] = (IF Doors(j) = {} THEN "park" ELSE "identify")
              /\ UNCHANGED <<src, kisi, loc>>
           \/ /\ pc[j] = "park" /\ access'.status = "inactive"
           \/ /\ pc[j] = "identify" /\ access'.status = "pending_identity" /\ pc'[j] = "leave"
              /\ UNCHANGED src
           \/ /\ pc[j] = "rollup" /\ access'.status = RollupOf(src) /\ pc'[j] = "leave"
              /\ UNCHANGED src
           \/ pc[j] \in GrantAt /\ access'.status = access.status /\ pc'[j] \notin {"leave", "park"}
<1> USE DEF Goto, GrantAt
<1>0. pc \in [Jobs -> Steps] /\ loc \in [Jobs -> Locals] /\ access \in AccessRow
  BY DEF TypeOK
<1>1. CASE SkipStarted(j)
  BY <1>0, <1>1 DEF SkipStarted
<1>2. CASE ResolveGrant(j)
  BY <1>0, <1>2 DEF ResolveGrant, AccessRow
<1>3. CASE ParkUnmapped(j) \/ ParkIdentity(j) \/ RollUp(j)
  BY <1>0, <1>3 DEF ParkUnmapped, ParkIdentity, RollUp, AccessRow
<1>4. CASE ParkHardware(j) \/ ParkStart(j) \/ IdentifyCached(j) \/ PurgeRows(j)
  BY <1>0, <1>4 DEF ParkHardware, ParkStart, IdentifyCached, PurgeRows, WriteParkedRows
<1>5. CASE CacheUser(j)
  BY <1>0, <1>5 DEF CacheUser, AccessRow
<1>6. CASE FindOrCreateUser(j, FALSE)
  <2>1. pc[j] = "identify" /\ pc'[j] \in {"cache", "purge"} /\ UNCHANGED access
    BY <1>6, AnswerMoves DEF FindOrCreateUser
  <2> QED BY <2>1
<1>7. ASSUME NEW d \in loc[j].todo, ReuseRole(j, d) \/ UserGone(j, d)
      PROVE  pc[j] = "assign" /\ pc'[j] = "assign" /\ UNCHANGED access
  BY <1>7 DEF ReuseRole, UserGone
<1>8. ASSUME NEW d \in loc[j].todo, AssignRole(j, d, FALSE)
      PROVE  pc[j] = "assign" /\ pc'[j] = "assign" /\ UNCHANGED access
  BY <1>8, AnswerMoves DEF AssignRole
<1>9. CASE \E d \in loc[j].todo : ReuseRole(j, d) \/ UserGone(j, d) \/ AssignRole(j, d, FALSE)
  BY <1>7, <1>8, <1>9
<1>10. CASE EndAssign(j)
  BY <1>0, <1>10 DEF EndAssign, Throw
<1>11. CASE \E d \in loc[j].got : RecordRow(j, d)
  BY <1>0, <1>11 DEF RecordRow
<1> QED BY <1>1, <1>2, <1>3, <1>4, <1>5, <1>6, <1>9, <1>10, <1>11 DEF GrantStep

\* A revoke leaves the access row and the rows alone between its reads and its
\* last transaction, but for the row of the door it has just closed.
LEMMA RevokeWrites ==
    ASSUME TypeOK, KindsFit, NEW j \in Jobs, RevokeStep(j)
    PROVE  \/ pc[j] = "resolve" /\ pc'[j] = "leave" /\ ~Findable /\ UNCHANGED <<access, src, kisi>>
           \/ /\ pc[j] = "resolve" /\ access' = [access EXCEPT !.status = "in_flight"]
              /\ loc'[j].user = access.user
              /\ pc'[j] \in {"complete", "suspend", "enable", "scan"}
              /\ UNCHANGED <<src, kisi>>
           \/ /\ pc[j] \in RevokeAt \ {"finalize", "delete", "mark"} /\ UNCHANGED <<access, kuser>>
              /\ \/ /\ loc'[j].user = loc[j].user
                    /\ pc'[j] \in RevokeAt \ {"finalize", "delete", "mark"}
                 \/ pc'[j] = "catch"
           \/ /\ pc[j] = "complete" /\ access' = [access EXCEPT !.status = RollupOf(src')]
              /\ pc'[j] \in {"leave", "finalize"} /\ UNCHANGED <<kisi, loc>>
           \/ /\ pc[j] = "finalize"
              /\ pc'[j] \in {"leave", "delete", "mark"}
              /\ pc'[j] \in {"delete", "mark"} => access.status = "inactive"
              /\ pc'[j] = "mark" => loc[j].user = 0
              /\ UNCHANGED <<access, src, kisi, loc>>
           \/ pc[j] = "delete" /\ pc'[j] = "leave" /\ UNCHANGED <<access, src, kisi>>
           \/ /\ pc[j] = "delete" /\ pc'[j] = "mark" /\ UNCHANGED <<access, src>>
              /\ loc'[j] = loc[j]
              /\ kuser' = IF kuser = loc[j].user THEN 0 ELSE kuser
           \/ /\ pc[j] = "mark" /\ pc'[j] = "leave" /\ access' = [access EXCEPT !.status = "deleted"]
              /\ UNCHANGED <<src, kisi>>
<1> USE DEF Goto, RevokeAt, CancelAt, kisi
<1>0. /\ pc \in [Jobs -> Steps] /\ loc \in [Jobs -> Locals] /\ loc[j] \in Locals
  BY DEF TypeOK
<1>1. CASE SkipUnknown(j)
  BY <1>0, <1>1 DEF SkipUnknown
<1>2. CASE ResolveRevoke(j)
  BY <1>0, <1>2 DEF ResolveRevoke, Locals
<1>3. CASE Scan(j)
  BY <1>0, <1>3 DEF Scan, Locals
<1>4. ASSUME NEW d \in loc[j].todo, Count(j, d)
      PROVE  /\ pc[j] = "count" /\ pc'[j] \in {"drop", "remove"} /\ UNCHANGED <<access, kuser>>
             /\ loc'[j].user = loc[j].user
  BY <1>0, <1>4 DEF Count, Locals
<1>5. ASSUME NEW d \in loc[j].todo, WipeRole(j, d, FALSE)
      PROVE  /\ pc[j] = "wipe" /\ pc'[j] = "wipe" /\ UNCHANGED <<access, kuser>>
             /\ loc'[j].user = loc[j].user
  <2>1. pc'[j] = "wipe" /\ loc'[j] = [loc[j] EXCEPT !.todo = @ \ {d}]
    BY <1>5, AnswerMoves DEF WipeRole
  <2> QED BY <1>0, <1>5, <2>1 DEF WipeRole, Locals
<1>6. CASE \E d \in loc[j].todo : Count(j, d) \/ WipeRole(j, d, FALSE)
  BY <1>4, <1>5, <1>6
<1>7. CASE CountedAll(j) \/ DropRow(j)
  BY <1>0, <1>7 DEF CountedAll, DropRow, Locals
<1>8. CASE RemoveRole(j, FALSE) \/ SetEnabled(j, FALSE)
  <2>1. /\ pc[j] \in {"remove", "suspend", "enable"} /\ pc'[j] \in {"drop", "complete"}
        /\ loc'[j] = loc[j] /\ UNCHANGED <<access, kuser>>
    BY <1>8, AnswerMoves DEF RemoveRole, SetEnabled
  <2> QED BY <2>1
<1>9. CASE RefuseNullRole(j) \/ SetEnabledGone(j)
  BY <1>0, <1>9 DEF RefuseNullRole, SetEnabledGone, Throw
<1>10. CASE CompleteRevoke(j)
  BY <1>0, <1>10 DEF CompleteRevoke
<1>11. CASE Finalize(j)
  BY <1>0, <1>11 DEF Finalize
<1>12. CASE KeepForeignUser(j)
  BY <1>0, <1>12 DEF KeepForeignUser
<1>13. CASE DeleteUser(j, FALSE)
  <2>1. pc'[j] = "mark" /\ loc'[j] = loc[j]
    BY <1>13, AnswerMoves DEF DeleteUser
  <2> QED BY <1>13, <2>1 DEF DeleteUser
<1>14. CASE MarkDeleted(j)
  BY <1>0, <1>14 DEF MarkDeleted
<1> QED BY <1>1, <1>2, <1>3, <1>6, <1>7, <1>8, <1>9, <1>10, <1>11, <1>12, <1>13, <1>14 DEF RevokeStep

\* A fault leaves both as they are; Kisi's user it can change only while the run
\* looks for the user or deletes it.
LEMMA FaultWrites ==
    ASSUME OwnerInv, NEW j \in Jobs, FaultStep(j)
    PROVE  /\ UNCHANGED <<access, src>>
           /\ kuser' = kuser \/ pc[j] \in {"identify", "delete"}
           /\ \/ pc'[j] = "lost"
              \/ pc[j] = "assign" /\ pc'[j] = "assign"
              \/ pc[j] \in {"resolve", "catch"} /\ pc'[j] = "leave" /\ loc'[j].out # "done"
              \/ pc[j] \in Running \ {"resolve", "leave"} /\ pc'[j] = "catch" /\ loc'[j].out # "done"
<1>0. TypeOK /\ KindsFit /\ OwnersFit
  BY DEF OwnerInv
<1>1. /\ UNCHANGED access
      /\ \/ pc'[j] = "lost"
         \/ pc[j] = "assign" /\ pc'[j] = "assign"
         \/ /\ pc'[j] \in {"catch", "leave"} /\ loc'[j].out # "done"
            /\ pc'[j] = "leave" => pc[j] \in {"resolve", "catch"}
            /\ pc'[j] = "catch" => pc[j] \in AtKisi \cup AtDb /\ pc[j] # "resolve"
  BY <1>0, FaultOwns
<1>2. UNCHANGED src /\ (kuser' = kuser \/ pc[j] \in {"identify", "delete"})
  BY DEF FaultStep, Fail, FindOrCreateUser, RemoveRole, SetEnabled, DeleteUser, AssignRole,
         DoorMissing, WipeRole, CatchFails, Crash, kisi
<1>3. "leave" \notin AtKisi \cup AtDb /\ AtKisi \cup AtDb \subseteq Running
  BY DEF AtKisi, AtDb, Running
<1> QED BY <1>1, <1>2, <1>3

-----------------------------------------------------------------------------
(* Whoever is finalized is gone from Kisi.                                 *)

\* A revoke works on the user it found on the access row, and nobody is taken
\* from 'deleted' but by a grant that drops the dead id.
FinalFit(j) ==
    /\ access.status = "deleted" /\ pc[j] \in Running => pc[j] \in {"resolve", "leave"}
    /\ pc[j] \in RevokeAt => loc[j].user = access.user
    /\ pc[j] \in {"delete", "mark"} => access.status = "inactive"
    /\ pc[j] = "mark" => kuser = 0 \/ kuser # access.user

\* The user of whoever is marked 'deleted' (finalizeRevoke) no longer lives in Kisi.
GoneForGood == access.status = "deleted" => kuser = 0 \/ kuser # access.user

FinalInv == (\A j \in Jobs : FinalFit(j)) /\ GoneForGood

LEMMA FinalAtRest ==
    /\ \A i \in Jobs : pc[i] \notin Running => FinalFit(i)
    /\ \A i \in Jobs : pc'[i] \notin Running => FinalFit(i)'
    /\ \A s \in GrantAt \cup {"resolve", "catch", "leave"} : s \notin RevokeAt
    /\ "lost" \notin RevokeAt /\ "lost" \notin Running
    /\ {"delete", "mark"} \subseteq RevokeAt
BY RunningNames DEF FinalFit, Running, AtKisi, AtDb, GrantAt, RevokeAt, CancelAt

LEMMA FinalNext == OwnerInv /\ FinalInv /\ [Next]_vars => FinalInv'
<1> SUFFICES ASSUME OwnerInv, FinalInv, [Next]_vars
             PROVE  (\A i \in Jobs : FinalFit(i)') /\ GoneForGood'
  BY DEF FinalInv
<1>0. /\ TypeOK /\ Serial /\ KindsFit /\ GoneForGood /\ \A i \in Jobs : FinalFit(i)
      /\ pc \in [Jobs -> Steps] /\ loc \in [Jobs -> Locals] /\ access \in AccessRow
  BY DEF OwnerInv, FinalInv, TypeOK
\* A step of a run is only about the run itself.
<1>a. ASSUME NEW j \in Jobs, pc[j] \in Running, OnlyMoves(j), FinalFit(j)'
      PROVE  \A i \in Jobs : FinalFit(i)'
  <2>1. \A i \in Jobs \ {j} : pc'[i] \notin Running
    BY <1>a, AloneInRun
  <2> QED BY <1>a, <2>1, FinalAtRest
<1>1. ASSUME NEW j \in Jobs, GrantStep(j)
      PROVE  (\A i \in Jobs : FinalFit(i)') /\ GoneForGood'
  <2>1. /\ pc[j] \in Running /\ OnlyMoves(j)
        /\ pc'[j] \in GrantAt \cup {"catch", "leave"}
    BY <1>0, <1>1, GrantMoves
  <2>2. access.status = "deleted" => pc[j] = "resolve" \/ pc[j] \notin GrantAt
    BY <1>0, RunningNames DEF FinalFit, GrantAt
  <2>3. \/ pc'[j] = "leave" /\ UNCHANGED <<access, kuser>>
        \/ access'.status # "deleted"
    BY <1>0, <1>1, <2>2, GrantWrites, RollupType DEF kisi, GrantAt
  <2>4. FinalFit(j)'
    BY <2>1, <2>3, FinalAtRest DEF FinalFit
  <2> QED BY <1>0, <1>a, <2>1, <2>3, <2>4 DEF GoneForGood
<1>2. ASSUME NEW j \in Jobs, RevokeStep(j)
      PROVE  (\A i \in Jobs : FinalFit(i)') /\ GoneForGood'
  <2>1. pc[j] \in Running /\ OnlyMoves(j)
    BY <1>0, <1>2, RevokeMoves
  <2>2. FinalFit(j)
    BY <1>0
  <2>3. access.status = "deleted" => pc[j] \in {"resolve", "leave"}
    BY <2>1, <2>2 DEF FinalFit
  <2>4. /\ \A v \in {"in_flight", "active", "inactive", "deleted"} :
              access' = [access EXCEPT !.status = v] => access'.status = v /\ access'.user = access.user
        /\ RollupOf(src') \in {"active", "inactive"}
    BY <1>0, RollupType DEF AccessRow
  <2>5. FinalFit(j)' /\ GoneForGood'
    <3>1. CASE pc'[j] = "leave" /\ UNCHANGED <<access, kuser>>
      BY <1>0, <3>1, FinalAtRest DEF FinalFit, GoneForGood
    <3>2. CASE /\ access' = [access EXCEPT !.status = "in_flight"]
               /\ loc'[j].user = access.user
               /\ pc'[j] \in {"complete", "suspend", "enable", "scan"}
      BY <2>4, <3>2 DEF FinalFit, GoneForGood
    <3>3. CASE /\ pc[j] \in RevokeAt \ {"finalize", "delete", "mark"} /\ UNCHANGED <<access, kuser>>
               /\ \/ /\ loc'[j].user = loc[j].user
                     /\ pc'[j] \in RevokeAt \ {"finalize", "delete", "mark"}
                  \/ pc'[j] = "catch"
      BY <2>2, <2>3, <3>3, FinalAtRest DEF FinalFit, GoneForGood
    <3>4. CASE /\ pc[j] = "complete" /\ access' = [access EXCEPT !.status = RollupOf(src')]
               /\ pc'[j] \in {"leave", "finalize"} /\ UNCHANGED <<kisi, loc>>
      BY <2>2, <2>4, <3>4 DEF FinalFit, GoneForGood, RevokeAt
    <3>5. CASE /\ pc[j] = "finalize"
               /\ pc'[j] \in {"delete", "mark"}
               /\ access.status = "inactive"
               /\ pc'[j] = "mark" => loc[j].user = 0
               /\ UNCHANGED <<access, src, kisi, loc>>
      BY <2>2, <3>5 DEF FinalFit, GoneForGood, RevokeAt
    <3>6. CASE /\ pc[j] = "delete" /\ pc'[j] = "mark" /\ UNCHANGED <<access, src>>
               /\ loc'[j] = loc[j]
               /\ kuser' = IF kuser = loc[j].user THEN 0 ELSE kuser
      BY <2>2, <3>6 DEF FinalFit, GoneForGood, RevokeAt
    <3>7. CASE /\ pc[j] = "mark" /\ pc'[j] = "leave" /\ access' = [access EXCEPT !.status = "deleted"]
               /\ UNCHANGED <<src, kisi>>
      BY <2>2, <2>4, <3>7, FinalAtRest DEF FinalFit, GoneForGood, kisi
    <3> QED BY <1>0, <1>2, <3>1, <3>2, <3>3, <3>4, <3>5, <3>6, <3>7, RevokeWrites DEF kisi
  <2> QED BY <1>a, <2>1, <2>5
<1>3. ASSUME NEW j \in Jobs, FaultStep(j)
      PROVE  (\A i \in Jobs : FinalFit(i)') /\ GoneForGood'
  <2>1. pc[j] \in Running /\ OnlyMoves(j)
    BY <1>0, <1>3, FaultMoves
  <2>2. access.status = "deleted" => pc[j] \in {"resolve", "leave"}
    BY <1>0, <2>1 DEF FinalFit
  <2>3. FinalFit(j)' /\ GoneForGood'
    <3>1. /\ UNCHANGED access
          /\ kuser' = kuser \/ pc[j] \in {"identify", "delete"}
          /\ \/ pc'[j] = "lost"
             \/ pc[j] = "assign" /\ pc'[j] = "assign"
             \/ pc'[j] = "leave"
             \/ pc[j] \in Running \ {"resolve", "leave"} /\ pc'[j] = "catch"
      BY <1>3, FaultWrites
    <3>2. GoneForGood'
      BY <1>0, <2>2, <3>1 DEF GoneForGood
    <3>3. pc'[j] \in {"assign", "catch"} => access'.status # "deleted"
      BY <2>2, <3>1
    <3>4. "assign" \notin RevokeAt
      BY FinalAtRest DEF GrantAt
    <3> QED BY <3>1, <3>2, <3>3, <3>4, FinalAtRest DEF FinalFit
  <2> QED BY <1>a, <2>1, <2>3
<1>4. ASSUME NEW j \in Jobs, EnvStep(j)
      PROVE  (\A i \in Jobs : FinalFit(i)') /\ GoneForGood'
  <2> USE DEF Goto
  <2>1. CASE \E k \in Kinds, p \in Plans \cup {NoPlan} : Enqueue(j, k, p)
    <3>1. /\ pc'[j] = "queued" /\ UNCHANGED <<access, kuser, loc>>
          /\ \A i \in Jobs \ {j} : pc'[i] = pc[i]
      BY <1>0, <2>1 DEF Enqueue, kisi
    <3> QED BY <1>0, <3>1, FinalAtRest, RunningNames DEF FinalFit, GoneForGood, Resting
  <2>2. CASE Take(j)
    <3>1. /\ pc'[j] = "resolve" /\ UNCHANGED <<access, kuser, loc>>
          /\ \A i \in Jobs \ {j} : pc'[i] = pc[i]
      BY <1>0, <2>2 DEF Take, kisi
    <3> QED BY <1>0, <3>1, FinalAtRest DEF FinalFit, GoneForGood
  <2>3. CASE Catch(j)
    <3>1. /\ pc[j] = "catch" /\ pc'[j] = "leave" /\ UNCHANGED <<kuser, loc, job, memberLock>>
          /\ access'.status # "deleted"
          /\ \A i \in Jobs \ {j} : pc'[i] = pc[i]
      BY <1>0, <2>3, RollupType DEF Catch, AccessRow, kisi
    <3>2. OnlyMoves(j) /\ pc[j] \in Running
      BY <3>1, RunningNames DEF OnlyMoves
    <3> QED BY <1>a, <3>1, <3>2, FinalAtRest DEF FinalFit, GoneForGood
  <2>4. CASE Leave(j)
    <3>1. /\ UNCHANGED <<access, kuser>> /\ pc'[j] \in {"done", "dead", "queued"}
          /\ \A i \in Jobs \ {j} : pc'[i] = pc[i] /\ loc'[i] = loc[i]
      BY <1>0, <2>4 DEF Leave, kisi
    <3> QED BY <1>0, <3>1, FinalAtRest, RunningNames DEF FinalFit, GoneForGood, Resting
  <2>5. CASE Stalled(j)
    <3>1. /\ pc'[j] = "queued" /\ UNCHANGED <<kuser, loc>> /\ access'.user = access.user
          /\ \/ access'.status = access.status
             \/ access.status = "in_flight" /\ access'.status # "deleted"
          /\ \A i \in Jobs \ {j} : pc'[i] = pc[i]
      BY <1>0, <2>5, RollupType DEF Stalled, AccessRow, kisi
    <3> QED BY <1>0, <3>1, FinalAtRest, RunningNames DEF FinalFit, GoneForGood, Resting
  <2>6. CASE LockExpires(j)
    BY <1>0, <2>6 DEF LockExpires, FinalFit, GoneForGood, kisi
  <2> QED BY <1>4, <2>1, <2>2, <2>3, <2>4, <2>5, <2>6 DEF EnvStep
<1>5. ASSUME ReleaseStaleLocks PROVE (\A i \in Jobs : FinalFit(i)') /\ GoneForGood'
  <2>1. /\ access'.status = "recovery_pending" /\ UNCHANGED pc
        /\ \A i \in Jobs : pc[i] \notin Running
    BY <1>0, <1>5, RunningNames DEF ReleaseStaleLocks, AccessRow
  <2> QED BY <2>1, FinalAtRest DEF GoneForGood
<1>6. ASSUME StaffDeletesUser PROVE (\A i \in Jobs : FinalFit(i)') /\ GoneForGood'
  BY <1>0, <1>6 DEF StaffDeletesUser, FinalFit, GoneForGood
<1>7. CASE UNCHANGED vars
  BY <1>0, <1>7 DEF vars, kisi, FinalFit, GoneForGood
<1> QED BY <1>1, <1>2, <1>3, <1>4, <1>5, <1>6, <1>7, NextCases
-----------------------------------------------------------------------------
(* The status is the rollup of the rows.                                   *)

\* Without this a purchase of such a plan sets the status on its own.
EveryPlanOpens == \A p \in Plans : DoorsOf[p] # {}

\* A job gets its plan when it comes, if its kind has one, and keeps it.
FreshFit ==
    \A j \in Jobs : pc[j] = "absent" \/ job[j].kind \notin PlanKinds => Plan(j) = NoPlan

LEMMA FreshNext ==
    ASSUME TypeOK, KindsFit, FreshFit, [Next]_vars
    PROVE  FreshFit' /\ (Mapped' => Mapped)
<1>0. pc \in [Jobs -> Steps] /\ job \in [Jobs -> Job]
  BY DEF TypeOK
<1>1. ASSUME UNCHANGED <<pc, job>> PROVE FreshFit' /\ (Mapped' => Mapped)
  BY <1>1 DEF FreshFit, Mapped, Plan
<1>2. ASSUME NEW j \in Jobs, GrantStep(j) \/ RevokeStep(j) \/ FaultStep(j)
      PROVE  FreshFit' /\ (Mapped' => Mapped)
  <2>1. OnlyMoves(j) /\ pc'[j] # "absent"
    BY <1>0, <1>2, GrantMoves, RevokeMoves, FaultMoves DEF GrantAt, RevokeAt, CancelAt
  <2> QED BY <2>1 DEF OnlyMoves, FreshFit, Mapped, Plan
<1>3. ASSUME NEW j \in Jobs, EnvStep(j) PROVE FreshFit' /\ (Mapped' => Mapped)
  <2> USE DEF Goto
  <2>1. CASE \E k \in Kinds, p \in Plans \cup {NoPlan} : Enqueue(j, k, p)
    <3>1. /\ pc[j] = "absent" /\ pc'[j] # "absent"
          /\ job'[j].kind \notin PlanKinds => job'[j].plan = NoPlan
          /\ \A i \in Jobs \ {j} : pc'[i] = pc[i] /\ job'[i] = job[i]
      BY <1>0, <2>1 DEF Enqueue, Job
    <3> QED BY <3>1 DEF FreshFit, Mapped, Plan
  <2>2. CASE Take(j) \/ Catch(j) \/ Stalled(j) \/ LockExpires(j)
    BY <1>0, <2>2 DEF Take, Catch, Stalled, LockExpires, FreshFit, Mapped, Plan
  <2>3. CASE Leave(j)
    <3>1. /\ pc'[j] # "absent" /\ \A i \in Jobs : job'[i].plan = job[i].plan
          /\ \A i \in Jobs : job'[i].kind = job[i].kind
          /\ \A i \in Jobs \ {j} : pc'[i] = pc[i]
      BY <1>0, <2>3 DEF Leave, Job
    <3> QED BY <3>1 DEF FreshFit, Mapped, Plan
  <2> QED BY <1>3, <2>1, <2>2, <2>3 DEF EnvStep
<1>4. CASE ReleaseStaleLocks \/ StaffDeletesUser \/ UNCHANGED vars
  BY <1>1, <1>4 DEF ReleaseStaleLocks, StaffDeletesUser, vars
<1> QED BY <1>2, <1>3, <1>4, NextCases

Astray == access.status \in {"active", "inactive"} /\ access.status # RollupOf(src)

\* Until a run has put the status right, its job is neither done nor gone.
StatusFit(j) ==
    /\ pc[j] # "park"
    /\ pc[j] = "leave" /\ loc[j].out = "done" => ~Astray
    /\ pc[j] \in {"finalize", "delete", "mark"} => access.status = RollupOf(src)

StatusInv ==
    /\ \A j \in Jobs : StatusFit(j)
    /\ Astray => \E j \in Jobs : pc[j] \notin {"absent", "done"}

LEMMA StatusAtRest ==
    \A i \in Jobs : pc'[i] \notin Running => StatusFit(i)'
BY RunningNames DEF StatusFit, Running, AtKisi, AtDb

LEMMA GrantOpens ==
    ASSUME Mapped, TypeOK, KindsFit, NEW j \in Jobs,
           job[j].kind \in GrantKinds, pc[j] \in Running
    PROVE  Plan(j) \in Plans /\ Doors(j) # {}
<1>1. Plan(j) \in Plans
  BY RunningNames DEF KindsFit, PlanKinds, GrantKinds, Resting
<1>2. DoorsOf[Plan(j)] # {}
  BY <1>1, ConstantsAssumption DEF Mapped, Plan
<1> QED BY <1>1, <1>2 DEF Doors

LEMMA StatusNext ==
    ASSUME Mapped, OwnerInv, StatusInv, [Next]_vars
    PROVE  StatusInv'
<1>0. /\ TypeOK /\ Serial /\ KindsFit /\ OwnersFit /\ \A i \in Jobs : StatusFit(i)
      /\ pc \in [Jobs -> Steps] /\ loc \in [Jobs -> Locals] /\ access \in AccessRow
      /\ RollupOf(src) \in {"active", "inactive"} /\ RollupOf(src') \in {"active", "inactive"}
  BY RollupType DEF OwnerInv, StatusInv, TypeOK
\* A step of a run that leaves the run, or the error of one, behind.
<1>a. ASSUME NEW j \in Jobs, pc[j] \in Running, OnlyMoves(j), StatusFit(j)',
             pc'[j] \notin {"absent", "done"}
      PROVE  StatusInv'
  <2>1. \A i \in Jobs \ {j} : pc'[i] \notin Running
    BY <1>a, AloneInRun
  <2> QED BY <1>a, <2>1, StatusAtRest DEF StatusInv
<1>1. ASSUME NEW j \in Jobs, GrantStep(j) PROVE StatusInv'
  <2>1. /\ pc[j] \in Running /\ OnlyMoves(j) /\ job[j].kind \in GrantKinds
        /\ pc'[j] \in GrantAt \cup {"catch", "leave"}
    BY <1>0, <1>1, GrantMoves
  <2>2. Doors(j) # {}
    BY <1>0, <2>1, GrantOpens
  <2>3. pc[j] # "park"
    BY <1>0 DEF StatusFit
  <2>4. /\ pc'[j] = "leave" => ~Astray'
        /\ pc'[j] # "park"
    BY <1>0, <1>1, <2>2, <2>3, GrantWrites DEF Astray
  <2>5. StatusFit(j)'
    BY <2>1, <2>4 DEF StatusFit, GrantAt
  <2>6. pc'[j] \notin {"absent", "done"}
    BY <2>1 DEF GrantAt
  <2> QED BY <1>a, <2>1, <2>5, <2>6
<1>2. ASSUME NEW j \in Jobs, RevokeStep(j) PROVE StatusInv'
  <2>1. /\ pc[j] \in Running /\ OnlyMoves(j)
        /\ StatusFit(j)
    BY <1>0, <1>2, RevokeMoves
  <2>2. \A v \in {"in_flight", "active", "inactive", "deleted"} :
              access' = [access EXCEPT !.status = v] => access'.status = v
    BY <1>0 DEF AccessRow
  <2>3. ~Findable => ~Astray
    BY <1>0 DEF Findable, Astray, RollupOf
  <2>4. pc'[j] = "catch" => loc'[j].out # "done"
    BY <1>0, <1>2, RevokeOwns
  <2>5. StatusFit(j)' /\ pc'[j] \notin {"absent", "done"}
    <3>1. CASE pc[j] = "resolve" /\ pc'[j] = "leave" /\ ~Findable /\ UNCHANGED <<access, src, kisi>>
      BY <2>3, <3>1 DEF StatusFit, Astray
    <3>2. CASE pc'[j] \in {"complete", "suspend", "enable", "scan", "catch"}
      BY <3>2 DEF StatusFit
    <3>3. CASE pc'[j] \in RevokeAt \ {"finalize", "delete", "mark"}
      BY <3>3 DEF StatusFit, RevokeAt, CancelAt
    <3>4. CASE /\ pc[j] = "complete" /\ access' = [access EXCEPT !.status = RollupOf(src')]
               /\ pc'[j] \in {"leave", "finalize"}
      BY <1>0, <2>2, <3>4 DEF StatusFit, Astray
    <3>5. CASE /\ pc[j] \in {"finalize", "delete"} /\ pc'[j] \in {"leave", "delete", "mark"}
               /\ UNCHANGED <<access, src>>
      BY <2>1, <3>5 DEF StatusFit, Astray
    <3>6. CASE pc[j] = "mark" /\ pc'[j] = "leave" /\ access' = [access EXCEPT !.status = "deleted"]
      BY <2>2, <3>6 DEF StatusFit, Astray
    <3> QED BY <1>0, <1>2, <3>1, <3>2, <3>3, <3>4, <3>5, <3>6, RevokeWrites
  <2> QED BY <1>a, <2>1, <2>5
<1>3. ASSUME NEW j \in Jobs, FaultStep(j) PROVE StatusInv'
  <2>1. pc[j] \in Running /\ OnlyMoves(j)
    BY <1>0, <1>3, FaultMoves
  <2>2. pc'[j] \in {"lost", "assign", "catch"} \/ (pc'[j] = "leave" /\ loc'[j].out # "done")
    BY <1>3, FaultWrites
  <2> QED BY <1>a, <2>1, <2>2 DEF StatusFit
<1>4. ASSUME NEW j \in Jobs, EnvStep(j) PROVE StatusInv'
  <2> USE DEF Goto
  <2>0. {"absent", "queued", "lost", "done", "dead"} \cap Running = {}
    BY RunningNames DEF Resting
  <2>1. CASE \E k \in Kinds, p \in Plans \cup {NoPlan} : Enqueue(j, k, p)
    <3>1. /\ pc'[j] = "queued" /\ UNCHANGED <<access, src, loc>>
          /\ \A i \in Jobs \ {j} : pc'[i] = pc[i]
      BY <1>0, <2>1 DEF Enqueue
    <3> QED BY <1>0, <2>0, <3>1, StatusAtRest DEF StatusFit, StatusInv, Astray
  <2>2. CASE Take(j)
    <3>1. /\ pc[j] = "queued" /\ pc'[j] = "resolve" /\ UNCHANGED <<access, src, loc>>
          /\ \A i \in Jobs \ {j} : pc'[i] = pc[i]
      BY <1>0, <2>2 DEF Take
    <3> QED BY <1>0, <3>1 DEF StatusFit, StatusInv, Astray
  <2>3. CASE Catch(j)
    <3>1. /\ pc[j] = "catch" /\ pc'[j] = "leave" /\ UNCHANGED <<src, loc, job, memberLock>>
          /\ access'.status \in {"removing", RollupOf(src)}
          /\ \A i \in Jobs \ {j} : pc'[i] = pc[i]
      BY <1>0, <2>3 DEF Catch, AccessRow
    <3>2. OnlyMoves(j) /\ pc[j] \in Running
      BY <3>1, RunningNames DEF OnlyMoves
    <3>3. ~Astray'
      BY <3>1 DEF Astray
    <3> QED BY <1>a, <3>1, <3>2, <3>3 DEF StatusFit
  <2>4. CASE Leave(j)
    <3>1. /\ pc[j] = "leave" /\ UNCHANGED <<access, src>> /\ pc'[j] \in {"done", "dead", "queued"}
          /\ pc'[j] = "done" => loc[j].out = "done"
          /\ \A i \in Jobs \ {j} : pc'[i] = pc[i] /\ loc'[i] = loc[i]
      BY <1>0, <2>4 DEF Leave
    <3>2. \A i \in Jobs : StatusFit(i)'
      BY <1>0, <2>0, <3>1, StatusAtRest DEF StatusFit, Astray
    <3>3. Astray' => pc'[j] \notin {"absent", "done"}
      BY <1>0, <3>1 DEF StatusFit, Astray
    <3> QED BY <3>2, <3>3 DEF StatusInv
  <2>5. CASE Stalled(j)
    <3>1. /\ pc'[j] = "queued" /\ UNCHANGED <<src, loc>>
          /\ \/ access'.status = access.status
             \/ access.status = "in_flight" /\ access'.status = RollupOf(src)
          /\ \A i \in Jobs \ {j} : pc'[i] = pc[i]
      BY <1>0, <2>5 DEF Stalled, AccessRow
    <3>2. \A i \in Jobs : StatusFit(i)'
      BY <1>0, <2>0, <3>1, StatusAtRest DEF StatusFit, Astray
    <3> QED BY <3>1, <3>2 DEF StatusInv
  <2>6. CASE LockExpires(j)
    BY <1>0, <2>6 DEF LockExpires, StatusFit, StatusInv, Astray
  <2> QED BY <1>4, <2>1, <2>2, <2>3, <2>4, <2>5, <2>6 DEF EnvStep
<1>5. ASSUME ReleaseStaleLocks PROVE StatusInv'
  <2>1. /\ access'.status = "recovery_pending" /\ UNCHANGED pc
        /\ \A i \in Jobs : pc[i] \notin Running
    BY <1>0, <1>5, RunningNames DEF ReleaseStaleLocks, AccessRow
  <2> QED BY <2>1, StatusAtRest DEF StatusInv, Astray
<1>6. CASE StaffDeletesUser \/ UNCHANGED vars
  BY <1>0, <1>6 DEF StaffDeletesUser, vars, StatusFit, StatusInv, Astray
<1> QED BY <1>1, <1>2, <1>3, <1>4, <1>5, <1>6, NextCases
-----------------------------------------------------------------------------
(* A finalized person has no row left.                                     *)

\* The guard before the finalize counts active rows. A parked row and a paused
\* one are rows, too, and it does not see them.
NothingPaused == Parks \subseteq {"no_email"} /\ "payfail" \notin Kinds

PlainRows ==
    /\ \A j \in Jobs : job[j].kind # "payfail"
    /\ \A k \in Rows : src[k].status = "active"
    /\ access.status = "deleted" => Rows = {}

\* The rows change under a run that has taken the person over, and only by
\* being deleted or becoming active.
LEMMA RowsWrite ==
    ASSUME NothingPaused, OwnerInv, FinalInv, PlainRows, [Next]_vars
    PROVE  \/ src' = src
           \/ /\ \A k \in Keys : src'[k] \in {src[k], NoRow} \/ src'[k].status = "active"
              /\ access'.status # "deleted"
<1>0. /\ TypeOK /\ KindsFit /\ \A i \in Jobs : FinalFit(i)
      /\ access \in AccessRow /\ src \in [Keys -> SourceRow]
  BY DEF OwnerInv, FinalInv, TypeOK
<1>1. ASSUME NEW j \in Jobs, GrantStep(j), src' # src
      PROVE  /\ \A k \in Keys : src'[k] \in {src[k], NoRow} \/ src'[k].status = "active"
             /\ access' = access /\ pc[j] \in {"purge", "record"}
  <2>1. PurgeRows(j) \/ \E d \in loc[j].got : RecordRow(j, d)
    BY <1>1 DEF NothingPaused, GrantStep, SkipStarted, ResolveGrant, ParkUnmapped, ParkHardware,
                ParkStart, ParkIdentity, IdentifyCached, FindOrCreateUser, CacheUser, ReuseRole,
                UserGone, AssignRole, EndAssign, RollUp
  <2>2. CASE PurgeRows(j)
    BY <2>2 DEF PurgeRows
  <2>3. ASSUME NEW d \in loc[j].got, RecordRow(j, d)
        PROVE  /\ \A k \in Keys : src'[k] = src[k] \/ src'[k].status = "active"
               /\ access' = access /\ pc[j] = "record"
    BY <1>0, <2>3 DEF RecordRow
  <2> QED BY <2>1, <2>2, <2>3
<1>2. ASSUME NEW j \in Jobs, RevokeStep(j), src' # src
      PROVE  /\ \A k \in Keys : src'[k] \in {src[k], NoRow} \/ src'[k].status = "active"
             /\ access'.status # "deleted" \/ access' = access
             /\ pc[j] \in {"drop", "complete"}
  <2>1. DropRow(j) \/ CompleteRevoke(j)
    BY <1>2 DEF RevokeStep, SkipUnknown, ResolveRevoke, Scan, Count, WipeRole, CountedAll,
                RemoveRole, RefuseNullRole, SetEnabled, SetEnabledGone, Finalize,
                KeepForeignUser, DeleteUser, MarkDeleted
  <2>2. CASE DropRow(j)
    BY <2>2 DEF DropRow
  <2>3. CASE CompleteRevoke(j)
    <3>1. access'.status # "deleted"
      BY <1>0, <2>3, RollupType DEF CompleteRevoke, AccessRow
    <3>2. job[j].kind \in AllKinds \ {"purchase", "started", "payfail"}
      BY <1>0, <1>2, RevokeMoves DEF PlainRows, TypeOK, Job, GrantKinds
    <3>3. src' = RowsAfter(job[j].kind)
      BY <2>3 DEF CompleteRevoke
    <3>4. \A k \in Keys : src'[k] \in {src[k], NoRow} \/ src'[k].status = "active"
      <4>1. CASE job[j].kind \in CancelKinds
        BY <3>3, <4>1 DEF RowsAfter, CancelKinds
      <4>2. CASE job[j].kind = "deleted"
        BY <3>3, <4>2 DEF RowsAfter, CancelKinds
      <4>3. CASE job[j].kind = "recovered"
        BY <1>0, <3>3, <4>3 DEF RowsAfter, CancelKinds, SourceRow
      <4> QED BY <3>2, <4>1, <4>2, <4>3 DEF AllKinds, CancelKinds
    <3> QED BY <2>3, <3>1, <3>4 DEF CompleteRevoke
  <2> QED BY <2>1, <2>2, <2>3
<1>3. ASSUME NEW j \in Jobs, FaultStep(j) PROVE src' = src
  BY <1>3, FaultWrites
<1>4. ASSUME NEW j \in Jobs, EnvStep(j) PROVE src' = src
  BY <1>4 DEF EnvStep, Enqueue, Take, Catch, Leave, Stalled, LockExpires
<1>5. \A j \in Jobs : pc[j] \in {"purge", "record", "drop", "complete"} => access.status # "deleted"
  BY <1>0 DEF FinalFit, Running, AtDb
<1>6. CASE ReleaseStaleLocks \/ StaffDeletesUser \/ UNCHANGED vars
  BY <1>6 DEF ReleaseStaleLocks, StaffDeletesUser, vars
<1> QED BY <1>1, <1>2, <1>3, <1>4, <1>5, <1>6, NextCases

\* A kind of job that the world does not send does not come up.
LEMMA KindsCome ==
    ASSUME OwnerInv, [Next]_vars, NEW kind, kind \notin Kinds, \A j \in Jobs : job[j].kind # kind
    PROVE  \A j \in Jobs : job'[j].kind # kind
<1>0. TypeOK /\ KindsFit /\ job \in [Jobs -> Job]
  BY DEF OwnerInv, TypeOK
<1>1. ASSUME NEW j \in Jobs, GrantStep(j) \/ RevokeStep(j) \/ FaultStep(j)
      PROVE  \A i \in Jobs : job'[i].kind # kind
  <2>1. OnlyMoves(j)
    BY <1>0, <1>1, GrantMoves, RevokeMoves, FaultMoves
  <2> QED BY <2>1 DEF OnlyMoves
<1>2. ASSUME NEW j \in Jobs, NEW k \in Kinds, NEW p \in Plans \cup {NoPlan}, Enqueue(j, k, p)
      PROVE  \A i \in Jobs : job'[i].kind # kind
  BY <1>0, <1>2 DEF Enqueue, Job
<1>3. ASSUME NEW j \in Jobs, EnvStep(j) PROVE \A i \in Jobs : job'[i].kind # kind
  BY <1>0, <1>2, <1>3 DEF EnvStep, Take, Catch, Leave, Stalled, LockExpires, Job
<1> QED BY <1>1, <1>3, NextCases DEF ReleaseStaleLocks, StaffDeletesUser, vars

LEMMA PlainNext ==
    ASSUME NothingPaused, OwnerInv, FinalInv, StatusInv, PlainRows, [Next]_vars
    PROVE  PlainRows'
<1>0. /\ TypeOK /\ KindsFit /\ access \in AccessRow /\ job \in [Jobs -> Job] /\ src \in [Keys -> SourceRow]
      /\ \A i \in Jobs : FinalFit(i) /\ StatusFit(i)
  BY DEF OwnerInv, FinalInv, StatusInv, TypeOK
<1>1. \A j \in Jobs : job'[j].kind # "payfail"
  BY KindsCome DEF PlainRows, NothingPaused
<1>2. \A k \in Rows' : src'[k].status = "active"
  BY RowsWrite DEF Rows, NoRow, PlainRows
<1>3. access'.status = "deleted" => access.status = "deleted" \/ Rows = {}
  <2>1. ASSUME NEW j \in Jobs, RevokeStep(j), access'.status = "deleted", access.status # "deleted"
        PROVE  Rows = {}
    <3>1. pc[j] = "mark"
      <4>1. RollupOf(src') \in {"active", "inactive"}
        BY RollupType
      <4>2. \A v \in {"in_flight", "active", "inactive"} :
                access' = [access EXCEPT !.status = v] => access'.status = v
        BY <1>0 DEF AccessRow
      <4> QED BY <1>0, <2>1, <4>1, <4>2, RevokeWrites
    <3>2. RollupOf(src) = "inactive"
      BY <1>0, <3>1 DEF FinalFit, StatusFit
    <3> QED BY <3>2 DEF RollupOf, PlainRows, Rows
  <2>2. ASSUME NEW j \in Jobs, GrantStep(j), access'.status = "deleted"
        PROVE  access.status = "deleted"
    BY <1>0, <2>2, GrantWrites, RollupType
  <2>3. ASSUME NEW j \in Jobs, FaultStep(j) PROVE access' = access
    BY <2>3, FaultWrites
  <2>4. ASSUME NEW j \in Jobs, EnvStep(j), access'.status = "deleted"
        PROVE  access.status = "deleted"
    BY <1>0, <2>4, RollupType DEF EnvStep, Enqueue, Take, Catch, Leave, Stalled, LockExpires, AccessRow
  <2>5. ASSUME ReleaseStaleLocks \/ StaffDeletesUser \/ UNCHANGED vars, access'.status = "deleted"
        PROVE  access.status = "deleted"
    BY <1>0, <2>5 DEF ReleaseStaleLocks, StaffDeletesUser, vars, AccessRow
  <2> QED BY <2>1, <2>2, <2>3, <2>4, <2>5, NextCases
<1>4. access'.status = "deleted" => Rows' = {}
  BY <1>3, RowsWrite DEF Rows, PlainRows
<1> QED BY <1>1, <1>2, <1>4 DEF PlainRows
-----------------------------------------------------------------------------
(* Every role is on a row, or a grant that will put it on one is not done.  *)

\* A grant parked halfway would forget the roles it has been given.
ParksEarly == Parks \subseteq {"no_email"}

\* A member's deletion wipes the roles it finds on rows, and then every row: a
\* parked row would hide the role of its door.
ParksAreFollowed == ParksEarly \/ "deleted" \notin Kinds

ParkedFit ==
    /\ ParksEarly => \A k \in Rows : src[k].status # "pending"
    /\ "deleted" \notin Kinds => \A j \in Jobs : job[j].kind # "deleted"

\* Only a parked row has no role.
RowsFit == \A k \in Rows : src[k].role = 0 <=> src[k].status = "pending"

\* Kisi's roles are all of the user on record, one for a door, and a row on the
\* door that is not parked has that one's id.
RolesFit ==
    /\ \A r \in kroles : r.user = kuser /\ r.user # 0 /\ r.id # 0
    /\ kroles # {} => access.user = kuser
    /\ \A r, s \in kroles : r.group = s.group => r = s
    /\ RowsFit
    /\ \A k \in Rows : src[k].role # 0 =>
           \A r \in kroles : k[2] = r.group => src[k].role = r.id

\* A door in the hands of a run has the role that Kisi has for it, if any.
Agrees(d) == d.role # 0 => \A r \in kroles : r.group = d.group => r.id = d.role

\* What a grant knows: a user that was gone had no role left, and what it has
\* got it will write down.
GrantFit(j) ==
    /\ pc[j] \in Resting \cup {"resolve"} => "again" \notin loc[j].flags
    /\ pc[j] = "identify" /\ "again" \in loc[j].flags => kroles = {}
    /\ pc[j] \in {"purge", "cache"} => kroles = {}
    /\ pc[j] \in {"purge", "cache", "assign"} => loc[j].user # 0
    /\ pc[j] = "assign" =>
         /\ loc[j].user = access.user
         /\ loc[j].first = "gone" => "gone" \in loc[j].flags
         /\ "gone" \in loc[j].flags => kroles = {}
         /\ loc[j].todo \subseteq Doors(j)
         /\ \A d \in loc[j].todo, e \in loc[j].got : d.group # e.group
    /\ pc[j] \in {"assign", "record"} => \A d \in loc[j].got : d.role # 0 /\ Agrees(d)

\* What a revoke knows: which role a row it deletes stood for, and that the
\* role is gone or on another row.
RevokeFit(j) ==
    /\ pc[j] \in {"suspend", "enable"} => job[j].kind # "deleted"
    /\ pc[j] \in {"count", "remove", "drop"} => \A d \in loc[j].todo : Agrees(d)
    /\ pc[j] \in {"remove", "drop"} => Agrees(loc[j].cur)
    /\ pc[j] = "drop" => \/ Remaining(Plan(j), loc[j].cur.group) # {}
                         \/ \A r \in kroles : r.group # loc[j].cur.group
    /\ pc[j] = "wipe" => \A k \in Rows : \A r \in kroles : k[2] = r.group =>
                            \E d \in loc[j].todo : d.role = r.id
    /\ pc[j] = "complete" /\ job[j].kind = "deleted" =>
           \A k \in Rows : \A r \in kroles : k[2] # r.group

\* The grant has this door still before it, or in its hands.
WillRecord(j, g) ==
    /\ job[j].kind \in GrantKinds /\ g \in DoorsOf[Plan(j)]
    /\ \/ pc[j] \in {"queued", "lost", "dead", "resolve", "identify"}
       \/ pc[j] = "assign" /\ \E d \in loc[j].todo \cup loc[j].got : d.group = g
       \/ pc[j] = "record" /\ \E d \in loc[j].got : d.group = g
       \/ pc[j] \in {"catch", "leave"} /\ loc[j].out # "done"

OnRow(g) == \E k \in Rows : k[2] = g

Followed == \A r \in kroles : OnRow(r.group) \/ \E j \in Jobs : WillRecord(j, r.group)

TrackInv == RolesFit /\ (\A j \in Jobs : GrantFit(j) /\ RevokeFit(j)) /\ Followed

\* What a step of j must show: the roles it was not to follow itself stay where
\* they were.
Follows(j) ==
    \A r \in kroles' : \/ OnRow(r.group)'
                       \/ WillRecord(j, r.group)'
                       \/ r \in kroles /\ ~WillRecord(j, r.group) /\ ~OnRow(r.group)

LEMMA TrackRun ==
    ASSUME OwnerInv, TrackInv, NEW j \in Jobs, pc[j] \in Running, OnlyMoves(j),
           RolesFit', GrantFit(j)', RevokeFit(j)', Follows(j)
    PROVE  TrackInv'
<1>1. ASSUME NEW i \in Jobs \ {j} PROVE GrantFit(i)' /\ RevokeFit(i)'
  <2>1. pc[i] \notin Running /\ pc'[i] = pc[i] /\ loc'[i] = loc[i]
    BY AloneInRun DEF OnlyMoves
  <2> QED BY <2>1 DEF TrackInv, GrantFit, RevokeFit, Running, AtKisi, AtDb
<1>2. \A i \in Jobs \ {j} : \A g : WillRecord(i, g) => WillRecord(i, g)'
  BY DEF OnlyMoves, WillRecord, Plan
<1>3. Followed'
  BY <1>2 DEF Followed, Follows, TrackInv
<1> QED BY <1>1, <1>3 DEF TrackInv

\* Where nothing but the run itself moves.
LEMMA RolesStay ==
    ASSUME RolesFit, kroles' \subseteq kroles, kuser' = kuser, access'.user = access.user,
           src' = src
    PROVE  RolesFit' /\ \A g : OnRow(g)' = OnRow(g)
BY DEF RolesFit, RowsFit, Rows, OnRow

\* A user takes its roles along.
LEMMA DeletesRoles ==
    ASSUME RolesFit, NEW u, kuser' = (IF kuser = u THEN 0 ELSE kuser),
           kroles' = kroles \ RolesOf(u), UNCHANGED <<access, src>>
    PROVE  RolesFit' /\ \A g : OnRow(g)' = OnRow(g)
<1>1. kuser = u => kroles' = {}
  BY DEF RolesFit, RolesOf
<1>2. kroles' \subseteq kroles
  OBVIOUS
<1> QED BY <1>1, <1>2 DEF RolesFit, RowsFit, Rows, OnRow

\* Without a user on record there are no roles.
LEMMA NoUserNoRoles == RolesFit /\ access.user = 0 => kroles = {}
<1> SUFFICES ASSUME RolesFit, access.user = 0, NEW r \in kroles PROVE FALSE
  OBVIOUS
<1>1. r.user = kuser /\ r.user # 0 /\ access.user = kuser
  BY DEF RolesFit
<1> QED BY <1>1

\* The doors a grant begins with.
LEMMA DoorsKnown ==
    ASSUME TypeOK, NEW j \in Jobs
    PROVE  /\ \A d \in Doors(j) : d.group \in DoorsOf[Plan(j)] /\ d.role = 0
           /\ \A g \in DoorsOf[Plan(j)] : \E d \in Doors(j) : d.group = g
           /\ Doors(j) = {} => DoorsOf[Plan(j)] = {}
<1>1. \A d \in Doors(j) : d.group \in DoorsOf[Plan(j)] /\ d.role = 0
  BY DEF Doors
<1>2. ASSUME NEW g \in DoorsOf[Plan(j)] PROVE \E d \in Doors(j) : d.group = g
  <2>1. [group |-> g, role |-> 0] \in Doors(j)
    BY DEF Doors
  <2> QED BY <2>1
<1> QED BY <1>1, <1>2
-----------------------------------------------------------------------------
(* Grants.                                                                 *)

\* A user that has to be found or made has no role yet.
LEMMA NewUserNoRoles ==
    ASSUME TrackInv, NEW j \in Jobs, pc[j] = "identify",
           access.user = 0 \/ "again" \in loc[j].flags
    PROVE  kroles = {}
BY NoUserNoRoles DEF TrackInv, GrantFit

\* Where Kisi holds no role there is nothing to follow.
LEMMA NothingToFollow ==
    ASSUME RolesFit, kroles' = {}, RowsFit'
    PROVE  RolesFit' /\ \A j : Follows(j)
BY DEF RolesFit, Follows

LEMMA BeginAssign ==
    ASSUME TypeOK, RolesFit, NEW j \in Jobs, NEW u,
           loc'[j] = ToAssign(j, u), pc'[j] = "assign", u = access'.user, u # 0,
           Doors(j)' = Doors(j)
    PROVE  GrantFit(j)' /\ RevokeFit(j)'
<1>1. /\ loc'[j].user = u /\ loc'[j].todo = Doors(j) /\ loc'[j].got = {}
      /\ loc'[j].first = "none" /\ "gone" \notin loc'[j].flags
  BY DEF ToAssign, TypeOK, Locals
<1> QED BY <1>1 DEF GrantFit, RevokeFit, Resting

\* Up to the assignments.
LEMMA TrackBegin ==
    ASSUME OwnerInv, FinalInv, TrackInv, NEW j \in Jobs,
           \/ SkipStarted(j) \/ ResolveGrant(j) \/ ParkUnmapped(j) \/ ParkIdentity(j)
           \/ IdentifyCached(j) \/ FindOrCreateUser(j, FALSE)
           \/ PurgeRows(j) \/ CacheUser(j)
    PROVE  RolesFit' /\ GrantFit(j)' /\ RevokeFit(j)' /\ Follows(j)
<1> USE DEF Goto, kisi
<1>0. /\ TypeOK /\ RolesFit /\ GrantFit(j) /\ RevokeFit(j) /\ GoneForGood
      /\ pc \in [Jobs -> Steps] /\ loc \in [Jobs -> Locals] /\ access \in AccessRow
  BY DEF OwnerInv, FinalInv, TrackInv, TypeOK
<1>1. CASE SkipStarted(j)
  <2>1. RolesFit' /\ \A g : OnRow(g)' = OnRow(g)
    BY <1>0, <1>1, RolesStay DEF SkipStarted
  <2>2. \A g : ~WillRecord(j, g)
    BY <1>0, <1>1, DoorsKnown DEF SkipStarted, WillRecord
  <2> QED BY <1>0, <1>1, <2>1, <2>2 DEF SkipStarted, GrantFit, RevokeFit, Resting, Follows
<1>2. CASE ResolveGrant(j)
  <2>1. /\ UNCHANGED <<src, kisi, loc, job>> /\ pc[j] = "resolve"
        /\ pc'[j] = IF Doors(j) = {} THEN "park" ELSE "identify"
        /\ access'.user = IF access.status = "deleted" THEN 0 ELSE access.user
    BY <1>0, <1>2 DEF ResolveGrant, AccessRow
  <2>2. access.status = "deleted" => kroles = {}
    BY <1>0 DEF GoneForGood, RolesFit
  <2>3. RolesFit' /\ \A g : OnRow(g)' = OnRow(g)
    BY <1>0, <2>1, <2>2, RolesStay, NothingToFollow DEF RolesFit, RowsFit, Rows, OnRow
  <2>4. \A g : WillRecord(j, g) => WillRecord(j, g)'
    BY <1>0, <2>1, DoorsKnown DEF WillRecord, Plan
  <2> QED BY <1>0, <2>1, <2>3, <2>4 DEF GrantFit, RevokeFit, Resting, Follows
<1>3. CASE ParkUnmapped(j)
  <2>1. /\ UNCHANGED <<src, kisi, loc, job>> /\ pc[j] = "park" /\ pc'[j] = "leave"
        /\ access'.user = access.user
    BY <1>0, <1>3 DEF ParkUnmapped, AccessRow
  <2>2. RolesFit' /\ \A g : OnRow(g)' = OnRow(g)
    BY <1>0, <2>1, RolesStay
  <2> QED BY <2>1, <2>2 DEF GrantFit, RevokeFit, Resting, Follows, WillRecord
<1>5. CASE ParkIdentity(j)
  <2>1. UNCHANGED <<src, kisi>> /\ pc'[j] = "leave" /\ kroles = {}
    BY <1>0, <1>5, NewUserNoRoles DEF ParkIdentity
  <2>2. RowsFit'
    BY <1>0, <2>1 DEF RolesFit, RowsFit, Rows
  <2> QED BY <1>0, <2>1, <2>2, NothingToFollow DEF GrantFit, RevokeFit, Resting
<1>6. CASE IdentifyCached(j)
  <2>1. /\ UNCHANGED <<access, src, kisi, job>> /\ pc[j] = "identify" /\ pc'[j] = "assign"
        /\ loc'[j] = ToAssign(j, access.user) /\ Doors(j)' = Doors(j)
    BY <1>0, <1>6 DEF IdentifyCached, Doors, Plan
  <2>2. RolesFit' /\ \A g : OnRow(g)' = OnRow(g)
    BY <1>0, <2>1, RolesStay
  <2>3. GrantFit(j)' /\ RevokeFit(j)'
    BY <1>0, <1>6, <2>1, BeginAssign DEF IdentifyCached
  <2>4. loc'[j].todo = Doors(j)
    BY <1>0, <2>1 DEF ToAssign, Locals
  <2>5. \A g : WillRecord(j, g) => WillRecord(j, g)'
    BY <1>0, <2>1, <2>4, DoorsKnown DEF WillRecord, Plan
  <2> QED BY <2>1, <2>2, <2>3, <2>5 DEF Follows
<1>7. CASE FindOrCreateUser(j, FALSE)
  <2>1. /\ pc'[j] \in {"purge", "cache"} /\ UNCHANGED <<src, kroles>> /\ kroles = {}
    BY <1>0, <1>7, NewUserNoRoles, AnswerMoves DEF FindOrCreateUser
  <2>3. loc'[j].user # 0
    <3>1. loc'[j] = [loc[j] EXCEPT !.user = IF kuser # 0 THEN kuser ELSE NextId]
      BY <1>0, <1>7, AnswerMoves DEF FindOrCreateUser
    <3>2. loc[j] \in Locals /\ NextId # 0
      BY <1>0 DEF TypeOK, NextId
    <3> QED BY <3>1, <3>2 DEF Locals
  <2>2. RowsFit'
    BY <1>0, <2>1 DEF RolesFit, RowsFit, Rows
  <2> QED BY <1>0, <2>1, <2>2, <2>3, NothingToFollow DEF GrantFit, RevokeFit, Resting
<1>8. CASE PurgeRows(j)
  <2>1. pc'[j] = "cache" /\ kroles' = {} /\ loc'[j].user # 0
    BY <1>0, <1>8 DEF PurgeRows, GrantFit
  <2>2. Rows' = {}
    BY <1>8 DEF PurgeRows, Rows, NoRow
  <2> QED BY <1>0, <2>1, <2>2, NothingToFollow DEF GrantFit, RevokeFit, Resting, RowsFit
<1>9. CASE CacheUser(j)
  <2>1. /\ pc'[j] = "assign" /\ kroles' = {} /\ src' = src /\ access'.user = loc[j].user /\ access'.user # 0
        /\ loc'[j] = ToAssign(j, loc[j].user) /\ Doors(j)' = Doors(j)
    BY <1>0, <1>9 DEF CacheUser, GrantFit, AccessRow, Doors, Plan
  <2>2. RowsFit'
    BY <1>0, <2>1 DEF RolesFit, RowsFit, Rows
  <2> QED BY <1>0, <2>1, <2>2, NothingToFollow, BeginAssign
<1> QED BY <1>1, <1>2, <1>3, <1>5, <1>6, <1>7, <1>8, <1>9

\* The parks: what was still to be recorded is on a parked row.
LEMMA TrackPark ==
    ASSUME OwnerInv, TrackInv, NEW j \in Jobs, pc[j] \in {"identify", "assign"}, WriteParkedRows(j)
    PROVE  RolesFit' /\ GrantFit(j)' /\ RevokeFit(j)' /\ Follows(j)
<1>0. /\ TypeOK /\ RolesFit /\ KindsFit /\ pc \in [Jobs -> Steps] /\ src \in [Keys -> SourceRow]
  BY DEF OwnerInv, TrackInv, TypeOK
<1>1. UNCHANGED <<access, kisi, loc, job>> /\ pc'[j] = "rollup"
  BY <1>0 DEF WriteParkedRows, Goto
<1>2. job[j].kind \in GrantKinds /\ Plan(j) \in Plans /\ DoorsOf[Plan(j)] \subseteq Groups
  BY <1>0, ConstantsAssumption DEF KindsFit, GrantAt, GrantKinds, PlanKinds
<1>3. /\ \A k \in Keys : \/ src'[k] = src[k]
                         \/ src'[k] = [status |-> "pending", role |-> 0]
      /\ \A g \in DoorsOf[Plan(j)] : src'[<<NoPlan, g>>] = [status |-> "pending", role |-> 0] /\ <<NoPlan, g>> \in Keys
  BY <1>2 DEF WriteParkedRows, Keys
<1>4. /\ Rows \subseteq Rows'
      /\ \A k \in Rows' : src'[k] = [status |-> "pending", role |-> 0] \/ (k \in Rows /\ src'[k] = src[k])
      /\ \A g \in DoorsOf[Plan(j)] : <<NoPlan, g>> \in Rows'
  BY <1>3 DEF Rows
<1>5. RowsFit'
  BY <1>0, <1>4 DEF RolesFit, RowsFit
<1>6. \A k \in Rows' : src'[k].role # 0 => \A r \in kroles : k[2] = r.group => src'[k].role = r.id
  BY <1>0, <1>4 DEF RolesFit
<1>7. RolesFit'
  BY <1>0, <1>1, <1>5, <1>6 DEF RolesFit, kisi
<1>8. /\ \A g : OnRow(g) => OnRow(g)'
      /\ \A g \in DoorsOf[Plan(j)] : OnRow(g)'
  BY <1>4 DEF OnRow
<1> QED BY <1>1, <1>7, <1>8 DEF GrantFit, RevokeFit, Resting, Follows, WillRecord, kisi

\* A door that no row speaks for has at most a parked row.
LEMMA NoRowToReuse ==
    ASSUME RolesFit, NEW g, Reusable(g) = {}
    PROVE  \A k \in Rows : k[2] = g => src[k].role = 0
BY DEF Reusable

LEMMA TrackReuse ==
    ASSUME OwnerInv, TrackInv, NEW j \in Jobs, NEW d \in loc[j].todo, ReuseRole(j, d)
    PROVE  RolesFit' /\ GrantFit(j)' /\ RevokeFit(j)' /\ Follows(j)
<1>0. /\ TypeOK /\ RolesFit /\ GrantFit(j)
      /\ loc \in [Jobs -> Locals] /\ loc[j] \in Locals /\ d \in Door
  BY DEF OwnerInv, TrackInv, TypeOK, Locals
<1>1. PICK i \in Reusable(d.group) :
        loc' = [loc EXCEPT ![j].todo = @ \ {d}, ![j].got = @ \cup {[d EXCEPT !.role = i]}]
  BY DEF ReuseRole
<1> DEFINE new == [d EXCEPT !.role = i]
<1>2. new.role = i /\ new.group = d.group
  BY <1>0 DEF Door
<1>3. i # 0 /\ Agrees(new)
  BY <1>0, <1>1, <1>2 DEF Reusable, RolesFit, Agrees
<1>4. /\ loc'[j].todo = loc[j].todo \ {d} /\ loc'[j].got = loc[j].got \cup {new}
      /\ loc'[j].user = loc[j].user /\ loc'[j].first = loc[j].first
      /\ loc'[j].flags = loc[j].flags
  BY <1>0, <1>1 DEF Locals
<1>5. UNCHANGED <<access, src, kisi, job, pc>> /\ pc[j] = "assign"
  BY DEF ReuseRole
<1> HIDE DEF new
<1>6. RolesFit' /\ \A g : OnRow(g)' = OnRow(g)
  BY <1>0, <1>5, RolesStay DEF kisi
<1>7. /\ loc[j].user = access.user /\ loc[j].user # 0
      /\ loc[j].first = "gone" => "gone" \in loc[j].flags
      /\ "gone" \in loc[j].flags => kroles = {}
      /\ loc[j].todo \subseteq Doors(j)
      /\ \A x \in loc[j].todo, y \in loc[j].got : x.group # y.group
      /\ \A x \in loc[j].got : x.role # 0 /\ Agrees(x)
  BY <1>0, <1>5 DEF GrantFit
<1>8. \A x \in loc[j].todo \ {d} : x.group # d.group
  BY <1>7 DEF Doors
<1>9. \A x : Agrees(x)' = Agrees(x)
  BY <1>5 DEF Agrees, kisi
<1>10. Doors(j)' = Doors(j)
  BY <1>5 DEF Doors, Plan
<1>11. GrantFit(j)' /\ RevokeFit(j)'
  BY <1>2, <1>3, <1>4, <1>5, <1>7, <1>8, <1>9, <1>10 DEF GrantFit, RevokeFit, Resting, kisi
<1>12. \A g : WillRecord(j, g) => WillRecord(j, g)'
  BY <1>2, <1>4, <1>5 DEF WillRecord, Plan
<1> QED BY <1>5, <1>6, <1>11, <1>12 DEF Follows, kisi
\* assignRole's answer is the role that Kisi has for the door from now on.
LEMMA AssignGives ==
    ASSUME OwnerInv, TrackInv, NEW j \in Jobs, NEW d \in loc[j].todo, NEW lost \in BOOLEAN,
           AssignRole(j, d, lost)
    PROVE  \E new \in Door :
              /\ new.group = d.group /\ new.role # 0
              /\ kroles' = kroles \cup {[id |-> new.role, user |-> kuser, group |-> d.group]}
              /\ \A r \in kroles : r.group = d.group => r.id = new.role
              /\ ~lost => /\ loc'[j].todo = loc[j].todo \ {d}
                          /\ loc'[j].got = loc[j].got \cup {new}
                          /\ loc'[j].user = loc[j].user
                          /\ loc'[j].first = loc[j].first
                          /\ loc'[j].flags = loc[j].flags
              /\ RolesFit'
<1>0. /\ TypeOK /\ RolesFit /\ GrantFit(j)
      /\ loc \in [Jobs -> Locals] /\ loc[j] \in Locals /\ d \in Door
      /\ minted \in Nat /\ kuser \in Nat /\ kroles \in SUBSET Role
  BY DEF OwnerInv, TrackInv, TypeOK, Locals, Ids
<1> DEFINE held == {r \in RolesOf(kuser) : r.group = d.group}
           id   == IF held = {} THEN NextId ELSE (CHOOSE r \in held : TRUE).id
           new  == [d EXCEPT !.role = id]
           given == [id |-> id, user |-> kuser, group |-> d.group]
<1>1. id \in Nat /\ id # 0
  <2>1. CASE held = {}
    BY <1>0, <2>1 DEF NextId
  <2>2. CASE held # {}
    <3>1. (CHOOSE r \in held : TRUE) \in held
      BY <2>2
    <3>2. (CHOOSE r \in held : TRUE) \in kroles
      BY <3>1 DEF RolesOf
    <3> QED BY <1>0, <2>2, <3>2 DEF RolesFit, Role, Ids
  <2> QED BY <2>1, <2>2
<1>2. \A r \in kroles : r.group = d.group => r.id = id /\ r.user = kuser
  <2> SUFFICES ASSUME NEW r \in kroles, r.group = d.group PROVE r.id = id /\ r.user = kuser
    OBVIOUS
  <2>1. r \in held
    BY <1>0 DEF RolesOf, RolesFit
  <2>2. (CHOOSE x \in held : TRUE) \in held
    BY <2>1
  <2>3. r = (CHOOSE x \in held : TRUE)
    BY <1>0, <2>1, <2>2 DEF RolesOf, RolesFit
  <2> QED BY <1>0, <2>1, <2>3 DEF RolesOf
<1>3. new \in Door /\ new.group = d.group /\ new.role = id
  BY <1>0, <1>1 DEF Door, Ids
<1>4. /\ kroles' = kroles \cup {given}
      /\ kuser = loc[j].user /\ UNCHANGED <<access, src, kuser>>
      /\ Reusable(d.group) = {} /\ pc[j] = "assign"
  BY DEF AssignRole
<1>5. ~lost => loc'[j] = [loc[j] EXCEPT !.todo = @ \ {d}, !.got = @ \cup {new}]
  BY <1>0, AnswerMoves DEF AssignRole
<1> HIDE DEF held, id, new
<1>6. access.user = kuser /\ kuser # 0
  BY <1>0, <1>4 DEF GrantFit
<1>7. \A k \in Rows : k[2] = d.group => src[k].role = 0
  BY <1>0, <1>4, NoRowToReuse
<1>8. RolesFit'
  <2>1. \A r \in kroles' : r \in kroles \/ r = given
    BY <1>4
  <2>2. \A r \in kroles' : r.user = kuser /\ r.user # 0 /\ r.id # 0
    BY <1>0, <1>1, <1>6, <2>1 DEF RolesFit
  <2>3. \A r \in kroles : r.group = d.group => r = given
    BY <1>0, <1>2 DEF Role
  <2>4. \A r, s \in kroles' : r.group = s.group => r = s
    BY <1>0, <2>1, <2>3 DEF RolesFit
  <2>5. Rows' = Rows
    BY <1>4 DEF Rows
  <2>6. \A k \in Rows' : src'[k].role # 0 => \A r \in kroles' : k[2] = r.group => src'[k].role = r.id
    BY <1>0, <1>4, <1>7, <2>1, <2>5 DEF RolesFit
  <2>7. RowsFit'
    BY <1>0, <1>4, <2>5 DEF RolesFit, RowsFit
  <2> QED BY <1>4, <1>6, <2>2, <2>4, <2>6, <2>7 DEF RolesFit
<1>9. ~lost => /\ loc'[j].todo = loc[j].todo \ {d} /\ loc'[j].got = loc[j].got \cup {new}
               /\ loc'[j].user = loc[j].user /\ loc'[j].first = loc[j].first
               /\ loc'[j].flags = loc[j].flags
  BY <1>0, <1>5 DEF Locals
<1>10. kroles' = kroles \cup {[id |-> new.role, user |-> kuser, group |-> d.group]}
  BY <1>3, <1>4 DEF given
<1> QED BY <1>1, <1>2, <1>3, <1>8, <1>9, <1>10

LEMMA TrackAssign ==
    ASSUME OwnerInv, TrackInv, NEW j \in Jobs, NEW d \in loc[j].todo, NEW lost \in BOOLEAN,
           AssignRole(j, d, lost)
    PROVE  RolesFit' /\ GrantFit(j)' /\ RevokeFit(j)' /\ Follows(j)
<1>0. /\ TypeOK /\ RolesFit /\ GrantFit(j) /\ KindsFit
      /\ loc \in [Jobs -> Locals] /\ loc[j] \in Locals /\ d \in Door
  BY DEF OwnerInv, TrackInv, TypeOK, Locals
<1>1. PICK new \in Door :
              /\ new.group = d.group /\ new.role # 0
              /\ kroles' = kroles \cup {[id |-> new.role, user |-> kuser, group |-> d.group]}
              /\ \A r \in kroles : r.group = d.group => r.id = new.role
              /\ ~lost => /\ loc'[j].todo = loc[j].todo \ {d}
                          /\ loc'[j].got = loc[j].got \cup {new}
                          /\ loc'[j].user = loc[j].user
                          /\ loc'[j].first = loc[j].first
                          /\ loc'[j].flags = loc[j].flags
              /\ RolesFit'
  BY AssignGives
<1>2. /\ UNCHANGED <<access, src, kuser, job>> /\ pc[j] = "assign"
      /\ pc'[j] = IF lost THEN "catch" ELSE "assign"
      /\ lost => loc'[j] = Thrown(j, "retry")
      /\ "gone" \notin loc[j].flags
  BY <1>0, AnswerMoves DEF AssignRole
<1>3. /\ loc[j].user = access.user /\ loc[j].user # 0
      /\ loc[j].first = "gone" => "gone" \in loc[j].flags
      /\ loc[j].todo \subseteq Doors(j)
      /\ \A x \in loc[j].todo, y \in loc[j].got : x.group # y.group
      /\ \A x \in loc[j].got : x.role # 0 /\ Agrees(x)
      /\ job[j].kind \in GrantKinds
  BY <1>0, <1>2 DEF GrantFit, KindsFit, GrantAt
<1>4. \A g : OnRow(g)' = OnRow(g)
  BY <1>2 DEF OnRow, Rows
<1>5. Doors(j)' = Doors(j) /\ Plan(j)' = Plan(j)
  BY <1>2 DEF Doors, Plan
<1>6. d.group \in DoorsOf[Plan(j)]
  BY <1>0, <1>3, DoorsKnown
<1>7. CASE lost
  <2>1. loc'[j].out = "retry"
    BY <1>2, <1>7 DEF Thrown, FreshLoc
  <2>2. GrantFit(j)' /\ RevokeFit(j)'
    BY <1>2, <1>7 DEF GrantFit, RevokeFit, Resting
  <2>3. \A g : WillRecord(j, g) \/ g = d.group => WillRecord(j, g)'
    BY <1>2, <1>3, <1>5, <1>6, <1>7, <2>1 DEF WillRecord
  <2> QED BY <1>1, <1>4, <2>2, <2>3 DEF Follows
<1>8. CASE ~lost
  <2>1. /\ loc'[j].todo = loc[j].todo \ {d} /\ loc'[j].got = loc[j].got \cup {new}
        /\ loc'[j].user = loc[j].user /\ loc'[j].first = loc[j].first
        /\ loc'[j].flags = loc[j].flags
    BY <1>1, <1>8
  <2>2. \A x \in loc[j].todo \ {d} : x.group # d.group
    BY <1>3 DEF Doors
  <2>3. \A x \in loc'[j].got : x.role # 0 /\ Agrees(x)'
    <3>1. Agrees(new)'
      BY <1>1 DEF Agrees
    <3>2. ASSUME NEW x \in loc[j].got PROVE Agrees(x)'
      BY <1>1, <1>3 DEF Agrees
    <3> QED BY <1>1, <1>3, <2>1, <3>1, <3>2
  <2>4. GrantFit(j)' /\ RevokeFit(j)'
    BY <1>1, <1>2, <1>3, <1>5, <1>8, <2>1, <2>2, <2>3 DEF GrantFit, RevokeFit, Resting
  <2>5. \A g : WillRecord(j, g) \/ g = d.group => WillRecord(j, g)'
    BY <1>1, <1>2, <1>3, <1>5, <1>6, <1>8, <2>1 DEF WillRecord
  <2> QED BY <1>1, <1>4, <2>4, <2>5 DEF Follows
<1> QED BY <1>7, <1>8

\* A door that is missed was nobody's: the user is gone, or has no role there.
LEMMA TrackMiss ==
    ASSUME OwnerInv, TrackInv, NEW j \in Jobs, NEW d \in loc[j].todo,
           UserGone(j, d) \/ DoorMissing(j, d)
    PROVE  RolesFit' /\ GrantFit(j)' /\ RevokeFit(j)' /\ Follows(j)
<1>0. /\ TypeOK /\ RolesFit /\ GrantFit(j)
      /\ loc \in [Jobs -> Locals] /\ loc[j] \in Locals
      /\ pc[j] = "assign" /\ UNCHANGED <<access, src, kisi, job, pc>>
  BY DEF OwnerInv, TrackInv, TypeOK, UserGone, DoorMissing
<1>1. /\ loc[j].user = access.user /\ loc[j].user # 0
      /\ loc[j].first = "gone" => "gone" \in loc[j].flags
      /\ "gone" \in loc[j].flags => kroles = {}
      /\ loc[j].todo \subseteq Doors(j)
      /\ \A x \in loc[j].todo, y \in loc[j].got : x.group # y.group
      /\ \A x \in loc[j].got : x.role # 0 /\ Agrees(x)
  BY <1>0 DEF GrantFit
<1>2. \E why \in {"gone", "door"} :
         /\ MissDoor(j, d, why)
         /\ why = "gone" => kroles = {}
         /\ \A r \in kroles : r.group # d.group
  <2>1. CASE UserGone(j, d)
    <3>1. kroles = {}
      BY <1>0, <1>1, <2>1 DEF UserGone, RolesFit
    <3> QED BY <2>1, <3>1 DEF UserGone
  <2>2. CASE DoorMissing(j, d)
    <3>1. \A r \in kroles : r.group # d.group
      BY <1>0, <2>2 DEF DoorMissing, RolesOf, RolesFit
    <3> QED BY <2>2, <3>1 DEF DoorMissing
  <2> QED BY <2>1, <2>2
<1>3. /\ loc'[j].todo = loc[j].todo \ {d} /\ loc'[j].got = loc[j].got
      /\ loc'[j].user = loc[j].user
      /\ loc'[j].first = "gone" => "gone" \in loc'[j].flags
      /\ "gone" \in loc'[j].flags => kroles = {}
  <2>1. PICK why \in {"gone", "door"} :
           /\ MissDoor(j, d, why)
           /\ why = "gone" => kroles = {}
    BY <1>2
  <2>2. /\ loc'[j].todo = loc[j].todo \ {d} /\ loc'[j].got = loc[j].got
        /\ loc'[j].user = loc[j].user
        /\ loc'[j].flags = loc[j].flags \cup (IF why = "gone" THEN {why} ELSE {})
        /\ loc'[j].first = IF loc[j].first = "none" THEN why ELSE loc[j].first
    BY <1>0, <2>1 DEF MissDoor, Locals
  <2> QED BY <1>1, <2>1, <2>2
<1>4. \A r \in kroles : r.group # d.group
  BY <1>2
<1>5. RolesFit' /\ \A g : OnRow(g)' = OnRow(g)
  BY <1>0, RolesStay DEF kisi
<1>6. (\A x : Agrees(x)' = Agrees(x)) /\ Doors(j)' = Doors(j)
  BY <1>0 DEF Agrees, kisi, Doors, Plan
<1>7. GrantFit(j)' /\ RevokeFit(j)'
  BY <1>0, <1>1, <1>3, <1>6 DEF GrantFit, RevokeFit, Resting, kisi
<1>8. \A r \in kroles : WillRecord(j, r.group) => WillRecord(j, r.group)'
  BY <1>0, <1>3, <1>4 DEF WillRecord, Plan
<1> QED BY <1>0, <1>5, <1>7, <1>8 DEF Follows, kisi

\* The end of the assignments, the rows of what was given, the rollup.
LEMMA TrackRecord ==
    ASSUME OwnerInv, TrackInv, NEW j \in Jobs, NEW d \in loc[j].got, RecordRow(j, d)
    PROVE  RolesFit' /\ GrantFit(j)' /\ RevokeFit(j)' /\ Follows(j)
<1>0. /\ TypeOK /\ RolesFit /\ GrantFit(j) /\ KindsFit
      /\ loc \in [Jobs -> Locals] /\ loc[j] \in Locals /\ d \in Door
      /\ src \in [Keys -> SourceRow] /\ pc \in [Jobs -> Steps]
  BY DEF OwnerInv, TrackInv, TypeOK, Locals
<1>1. /\ pc[j] = "record" /\ UNCHANGED <<access, kisi, job>>
      /\ pc'[j] = IF loc[j].got = {d} THEN "rollup" ELSE "record"
      /\ loc'[j].got = loc[j].got \ {d}
  BY <1>0 DEF RecordRow, Goto, Locals
<1>2. /\ d.role # 0 /\ Agrees(d) /\ d.group \in Groups /\ Plan(j) \in Plans
      /\ \A x \in loc[j].got : x.role # 0 /\ Agrees(x)
  <2>1. Plan(j) \in Plans
    BY <1>0, <1>1 DEF KindsFit, GrantAt, GrantKinds, PlanKinds
  <2> QED BY <1>0, <1>1, <2>1 DEF GrantFit, Door
<1> DEFINE key == <<Plan(j), d.group>>
<1>3. key \in Keys /\ key[2] = d.group
  BY <1>2 DEF Keys
<1>4. src' = [src EXCEPT ![key] = [status |-> "active", role |-> d.role]]
  BY DEF RecordRow
<1> HIDE DEF key
<1>5. Rows' = Rows \cup {key}
  BY <1>0, <1>3, <1>4 DEF Rows
<1>6. ASSUME NEW k \in Rows'
      PROVE  \/ k[2] = d.group /\ src'[k] = [status |-> "active", role |-> d.role]
             \/ k \in Rows /\ src'[k] = src[k]
  <2>1. CASE k = key
    BY <1>0, <1>3, <1>4, <2>1
  <2>2. CASE k # key
    BY <1>0, <1>4, <1>5, <2>2 DEF Rows
  <2> QED BY <2>1, <2>2
<1>7. RolesFit'
  <2>1. RowsFit'
    BY <1>0, <1>2, <1>6 DEF RolesFit, RowsFit
  <2>2. \A k \in Rows' : src'[k].role # 0 => \A r \in kroles' : k[2] = r.group => src'[k].role = r.id
    BY <1>0, <1>1, <1>2, <1>6 DEF RolesFit, Agrees, kisi
  <2> QED BY <1>0, <1>1, <2>1, <2>2 DEF RolesFit, kisi
<1>8. \A x : Agrees(x)' = Agrees(x)
  BY <1>1 DEF Agrees, kisi
<1>9. GrantFit(j)' /\ RevokeFit(j)'
  BY <1>1, <1>2, <1>8 DEF GrantFit, RevokeFit, Resting
<1>10. \A g : OnRow(g) \/ g = d.group => OnRow(g)'
  BY <1>3, <1>5 DEF OnRow
<1>11. \A g : WillRecord(j, g) => WillRecord(j, g)' \/ g = d.group
  BY <1>1 DEF WillRecord, Plan
<1> QED BY <1>1, <1>7, <1>9, <1>10, <1>11 DEF Follows, kisi

LEMMA TrackGrant ==
    ASSUME OwnerInv, FinalInv, TrackInv, NEW j \in Jobs, GrantStep(j)
    PROVE  TrackInv'
<1> USE DEF Goto, kisi
<1>0. /\ TypeOK /\ RolesFit /\ GrantFit(j) /\ KindsFit
      /\ pc \in [Jobs -> Steps] /\ loc \in [Jobs -> Locals] /\ access \in AccessRow
  BY DEF OwnerInv, TrackInv, TypeOK
<1>1. ASSUME EndAssign(j)
      PROVE  RolesFit' /\ GrantFit(j)' /\ RevokeFit(j)' /\ Follows(j)
  <2>1. /\ pc[j] = "assign" /\ loc[j].todo = {} /\ UNCHANGED <<access, src, kisi, job>>
        /\ \/ pc'[j] = "record" /\ loc' = loc
           \/ pc'[j] = "identify" /\ loc[j].got = {} /\ loc[j].first = "gone"
           \/ pc'[j] = "catch" /\ loc[j].got = {} /\ loc'[j] = Thrown(j, "dead")
    BY <1>0, <1>1 DEF EndAssign, Throw
  <2>2. RolesFit' /\ (\A g : OnRow(g)' = OnRow(g)) /\ \A x : Agrees(x)' = Agrees(x)
    BY <1>0, <2>1, RolesStay DEF Agrees
  <2>3. /\ loc[j].first = "gone" => kroles = {}
        /\ \A x \in loc[j].got : x.role # 0 /\ Agrees(x)
    BY <1>0, <2>1 DEF GrantFit
  <2>4. GrantFit(j)' /\ RevokeFit(j)'
    BY <2>1, <2>2, <2>3 DEF GrantFit, RevokeFit, Resting
  <2>5. \A g : WillRecord(j, g) => WillRecord(j, g)'
    BY <2>1 DEF WillRecord, Plan
  <2> QED BY <2>1, <2>2, <2>4, <2>5 DEF Follows
<1>2. ASSUME RollUp(j)
      PROVE  RolesFit' /\ GrantFit(j)' /\ RevokeFit(j)' /\ Follows(j)
  <2>1. /\ pc[j] = "rollup" /\ pc'[j] = "leave" /\ UNCHANGED <<src, kisi, job>>
        /\ access'.user = access.user
    BY <1>0, <1>2 DEF RollUp, AccessRow
  <2>2. RolesFit' /\ \A g : OnRow(g)' = OnRow(g)
    BY <1>0, <2>1, RolesStay
  <2> QED BY <2>1, <2>2 DEF GrantFit, RevokeFit, Resting, Follows, WillRecord
<1>3. ParkHardware(j) \/ ParkStart(j) => pc[j] \in {"identify", "assign"} /\ WriteParkedRows(j)
  BY DEF ParkHardware, ParkStart
<1>4. RolesFit' /\ GrantFit(j)' /\ RevokeFit(j)' /\ Follows(j)
  BY <1>1, <1>2, <1>3, TrackPark, TrackBegin, TrackReuse, TrackAssign, TrackMiss, TrackRecord DEF GrantStep
<1> QED BY <1>0, <1>4, GrantMoves, TrackRun

-----------------------------------------------------------------------------
(* Revokes.                                                                *)

\* A revoke follows no role; it must only leave on a row what was on one.
LEMMA RevokeFollows ==
    ASSUME NEW j \in Jobs, job[j].kind \notin GrantKinds, kroles' \subseteq kroles,
           \A r \in kroles' : OnRow(r.group) => OnRow(r.group)'
    PROVE  Follows(j)
BY DEF Follows, WillRecord

\* Steps that touch neither the rows nor Kisi's roles nor the user on record.
LEMMA TrackQuiet ==
    ASSUME TrackInv, NEW j \in Jobs, job[j].kind \notin GrantKinds,
           UNCHANGED <<src, kuser, kroles>>, access'.user = access.user,
           pc'[j] \notin Resting \cup {"resolve"} \cup GrantAt
    PROVE  RolesFit' /\ GrantFit(j)' /\ Follows(j)
<1>1. RolesFit' /\ \A g : OnRow(g)' = OnRow(g)
  BY RolesStay DEF TrackInv
<1>2. GrantFit(j)'
  BY DEF GrantFit, GrantAt
<1> QED BY <1>1, <1>2, RevokeFollows

\* The reads: the doors to work through.
LEMMA TrackScan ==
    ASSUME ParksAreFollowed, ParkedFit, OwnerInv, TrackInv, NEW j \in Jobs,
           \/ SkipUnknown(j) \/ ResolveRevoke(j) \/ Scan(j) \/ CountedAll(j)
           \/ \E d \in loc[j].todo : Count(j, d)
    PROVE  RolesFit' /\ GrantFit(j)' /\ RevokeFit(j)' /\ Follows(j)
<1> USE DEF Goto, kisi
<1>0. /\ TypeOK /\ RolesFit /\ RevokeFit(j) /\ KindsFit /\ OwnersFit
      /\ pc \in [Jobs -> Steps] /\ loc \in [Jobs -> Locals] /\ access \in AccessRow
      /\ loc[j] \in Locals /\ job[j].kind \in AllKinds
  BY DEF OwnerInv, TrackInv, TypeOK, Job
<1>1. job[j].kind \notin GrantKinds
  BY <1>0 DEF KindsFit, RevokeAt, CancelAt, SkipUnknown, ResolveRevoke, Scan, CountedAll, Count
<1>2. /\ UNCHANGED <<src, kuser, kroles, job>> /\ access'.user = access.user
      /\ pc'[j] \in {"leave", "complete", "suspend", "enable", "scan", "count", "wipe", "drop", "remove"}
  BY <1>0 DEF SkipUnknown, ResolveRevoke, Scan, CountedAll, Count, AccessRow
<1>3. RolesFit' /\ GrantFit(j)' /\ Follows(j)
  BY <1>1, <1>2, TrackQuiet DEF Resting, GrantAt
<1>4. (\A x : Agrees(x)' = Agrees(x)) /\ Rows' = Rows /\ Plan(j)' = Plan(j)
  BY <1>2 DEF Agrees, Rows, Plan
<1>5. RevokeFit(j)'
  <2>1. CASE SkipUnknown(j)
    BY <1>0, <2>1 DEF SkipUnknown, RevokeFit
  <2>2. CASE ResolveRevoke(j)
    <3>1. /\ pc'[j] \in {"complete", "suspend", "enable", "scan"}
          /\ pc'[j] # "scan" => job[j].kind \in {"payfail", "recovered"}
      BY <1>0, <2>2 DEF ResolveRevoke
    <3> QED BY <1>2, <3>1 DEF RevokeFit
  <2>3. CASE Scan(j)
    <3>1. ASSUME job[j].kind \in CancelKinds, loc'[j].todo = Held(Rows), pc'[j] = "count"
          PROVE  RevokeFit(j)'
      <4>1. \A x \in Held(Rows) : Agrees(x)
        BY <1>0 DEF Held, Agrees, RolesFit
      <4> QED BY <1>4, <3>1, <4>1 DEF RevokeFit
    <3>2. ASSUME job[j].kind = "deleted", loc'[j].todo = Held({k \in Rows : src[k].role # 0}), pc'[j] = "wipe"
          PROVE  RevokeFit(j)'
      <4>1. ASSUME NEW k \in Rows, NEW r \in kroles, k[2] = r.group
            PROVE  \E x \in loc'[j].todo : x.role = r.id
        <5>1. src[k].role # 0 /\ src[k].role = r.id
          BY <1>0, <3>2, <4>1 DEF ParksAreFollowed, ParkedFit, RolesFit, RowsFit
        <5>2. [group |-> k[2], role |-> src[k].role] \in loc'[j].todo
          BY <3>2, <5>1 DEF Held
        <5> QED BY <5>1, <5>2
      <4> QED BY <1>2, <1>4, <3>2, <4>1 DEF RevokeFit
    <3> QED BY <1>0, <2>3, <3>1, <3>2 DEF Scan, Locals
  <2>4. CASE CountedAll(j)
    <3>1. pc'[j] = "complete" /\ pc[j] \in {"count", "wipe"} /\ loc[j].todo = {}
      BY <1>0, <2>4 DEF CountedAll
    <3>2. pc[j] = "count" => job[j].kind # "deleted"
      BY <1>0 DEF KindsFit, CancelAt, CancelKinds
    <3> QED BY <1>0, <1>2, <1>4, <3>1, <3>2 DEF RevokeFit
  <2>5. ASSUME NEW d \in loc[j].todo, Count(j, d) PROVE RevokeFit(j)'
    <3>1. /\ pc[j] = "count" /\ loc'[j].cur = d /\ loc'[j].todo = loc[j].todo
          /\ pc'[j] = IF Remaining(Plan(j), d.group) # {} THEN "drop" ELSE "remove"
      BY <1>0, <2>5 DEF Count, Locals
    <3>2. \A x \in loc[j].todo : Agrees(x)
      BY <1>0, <3>1 DEF RevokeFit
    <3>3. Remaining(Plan(j), d.group)' = Remaining(Plan(j), d.group)
      BY <1>4 DEF Remaining
    <3> QED BY <1>4, <3>1, <3>2, <3>3 DEF RevokeFit, Remaining
  <2> QED BY <2>1, <2>2, <2>3, <2>4, <2>5
<1> QED BY <1>3, <1>5

\* The doors: the role goes, then its row.
LEMMA TrackRemove ==
    ASSUME OwnerInv, TrackInv, NEW j \in Jobs,
           \/ RemoveRole(j, FALSE) \/ RefuseNullRole(j) \/ DropRow(j)
           \/ \E d \in loc[j].todo : WipeRole(j, d, FALSE)
    PROVE  RolesFit' /\ GrantFit(j)' /\ RevokeFit(j)' /\ Follows(j)
<1> USE DEF Goto, kisi
<1>0. /\ TypeOK /\ RolesFit /\ RevokeFit(j) /\ KindsFit
      /\ pc \in [Jobs -> Steps] /\ loc \in [Jobs -> Locals] /\ loc[j] \in Locals
  BY DEF OwnerInv, TrackInv, TypeOK
<1>1. job[j].kind \notin GrantKinds
  BY <1>0 DEF KindsFit, RevokeAt, CancelAt, RemoveRole, RefuseNullRole, DropRow, WipeRole
<1>2. ASSUME RemoveRole(j, FALSE)
      PROVE  RolesFit' /\ GrantFit(j)' /\ RevokeFit(j)' /\ Follows(j)
  <2>1. /\ pc[j] = "remove" /\ pc'[j] = "drop" /\ loc'[j] = loc[j] /\ loc[j].cur.role # 0
        /\ UNCHANGED <<access, src, kuser, job>>
        /\ kroles' = {r \in kroles : r.id # loc[j].cur.role}
    BY <1>0, <1>2, AnswerMoves DEF RemoveRole
  <2>2. RolesFit' /\ \A g : OnRow(g)' = OnRow(g)
    BY <1>0, <2>1, RolesStay
  <2>3. Follows(j)
    BY <1>1, <2>1, <2>2, RevokeFollows
  <2>4. /\ \A x \in loc[j].todo : Agrees(x) /\ Agrees(x)'
        /\ Agrees(loc[j].cur) /\ Agrees(loc[j].cur)'
    BY <1>0, <2>1 DEF RevokeFit, Agrees
  <2>5. \A r \in kroles' : r.group # loc[j].cur.group
    BY <2>1, <2>4 DEF Agrees
  <2> QED BY <2>1, <2>2, <2>3, <2>4, <2>5 DEF GrantFit, RevokeFit, Resting, Agrees
<1>3. ASSUME RefuseNullRole(j)
      PROVE  RolesFit' /\ GrantFit(j)' /\ RevokeFit(j)' /\ Follows(j)
  <2>1. pc'[j] = "catch" /\ UNCHANGED <<access, src, kuser, kroles>>
    BY <1>0, <1>3 DEF RefuseNullRole, Throw
  <2> QED BY <1>1, <2>1, TrackQuiet DEF Resting, GrantAt, RevokeFit
<1>4. ASSUME DropRow(j)
      PROVE  RolesFit' /\ GrantFit(j)' /\ RevokeFit(j)' /\ Follows(j)
  <2> DEFINE key == <<Plan(j), loc[j].cur.group>>
  <2>1. /\ pc[j] = "drop" /\ pc'[j] = "count" /\ UNCHANGED <<access, kisi, job>>
        /\ loc'[j].todo = loc[j].todo \ {loc[j].cur}
        /\ src' = [k \in Keys |-> IF k = key THEN NoRow ELSE src[k]]
    BY <1>0, <1>4 DEF DropRow, Locals
  <2>2. Rows' = Rows \ {key} /\ \A k \in Rows' : src'[k] = src[k]
    BY <2>1 DEF Rows, NoRow
  <2>3. RolesFit'
    BY <1>0, <2>1, <2>2 DEF RolesFit, RowsFit
  <2>4. \A r \in kroles : OnRow(r.group) => OnRow(r.group)'
    <3> SUFFICES ASSUME NEW r \in kroles, NEW k \in Rows, k[2] = r.group PROVE OnRow(r.group)'
      BY DEF OnRow
    <3>1. CASE k # key
      BY <2>2, <3>1 DEF OnRow
    <3>2. CASE k = key
      <4>1. Remaining(Plan(j), r.group) # {}
        BY <1>0, <2>1, <3>2 DEF RevokeFit
      <4>2. PICK x \in Rows : x[2] = r.group /\ x[1] # Plan(j)
        BY <4>1 DEF Remaining
      <4>3. x # key
        BY <4>2
      <4> QED BY <2>2, <4>2, <4>3 DEF OnRow
    <3> QED BY <3>1, <3>2
  <2>5. Follows(j)
    BY <1>1, <2>1, <2>4, RevokeFollows
  <2>6. \A x \in loc[j].todo : Agrees(x) /\ Agrees(x)'
    BY <1>0, <2>1 DEF RevokeFit, Agrees
  <2> QED BY <2>1, <2>3, <2>5, <2>6 DEF GrantFit, RevokeFit, Resting
<1>5. ASSUME NEW d \in loc[j].todo, WipeRole(j, d, FALSE)
      PROVE  RolesFit' /\ GrantFit(j)' /\ RevokeFit(j)' /\ Follows(j)
  <2>1. /\ pc[j] = "wipe" /\ pc'[j] = "wipe" /\ loc'[j].todo = loc[j].todo \ {d}
        /\ UNCHANGED <<access, src, kuser, job>>
        /\ kroles' = {r \in kroles : r.id # d.role}
    <3>1. TypeOK /\ pc[j] = "wipe" /\ Answer(j, FALSE, "wipe", [loc[j] EXCEPT !.todo = @ \ {d}])
      BY <1>0, <1>5 DEF WipeRole
    <3>2. pc'[j] = "wipe" /\ loc'[j] = [loc[j] EXCEPT !.todo = @ \ {d}]
      BY <3>1, AnswerMoves
    <3> QED BY <1>0, <1>5, <3>1, <3>2 DEF WipeRole, Locals
  <2>2. RolesFit' /\ (\A g : OnRow(g)' = OnRow(g)) /\ Rows' = Rows
    BY <1>0, <2>1, RolesStay DEF Rows
  <2>3. Follows(j)
    BY <1>1, <2>1, <2>2, RevokeFollows
  <2>4. RevokeFit(j)'
    <3>1. \A k \in Rows : \A r \in kroles : k[2] = r.group => \E x \in loc[j].todo : x.role = r.id
      BY <1>0, <2>1 DEF RevokeFit
    <3>2. \A k \in Rows' : \A r \in kroles' : k[2] = r.group => \E x \in loc'[j].todo : x.role = r.id
      BY <2>1, <2>2, <3>1
    <3> QED BY <2>1, <3>2 DEF RevokeFit
  <2> QED BY <2>1, <2>2, <2>3, <2>4 DEF GrantFit, Resting
<1> QED BY <1>2, <1>3, <1>4, <1>5

\* The user: switched, deleted, and the person marked.
LEMMA TrackFinish ==
    ASSUME OwnerInv, TrackInv, NEW j \in Jobs,
           \/ SetEnabled(j, FALSE) \/ SetEnabledGone(j) \/ CompleteRevoke(j)
           \/ Finalize(j) \/ KeepForeignUser(j) \/ DeleteUser(j, FALSE) \/ MarkDeleted(j)
    PROVE  RolesFit' /\ GrantFit(j)' /\ RevokeFit(j)' /\ Follows(j)
<1> USE DEF Goto, kisi
<1>0. /\ TypeOK /\ RolesFit /\ RevokeFit(j) /\ KindsFit
      /\ pc \in [Jobs -> Steps] /\ loc \in [Jobs -> Locals] /\ access \in AccessRow
      /\ src \in [Keys -> SourceRow] /\ job[j].kind \in AllKinds
  BY DEF OwnerInv, TrackInv, TypeOK, Job
<1>1. job[j].kind \notin GrantKinds
  BY <1>0 DEF KindsFit, RevokeAt, SetEnabled, SetEnabledGone, CompleteRevoke, Finalize,
              KeepForeignUser, DeleteUser, MarkDeleted
<1>2. ASSUME SetEnabled(j, FALSE)
      PROVE  RolesFit' /\ GrantFit(j)' /\ RevokeFit(j)' /\ Follows(j)
  <2>1. /\ pc[j] \in {"suspend", "enable"} /\ pc'[j] = "complete"
        /\ UNCHANGED <<access, src, kuser, kroles, job>>
    BY <1>0, <1>2, AnswerMoves DEF SetEnabled
  <2>2. RevokeFit(j)'
    BY <1>0, <2>1 DEF RevokeFit
  <2> QED BY <1>1, <2>1, <2>2, TrackQuiet DEF Resting, GrantAt
<1>3. ASSUME SetEnabledGone(j) \/ Finalize(j) \/ KeepForeignUser(j) \/ MarkDeleted(j)
      PROVE  RolesFit' /\ GrantFit(j)' /\ RevokeFit(j)' /\ Follows(j)
  <2>1. /\ pc'[j] \in {"catch", "leave", "mark", "delete"}
        /\ UNCHANGED <<src, kuser, kroles>> /\ access'.user = access.user
    BY <1>0, <1>3 DEF SetEnabledGone, Finalize, KeepForeignUser, MarkDeleted, Throw, AccessRow
  <2> QED BY <1>1, <2>1, TrackQuiet DEF Resting, GrantAt, RevokeFit
<1>4. ASSUME CompleteRevoke(j)
      PROVE  RolesFit' /\ GrantFit(j)' /\ RevokeFit(j)' /\ Follows(j)
  <2>1. /\ pc[j] = "complete" /\ pc'[j] \in {"leave", "finalize"}
        /\ UNCHANGED <<kuser, kroles>> /\ access'.user = access.user
        /\ src' = RowsAfter(job[j].kind)
    BY <1>0, <1>4 DEF CompleteRevoke, AccessRow
  <2>2. CASE job[j].kind = "deleted"
    <3>1. Rows' = {}
      BY <2>1, <2>2 DEF RowsAfter, CancelKinds, Rows, NoRow
    <3>2. \A r \in kroles : ~OnRow(r.group)
      BY <1>0, <2>1, <2>2 DEF RevokeFit, OnRow
    <3> QED BY <1>0, <1>1, <2>1, <3>1, <3>2, RevokeFollows DEF RolesFit, RowsFit, GrantFit, RevokeFit, Resting
  <2>3. CASE job[j].kind # "deleted"
    <3>1. /\ Rows' = Rows
          /\ \A k \in Rows : src'[k].role = src[k].role
          /\ \A k \in Rows : src'[k].status = "pending" <=> src[k].status = "pending"
      <4>1. CASE job[j].kind \in CancelKinds
        BY <2>1, <4>1 DEF RowsAfter, CancelKinds, Rows
      <4>2. CASE job[j].kind = "payfail"
        BY <1>0, <2>1, <4>2 DEF RowsAfter, CancelKinds, Rows, SourceRow
      <4>3. CASE job[j].kind = "recovered"
        BY <1>0, <2>1, <4>3 DEF RowsAfter, CancelKinds, Rows, SourceRow
      <4>4. job[j].kind \in CancelKinds \/ job[j].kind \in {"payfail", "recovered"}
        BY <1>0, <1>1, <2>3 DEF AllKinds, GrantKinds, CancelKinds
      <4> QED BY <4>1, <4>2, <4>3, <4>4
    <3>2. RolesFit' /\ \A g : OnRow(g)' = OnRow(g)
      <4>1. RowsFit'
        BY <1>0, <3>1 DEF RolesFit, RowsFit
      <4>2. \A k \in Rows' : src'[k].role # 0 => \A r \in kroles' : k[2] = r.group => src'[k].role = r.id
        BY <1>0, <2>1, <3>1 DEF RolesFit
      <4> QED BY <1>0, <2>1, <3>1, <4>1, <4>2 DEF RolesFit, OnRow
    <3> QED BY <1>1, <2>1, <3>2, RevokeFollows DEF GrantFit, RevokeFit, Resting
  <2> QED BY <2>2, <2>3
<1>5. ASSUME DeleteUser(j, FALSE)
      PROVE  RolesFit' /\ GrantFit(j)' /\ RevokeFit(j)' /\ Follows(j)
  <2>1. /\ pc'[j] = "mark" /\ UNCHANGED <<access, src>>
        /\ kuser' = IF kuser = loc[j].user THEN 0 ELSE kuser
        /\ kroles' = kroles \ RolesOf(loc[j].user)
    BY <1>0, <1>5, AnswerMoves DEF DeleteUser
  <2>2. RolesFit' /\ \A g : OnRow(g)' = OnRow(g)
    BY <1>0, <2>1, DeletesRoles
  <2> QED BY <1>1, <2>1, <2>2, RevokeFollows DEF GrantFit, RevokeFit, Resting
<1> QED BY <1>2, <1>3, <1>4, <1>5

LEMMA TrackRevoke ==
    ASSUME ParksAreFollowed, ParkedFit, OwnerInv, TrackInv, NEW j \in Jobs, RevokeStep(j)
    PROVE  TrackInv'
<1>0. TypeOK /\ KindsFit
  BY DEF OwnerInv
<1>1. RolesFit' /\ GrantFit(j)' /\ RevokeFit(j)' /\ Follows(j)
  BY TrackScan, TrackRemove, TrackFinish DEF RevokeStep
<1> QED BY <1>0, <1>1, RevokeMoves, TrackRun

-----------------------------------------------------------------------------
(* Faults, the queue, and the world.                                       *)

LEMMA TrackFault ==
    ASSUME OwnerInv, TrackInv, NEW j \in Jobs, FaultStep(j)
    PROVE  TrackInv'
<1> USE DEF Goto, kisi
<1>0. /\ TypeOK /\ RolesFit /\ GrantFit(j) /\ KindsFit
      /\ pc \in [Jobs -> Steps] /\ loc \in [Jobs -> Locals]
      /\ pc[j] \in Running /\ OnlyMoves(j)
  BY FaultMoves DEF OwnerInv, TrackInv, TypeOK
\* A run that fails remembers nothing, but its job is not done.
<1>1. ASSUME RolesFit', kroles' \subseteq kroles, UNCHANGED src,
             \/ pc'[j] \in {"catch", "leave"} /\ loc'[j].out # "done"
             \/ pc'[j] = "lost" /\ loc'[j] = FreshLoc
      PROVE  RolesFit' /\ GrantFit(j)' /\ RevokeFit(j)' /\ Follows(j)
  <2>1. GrantFit(j)' /\ RevokeFit(j)'
    BY <1>1 DEF GrantFit, RevokeFit, Resting, FreshLoc
  <2>2. \A g : WillRecord(j, g) => WillRecord(j, g)'
    BY <1>0, <1>1 DEF WillRecord, Plan, OnlyMoves
  <2>3. \A g : OnRow(g)' = OnRow(g)
    BY <1>1 DEF OnRow, Rows
  <2> QED BY <1>1, <2>1, <2>2, <2>3 DEF Follows
<1>2. \A out : Thrown(j, out).out = out
  BY DEF Thrown, FreshLoc
<1>3. ASSUME FindOrCreateUser(j, TRUE)
      PROVE  RolesFit' /\ GrantFit(j)' /\ RevokeFit(j)' /\ Follows(j)
  <2>1. /\ pc'[j] = "catch" /\ loc'[j] = Thrown(j, "retry") /\ UNCHANGED <<src, kroles>> /\ kroles = {}
    BY <1>0, <1>3, NewUserNoRoles, AnswerMoves DEF FindOrCreateUser
  <2>2. RowsFit'
    BY <1>0, <2>1 DEF RolesFit, RowsFit, Rows
  <2>3. RolesFit'
    BY <1>0, <2>1, <2>2, NothingToFollow
  <2> QED BY <1>1, <1>2, <2>1, <2>3
<1>4. ASSUME RemoveRole(j, TRUE) \/ SetEnabled(j, TRUE) \/ (\E d \in loc[j].todo : WipeRole(j, d, TRUE))
      PROVE  RolesFit' /\ GrantFit(j)' /\ RevokeFit(j)' /\ Follows(j)
  <2>1. /\ pc'[j] = "catch" /\ loc'[j] = Thrown(j, "retry") /\ UNCHANGED <<access, src, kuser>>
        /\ kroles' \subseteq kroles
    BY <1>0, <1>4, AnswerMoves DEF RemoveRole, SetEnabled, WipeRole
  <2> QED BY <1>0, <1>1, <1>2, <2>1, RolesStay
<1>5. ASSUME DeleteUser(j, TRUE)
      PROVE  RolesFit' /\ GrantFit(j)' /\ RevokeFit(j)' /\ Follows(j)
  <2>1. /\ pc'[j] = "catch" /\ loc'[j] = Thrown(j, "retry") /\ UNCHANGED <<access, src>>
        /\ kuser' = IF kuser = loc[j].user THEN 0 ELSE kuser
        /\ kroles' = kroles \ RolesOf(loc[j].user)
    BY <1>0, <1>5, AnswerMoves DEF DeleteUser
  <2> QED BY <1>0, <1>1, <1>2, <2>1, DeletesRoles
<1>6. ASSUME (\E out \in {"retry", "dead"} : Fail(j, out)) \/ CatchFails(j) \/ Crash(j)
      PROVE  RolesFit' /\ GrantFit(j)' /\ RevokeFit(j)' /\ Follows(j)
  <2>1. UNCHANGED <<access, src, kuser, kroles>>
    BY <1>6 DEF Fail, CatchFails, Crash
  <2>2. \/ pc'[j] \in {"catch", "leave"} /\ loc'[j].out # "done"
        \/ pc'[j] = "lost" /\ loc'[j] = FreshLoc
    <3>1. pc[j] = "catch" => loc[j].out # "done"
      BY DEF OwnerInv, OwnersFit
    <3> QED BY <1>0, <1>2, <1>6, <3>1 DEF Fail, CatchFails, Crash
  <2> QED BY <1>0, <1>1, <2>1, <2>2, RolesStay
<1>7. RolesFit' /\ GrantFit(j)' /\ RevokeFit(j)' /\ Follows(j)
  BY <1>3, <1>4, <1>5, <1>6, TrackAssign, TrackMiss DEF FaultStep
<1> QED BY <1>0, <1>7, TrackRun

\* What the queue does with a job: it comes, is taken up, leaves, is put back.
QueueMoves(j) ==
    \/ pc[j] = "absent" /\ pc'[j] = "queued" /\ loc'[j] = loc[j]
    \/ /\ job'[j].kind = job[j].kind /\ job'[j].plan = job[j].plan
       /\ \/ pc[j] = "leave" /\ pc'[j] \in {"done", "dead", "queued"} /\ loc'[j] = FreshLoc
             /\ (pc'[j] = "done" => loc[j].out = "done")
          \/ pc[j] = "queued" /\ pc'[j] = "resolve" /\ loc'[j] = loc[j]
          \/ pc[j] = "catch" /\ pc'[j] = "leave" /\ loc'[j] = loc[j]
          \/ pc[j] = "lost" /\ pc'[j] = "queued" /\ loc'[j] = loc[j]
          \/ pc'[j] = pc[j] /\ loc'[j] = loc[j]

LEMMA EnvMoves ==
    ASSUME TypeOK, NEW j \in Jobs, EnvStep(j)
    PROVE  /\ UNCHANGED <<src, kisi>> /\ access'.user = access.user
           /\ access'.status \in {access.status, "active", "inactive", "removing"}
           /\ \A i \in Jobs \ {j} : pc'[i] = pc[i] /\ loc'[i] = loc[i] /\ job'[i] = job[i]
           /\ QueueMoves(j)
<1> USE DEF Goto, QueueMoves
<1>0. /\ pc \in [Jobs -> Steps] /\ loc \in [Jobs -> Locals] /\ job \in [Jobs -> Job]
      /\ access \in AccessRow
  BY DEF TypeOK
<1>1. UNCHANGED <<src, kisi>> /\ access'.user = access.user
  BY <1>0 DEF EnvStep, Enqueue, Take, Catch, Leave, Stalled, LockExpires, AccessRow
<1>2. access'.status \in {access.status, "active", "inactive", "removing"}
  BY <1>0, RollupType DEF EnvStep, Enqueue, Take, Catch, Leave, Stalled, LockExpires, AccessRow
<1>3. CASE \E k \in Kinds, p \in Plans \cup {NoPlan} : Enqueue(j, k, p)
  BY <1>0, <1>1, <1>2, <1>3 DEF Enqueue
<1>4. CASE Take(j) \/ Catch(j) \/ Stalled(j) \/ LockExpires(j)
  BY <1>0, <1>1, <1>2, <1>4 DEF Take, Catch, Stalled, LockExpires
<1>5. CASE Leave(j)
  BY <1>0, <1>1, <1>2, <1>5 DEF Leave, Job
<1> QED BY <1>3, <1>4, <1>5 DEF EnvStep

LEMMA TrackEnv ==
    ASSUME OwnerInv, TrackInv, NEW j \in Jobs, EnvStep(j)
    PROVE  TrackInv'
<1> USE DEF kisi, QueueMoves
<1>0. /\ TypeOK /\ RolesFit /\ Followed /\ KindsFit
      /\ pc \in [Jobs -> Steps] /\ loc \in [Jobs -> Locals] /\ job \in [Jobs -> Job]
      /\ access \in AccessRow
      /\ \A i \in Jobs : GrantFit(i) /\ RevokeFit(i)
  BY DEF OwnerInv, TrackInv, TypeOK
<1>1. UNCHANGED <<src, kisi>> /\ access'.user = access.user
  BY <1>0, EnvMoves
<1>2. RolesFit' /\ (\A g : OnRow(g)' = OnRow(g)) /\ (\A x : Agrees(x)' = Agrees(x)) /\ Rows' = Rows
  BY <1>0, <1>1, RolesStay DEF Agrees, Rows
<1>3. /\ \A i \in Jobs \ {j} : pc'[i] = pc[i] /\ loc'[i] = loc[i] /\ job'[i] = job[i]
      /\ QueueMoves(j)
  BY <1>0, EnvMoves
<1>4. ASSUME NEW i \in Jobs \ {j} PROVE GrantFit(i)' /\ RevokeFit(i)'
  <2>1. /\ GrantFit(i) /\ RevokeFit(i) /\ Doors(i)' = Doors(i) /\ Plan(i)' = Plan(i)
        /\ pc'[i] = pc[i] /\ loc'[i] = loc[i] /\ job'[i] = job[i]
    BY <1>0, <1>3 DEF Doors, Plan
  <2>2. GrantFit(i)'
    BY <1>1, <1>2, <2>1 DEF GrantFit
  <2>3. RevokeFit(i)'
    BY <1>1, <1>2, <2>1 DEF RevokeFit, Remaining
  <2> QED BY <2>2, <2>3
<1>5. GrantFit(j)' /\ RevokeFit(j)'
  <2>1. CASE pc'[j] = pc[j] /\ loc'[j] = loc[j]
    <3>1. job'[j].kind = job[j].kind /\ job'[j].plan = job[j].plan
      BY <1>3, <2>1
    <3>2. GrantFit(j) /\ RevokeFit(j) /\ Doors(j)' = Doors(j) /\ Plan(j)' = Plan(j)
      BY <1>0, <3>1 DEF Doors, Plan
    <3>3. GrantFit(j)'
      BY <1>1, <1>2, <2>1, <3>2 DEF GrantFit
    <3>4. RevokeFit(j)'
      BY <1>1, <1>2, <2>1, <3>1, <3>2 DEF RevokeFit, Remaining
    <3> QED BY <3>3, <3>4
  <2>2. CASE pc'[j] \in Resting \cup {"resolve", "leave"}
    BY <1>0, <1>3, <2>2 DEF GrantFit, RevokeFit, Resting, FreshLoc
  <2> QED BY <1>3, <2>1, <2>2 DEF Resting
<1>6. \A i \in Jobs : \A g : WillRecord(i, g) => WillRecord(i, g)'
  <2>1. ASSUME NEW i \in Jobs \ {j}, NEW g, WillRecord(i, g) PROVE WillRecord(i, g)'
    BY <1>3, <2>1 DEF WillRecord, Plan
  <2>2. ASSUME NEW g, WillRecord(j, g) PROVE WillRecord(j, g)'
    <3>1. pc[j] # "absent"
      BY <2>2 DEF WillRecord
    <3> QED BY <1>3, <2>2, <3>1 DEF WillRecord, Plan
  <2> QED BY <2>1, <2>2
<1> QED BY <1>1, <1>2, <1>4, <1>5, <1>6 DEF TrackInv, Followed

\* Rows are parked, and members deleted, only where that is among the reasons
\* and the kinds of job.
LEMMA ParkedNext ==
    ASSUME OwnerInv, ParkedFit, [Next]_vars
    PROVE  ParkedFit'
<1>0. /\ TypeOK /\ KindsFit /\ job \in [Jobs -> Job] /\ src \in [Keys -> SourceRow]
  BY DEF OwnerInv, TypeOK
<1>1. ASSUME "deleted" \notin Kinds PROVE \A j \in Jobs : job'[j].kind # "deleted"
  BY <1>1, KindsCome DEF ParkedFit
<1>2. ASSUME ParksEarly PROVE \A k \in Rows' : src'[k].status # "pending"
  <2>0. \A k \in Keys : src[k].status # "pending"
    BY <1>2 DEF ParkedFit, Rows
  <2>1. ASSUME NEW j \in Jobs, GrantStep(j) PROVE \A k \in Keys : src'[k].status # "pending"
    <3>1. PurgeRows(j) \/ (\E d \in loc[j].got : RecordRow(j, d)) \/ src' = src
      BY <1>2, <2>1 DEF ParksEarly, GrantStep, SkipStarted, ResolveGrant, ParkUnmapped, ParkHardware,
                  ParkStart, ParkIdentity, IdentifyCached, FindOrCreateUser, CacheUser, ReuseRole,
                  UserGone, AssignRole, EndAssign, RollUp
    <3>2. CASE PurgeRows(j)
      BY <3>2 DEF PurgeRows, NoRow
    <3>3. ASSUME NEW d \in loc[j].got, RecordRow(j, d) PROVE \A k \in Keys : src'[k].status # "pending"
      BY <1>0, <2>0, <3>3 DEF RecordRow
    <3> QED BY <2>0, <3>1, <3>2, <3>3
  <2>2. ASSUME NEW j \in Jobs, RevokeStep(j) PROVE \A k \in Keys : src'[k].status # "pending"
    <3>1. DropRow(j) \/ CompleteRevoke(j) \/ src' = src
      BY <2>2 DEF RevokeStep, SkipUnknown, ResolveRevoke, Scan, Count, WipeRole, CountedAll,
                  RemoveRole, RefuseNullRole, SetEnabled, SetEnabledGone, Finalize,
                  KeepForeignUser, DeleteUser, MarkDeleted
    <3>2. CASE DropRow(j)
      BY <2>0, <3>2 DEF DropRow, NoRow
    <3>3. CASE CompleteRevoke(j)
      <4>1. job[j].kind \in AllKinds \ GrantKinds /\ src' = RowsAfter(job[j].kind)
        BY <1>0, <2>2, <3>3, RevokeMoves DEF CompleteRevoke, Job
      <4>2. CASE job[j].kind \in CancelKinds
        BY <2>0, <4>1, <4>2 DEF RowsAfter, CancelKinds
      <4>3. CASE job[j].kind = "deleted"
        BY <4>1, <4>3 DEF RowsAfter, CancelKinds, NoRow
      <4>4. CASE job[j].kind \in {"payfail", "recovered"}
        BY <1>0, <2>0, <4>1, <4>4 DEF RowsAfter, CancelKinds, SourceRow
      <4> QED BY <4>1, <4>2, <4>3, <4>4 DEF AllKinds, CancelKinds, GrantKinds
    <3> QED BY <2>0, <3>1, <3>2, <3>3
  <2>3. ASSUME NEW j \in Jobs, FaultStep(j) PROVE src' = src
    BY <2>3, FaultWrites
  <2>4. ASSUME NEW j \in Jobs, EnvStep(j) PROVE src' = src
    BY <2>4 DEF EnvStep, Enqueue, Take, Catch, Leave, Stalled, LockExpires
  <2>5. \A k \in Keys : src'[k].status # "pending"
    BY <2>0, <2>1, <2>2, <2>3, <2>4, NextCases DEF ReleaseStaleLocks, StaffDeletesUser, vars
  <2> QED BY <2>5 DEF Rows
<1> QED BY <1>1, <1>2 DEF ParkedFit

LEMMA TrackNext ==
    ASSUME ParksAreFollowed
    PROVE  OwnerInv /\ FinalInv /\ ParkedFit /\ TrackInv /\ [Next]_vars => TrackInv'
<1> SUFFICES ASSUME OwnerInv, FinalInv, ParkedFit, TrackInv, [Next]_vars PROVE TrackInv'
  OBVIOUS
<1>1. ASSUME NEW j \in Jobs, EnvStep(j) \/ GrantStep(j) \/ RevokeStep(j) \/ FaultStep(j)
      PROVE  TrackInv'
  BY <1>1, TrackEnv, TrackGrant, TrackRevoke, TrackFault
<1>2. ASSUME UNCHANGED <<src, kisi, pc, loc, job>>, access'.user = access.user
      PROVE  TrackInv'
  <2>1. /\ Rows' = Rows /\ (\A x : Agrees(x)' = Agrees(x)) /\ (\A g : OnRow(g)' = OnRow(g))
        /\ \A i \in Jobs : Doors(i)' = Doors(i) /\ Plan(i)' = Plan(i)
    BY <1>2 DEF kisi, Rows, Agrees, OnRow, Doors, Plan
  <2>2. ASSUME NEW i \in Jobs PROVE GrantFit(i)' /\ RevokeFit(i)'
    <3>1. GrantFit(i) /\ RevokeFit(i)
      BY DEF TrackInv
    <3>2. GrantFit(i)'
      BY <1>2, <2>1, <3>1 DEF GrantFit, kisi
    <3>3. RevokeFit(i)'
      BY <1>2, <2>1, <3>1 DEF RevokeFit, Remaining, kisi
    <3> QED BY <3>2, <3>3
  <2>3. \A i \in Jobs : \A g : WillRecord(i, g)' = WillRecord(i, g)
    BY <1>2, <2>1 DEF WillRecord
  <2> QED BY <1>2, <2>1, <2>2, <2>3 DEF TrackInv, RolesFit, RowsFit, Followed, kisi
<1>3. CASE ReleaseStaleLocks
  <2>1. UNCHANGED <<src, kisi, pc, loc, job>> /\ access'.user = access.user
    BY <1>3 DEF ReleaseStaleLocks, OwnerInv, TypeOK, AccessRow
  <2> QED BY <1>2, <2>1
<1>4. CASE UNCHANGED vars
  BY <1>2, <1>4 DEF vars, kisi
\* Whoever deletes the user takes every role along.
<1>5. CASE StaffDeletesUser
  <2>1. /\ UNCHANGED <<access, src, pc, loc, job>> /\ kroles' = {} /\ Rows' = Rows
        /\ \A i \in Jobs : Doors(i)' = Doors(i) /\ Plan(i)' = Plan(i)
    BY <1>5 DEF StaffDeletesUser, TrackInv, RolesFit, RolesOf, Rows, Doors, Plan
  <2>2. ASSUME NEW i \in Jobs PROVE GrantFit(i)' /\ RevokeFit(i)'
    <3>1. GrantFit(i) /\ RevokeFit(i)
      BY DEF TrackInv
    <3>2. GrantFit(i)'
      BY <2>1, <3>1 DEF GrantFit, Agrees
    <3>3. RevokeFit(i)'
      BY <2>1, <3>1 DEF RevokeFit, Remaining, Agrees
    <3> QED BY <3>2, <3>3
  <2> QED BY <2>1, <2>2 DEF TrackInv, RolesFit, RowsFit, Followed
<1> QED BY <1>1, <1>3, <1>4, <1>5, NextCases

-----------------------------------------------------------------------------
(* The theorems.                                                           *)

LEMMA RecordsInit == Init => FinalInv /\ StatusInv /\ FreshFit /\ PlainRows /\ ParkedFit /\ TrackInv
<1> SUFFICES ASSUME Init PROVE FinalInv /\ StatusInv /\ FreshFit /\ PlainRows /\ ParkedFit /\ TrackInv
  OBVIOUS
<1>1. /\ \A j \in Jobs : pc[j] = "absent" /\ loc[j] = FreshLoc /\ job[j].kind = "purchase"
      /\ \A j \in Jobs : Plan(j) = NoPlan
      /\ Rows = {} /\ kroles = {} /\ access.status = "none"
  BY DEF Init, Rows, NoRow, Plan
<1>2. FinalInv /\ StatusInv /\ FreshFit /\ PlainRows /\ ParkedFit
  BY <1>1, RunningNames DEF FinalInv, FinalFit, GoneForGood, StatusInv, StatusFit, Astray,
                            FreshFit, PlainRows, ParkedFit, RevokeAt, CancelAt, Running, AtKisi, AtDb
<1>3. TrackInv
  BY <1>1 DEF TrackInv, RolesFit, RowsFit, GrantFit, RevokeFit, Followed, FreshLoc, Resting
<1> QED BY <1>2, <1>3

LEMMA OwnersAlways == (Init => OwnerInv) /\ (OwnerInv /\ [Next]_vars => OwnerInv')
BY TypeInit, ControlInit, OwnersInit, TypeNext, SerialNext, KindsNext, OwnersNext DEF OwnerInv

\* Where every plan opens a door, so does that of every job.
LEMMA AllMapped == EveryPlanOpens /\ TypeOK => Mapped
BY DEF EveryPlanOpens, TypeOK, Job, Mapped

LEMMA StatusIsSo == StatusInv => StatusIsRollup
BY DEF StatusInv, Astray, StatusIsRollup, Settled

LEMMA RolesAreSo == TrackInv /\ Unparked => RolesAreTracked
<1> SUFFICES ASSUME TrackInv, Unparked, Settled, NEW r \in kroles
             PROVE  \E k \in Rows : k[2] = r.group /\ src[k].role = r.id
  BY DEF RolesAreTracked
<1>1. \A j \in Jobs : ~WillRecord(j, r.group)
  BY DEF Settled, WillRecord
<1>2. PICK k \in Rows : k[2] = r.group
  BY <1>1 DEF TrackInv, Followed, OnRow
<1>3. src[k].role # 0
  BY DEF TrackInv, RolesFit, RowsFit, Unparked, Rows
<1> QED BY <1>2, <1>3 DEF TrackInv, RolesFit

LEMMA NoneParked == ParksEarly /\ ParkedFit => Unparked
BY DEF ParkedFit, Unparked, Rows

LEMMA DeletedIsSo == FinalInv /\ PlainRows => DeletedIsFinal
BY DEF FinalInv, GoneForGood, PlainRows, DeletedIsFinal

\* No user of a person who is marked 'deleted' (MarkDeleted) lives on in Kisi,
\* whatever was retried, crashed or failed on the way, and whatever staff
\* parked or paused.
THEOREM TheDeletedAreGone == Spec => []GoneForGood
<1>1. Init => OwnerInv /\ FinalInv
  BY OwnersAlways, RecordsInit
<1>2. OwnerInv /\ FinalInv /\ [Next]_vars => (OwnerInv /\ FinalInv)'
  BY OwnersAlways, FinalNext
<1>3. FinalInv => GoneForGood
  BY DEF FinalInv
<1> QED BY <1>1, <1>2, <1>3, PTL DEF Spec

\* With every job done, what AccessSync shows of a person is what the rows say
\* (RollUp, CompleteRevoke), provided that every plan opens a door.
THEOREM StatusIsKept ==
  ASSUME EveryPlanOpens
  PROVE  Spec => []StatusIsRollup
<1>1. Init => OwnerInv /\ StatusInv
  BY OwnersAlways, RecordsInit
<1>2. OwnerInv /\ StatusInv /\ [Next]_vars => (OwnerInv /\ StatusInv)'
  BY OwnersAlways, StatusNext, AllMapped DEF OwnerInv
<1> QED BY <1>1, <1>2, StatusIsSo, PTL DEF Spec

\* With every job done, each role that Kisi holds is on a row of its door under
\* its id, so that a cancel can find it (AssignRole, RecordRow, DropRow): also
\* where a grant was retried, a user was gone or an answer was lost.
THEOREM RolesAreKept ==
  ASSUME ParksEarly
  PROVE  Spec => []RolesAreTracked
<1> DEFINE Roles == OwnerInv /\ FinalInv /\ ParkedFit /\ TrackInv
<1>1. Init => Roles
  BY OwnersAlways, RecordsInit
<1>2. Roles /\ [Next]_vars => Roles'
  BY OwnersAlways, FinalNext, ParkedNext, TrackNext DEF ParksAreFollowed
<1>3. Roles => RolesAreTracked
  BY RolesAreSo, NoneParked
<1> HIDE DEF Roles
<1> QED BY <1>1, <1>2, <1>3, PTL DEF Spec

\* The three together, which is what the run core checks: of doors, rows and
\* people the record is so, where nothing is parked with a door or paused.
THEOREM RecordsAreKept ==
  ASSUME EveryPlanOpens, NothingPaused
  PROVE  Spec => []RecordsHold
<1> DEFINE Records == OwnerInv /\ FinalInv /\ StatusInv /\ PlainRows /\ ParkedFit /\ TrackInv
<1>1. Init => Records
  BY OwnersAlways, RecordsInit
<1>2. Records /\ [Next]_vars => Records'
  <2>1. OwnerInv => Mapped
    BY AllMapped DEF OwnerInv
  <2> QED BY <2>1, OwnersAlways, FinalNext, StatusNext, PlainNext, ParkedNext, TrackNext
             DEF NothingPaused, ParksEarly, ParksAreFollowed
<1>3. Records => RecordsHold
  BY StatusIsSo, RolesAreSo, NoneParked, DeletedIsSo DEF RecordsHold, NothingPaused, ParksEarly
<1> HIDE DEF Records
<1> QED BY <1>1, <1>2, <1>3, PTL DEF Spec
=============================================================================
