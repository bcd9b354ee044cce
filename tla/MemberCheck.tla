---------------------------- MODULE MemberCheck -----------------------------
(***************************************************************************)
(* "Reconcile Member" (core/reconciliation.js reconcileMember): an operator *)
(* has one member compared with Wix and the door system.  The check reads  *)
(* Wix, the mappings, Kisi and the source rows one after the other, takes  *)
(* no lock, and queues grants from what it read.  Meanwhile the member     *)
(* buys and cancels, webhooks are lost, and jobs run.                      *)
(***************************************************************************)
EXTENDS Integers, FiniteSets

CONSTANTS
  CheckPlans,
  CheckDoors,
  DoorOf,           \* plan |-> the door its mapping names
  CheckScenarios

Troubles == {"wix", "kisi", "webhook", "grant"}

(* How the plans are mapped; checks and changes left; what may go wrong;   *)
(* calm: nothing changes while a check or its jobs are under way.          *)
CheckScenario ==
  [mapped : [CheckPlans -> {"one", "none", "empty", "two"}], checks : Nat, changes : Nat, staff : Nat,
   faults : Nat, kinds : SUBSET Troubles, calm : BOOLEAN]

ASSUME MemberCheckAssumption ==
  /\ DoorOf \in [CheckPlans -> CheckDoors]
  /\ CheckScenarios \subseteq CheckScenario

VARIABLES
  wixPlans,     \* plans that are active in Wix
  inKisi,       \* doors the member has a role at
  enabled,      \* the Kisi user is enabled
  onRecord,     \* door |-> status of the source row, or "none"
  checkJobs,    \* jobs waiting: [kind, plan]
  check,        \* the check that runs: what it has read
  result,       \* what the last check answered, if nothing changed since
  checkLeft,
  checkSeen

checkVars == <<wixPlans, inKisi, enabled, onRecord, checkJobs, check, result, checkLeft, checkSeen>>
-----------------------------------------------------------------------------
NoCheck == [step |-> "idle", plans |-> {}, roles |-> {}]
Member  == <<inKisi, enabled, onRecord>>

Mapped(p)   == checkLeft.mapped[p] = "one"
Doors(ps)   == {DoorOf[p] : p \in ps}

CheckInit ==
  /\ checkLeft \in CheckScenarios
  /\ wixPlans \in SUBSET CheckPlans
  /\ \E had \in SUBSET Doors({p \in CheckPlans : Mapped(p)}) :
       /\ inKisi = had
       /\ onRecord = [d \in CheckDoors |-> IF d \in had THEN "active" ELSE "none"]
  /\ enabled = TRUE
  /\ checkJobs = {} /\ check = NoCheck /\ result = "none" /\ checkSeen = {}

Fails(f) ==
  /\ f \in checkLeft.kinds /\ checkLeft.faults > 0
  /\ checkLeft' = [checkLeft EXCEPT !.faults = @ - 1]
  /\ checkSeen' = checkSeen \cup {f}
Works == UNCHANGED <<checkLeft, checkSeen>>

May == checkLeft.calm => check = NoCheck /\ checkJobs = {}
-----------------------------------------------------------------------------
(* Around the check.                                                       *)

(* A purchase or an end in Wix; its webhook queues a job, or is lost.      *)
Alters(p, lost) ==
  /\ May /\ checkLeft.changes > 0
  /\ lost => "webhook" \in checkLeft.kinds
  /\ checkLeft' = [checkLeft EXCEPT !.changes = @ - 1]
  /\ wixPlans' = IF p \in wixPlans THEN wixPlans \ {p} ELSE wixPlans \cup {p}
  /\ checkJobs' = IF lost THEN checkJobs
                  ELSE checkJobs \cup {[kind |-> IF p \in wixPlans THEN "revoke" ELSE "grant", plan |-> p]}
  /\ result' = "none"
  /\ UNCHANGED <<Member, check, checkSeen>>

(* Staff delete a role in Kisi, a row is lost, or a payment fails.         *)
Drifts(d, how) ==
  /\ May /\ checkLeft.staff > 0
  /\ checkLeft' = [checkLeft EXCEPT !.staff = @ - 1]
  /\ CASE how = "role"    -> d \in inKisi /\ inKisi' = inKisi \ {d} /\ UNCHANGED <<enabled, onRecord>>
       [] how = "row"     -> onRecord[d] # "none" /\ onRecord' = [onRecord EXCEPT ![d] = "none"] /\ UNCHANGED <<inKisi, enabled>>
       [] how = "payment" -> /\ enabled /\ enabled' = FALSE
                             /\ onRecord' = [x \in CheckDoors |-> IF onRecord[x] = "active" THEN "failed" ELSE onRecord[x]]
                             /\ UNCHANGED inKisi
  /\ checkSeen' = checkSeen \cup {how}
  /\ result' = "none"
  /\ UNCHANGED <<wixPlans, checkJobs, check>>

(* A grant gives the role if it is missing and writes the row; a revoke    *)
(* takes the door when no other active plan has it.                        *)
GrantRuns(j, ok) ==
  /\ j \in checkJobs /\ j.kind = "grant"
  /\ (IF ok THEN Works ELSE Fails("grant"))
  /\ IF Mapped(j.plan) /\ ok
     THEN /\ inKisi' = inKisi \cup {DoorOf[j.plan]}
          /\ onRecord' = [onRecord EXCEPT ![DoorOf[j.plan]] = "active"]
     ELSE UNCHANGED <<inKisi, onRecord>>
  /\ checkJobs' = checkJobs \ {j}
  /\ UNCHANGED <<wixPlans, enabled, check, result>>
RevokeRuns(j) ==
  /\ j \in checkJobs /\ j.kind = "revoke"
  /\ IF Mapped(j.plan) /\ \A p \in CheckPlans \ {j.plan} : DoorOf[p] = DoorOf[j.plan] => p \notin wixPlans
     THEN /\ inKisi' = inKisi \ {DoorOf[j.plan]}
          /\ onRecord' = [onRecord EXCEPT ![DoorOf[j.plan]] = "none"]
     ELSE UNCHANGED <<inKisi, onRecord>>
  /\ checkJobs' = checkJobs \ {j}
  /\ Works
  /\ UNCHANGED <<wixPlans, enabled, check, result>>
-----------------------------------------------------------------------------
(* The check.                                                              *)
Answers(a) == check' = NoCheck /\ result' = a

(* Orders and bookings of the member; Wix may be out of reach.             *)
ReadsWix(ok) ==
  /\ check = NoCheck /\ checkLeft.checks > 0
  /\ checkLeft' = [checkLeft EXCEPT !.checks = @ - 1]
  /\ IF ok THEN check' = [NoCheck EXCEPT !.step = "kisi", !.plans = wixPlans] /\ UNCHANGED result
           ELSE "wix" \in checkLeft.kinds /\ UNCHANGED check /\ result' = "wix_unavailable"
  /\ UNCHANGED <<wixPlans, Member, checkJobs, checkSeen>>

(* Plans whose mapping is missing, has no door, or is there twice.         *)
Unclear(ps) == {p \in ps : ~Mapped(p)}

(* Nothing is done for a member with an unclear plan; else Kisi is read.   *)
ReadsKisi(ok) ==
  /\ check.step = "kisi"
  /\ IF Unclear(check.plans) # {} THEN ok /\ Answers("needs_attention") /\ Works
     ELSE IF ok THEN check' = [check EXCEPT !.step = "judge", !.roles = inKisi] /\ UNCHANGED result /\ Works
     ELSE Answers("hardware_unavailable") /\ Fails("kisi")
  /\ UNCHANGED <<wixPlans, Member, checkJobs>>

(* A mutant of Untraceable: the branch is taken out.                       *)
UntraceableNever(expected, actual) == FALSE

(* Access nobody can explain, of a member who should have none.            *)
Untraceable(expected, actual) == actual \ expected # {} /\ expected = {}

GrantsFor(ps) == {[kind |-> "grant", plan |-> p] : p \in ps}

(* Doors without a source row, whatever its status is.                     *)
Unrecorded(expected) == {d \in expected : onRecord[d] = "none"}

(* The source rows are read, and the verdict is reached, in this order.    *)
Judges ==
  LET expected == {DoorOf[p] : p \in {q \in check.plans : Mapped(q)}}
  IN  /\ check.step = "judge"
      /\ IF Untraceable(expected, check.roles) THEN Answers("needs_attention") /\ UNCHANGED checkJobs
         ELSE IF expected = {} /\ check.roles # {}
         THEN Answers("access_removed") /\ checkJobs' = checkJobs \cup {[kind |-> "revoke", plan |-> p] : p \in CheckPlans}
         ELSE IF expected \ check.roles # {} THEN Answers("access_restored") /\ checkJobs' = checkJobs \cup GrantsFor(check.plans)
         ELSE IF Unrecorded(expected) # {} THEN Answers("repaired") /\ checkJobs' = checkJobs \cup GrantsFor(check.plans)
         ELSE Answers("ok") /\ UNCHANGED checkJobs
      /\ Works
      /\ UNCHANGED <<wixPlans, Member>>
-----------------------------------------------------------------------------
CheckStep == (\E j \in checkJobs : GrantRuns(j, TRUE) \/ RevokeRuns(j)) \/ ReadsKisi(TRUE) \/ Judges

CheckNext ==
  \/ CheckStep
  \/ \E ok \in BOOLEAN : ReadsWix(ok)
  \/ ReadsKisi(FALSE)
  \/ \E j \in checkJobs : GrantRuns(j, FALSE)
  \/ \E p \in CheckPlans, lost \in BOOLEAN : Alters(p, lost)
  \/ \E d \in CheckDoors, how \in {"role", "row", "payment"} : Drifts(d, how)

CheckSpec == CheckInit /\ [][CheckNext]_checkVars /\ WF_checkVars(CheckStep)
-----------------------------------------------------------------------------
CheckTypeOK ==
  /\ wixPlans \subseteq CheckPlans /\ inKisi \subseteq CheckDoors /\ enabled \in BOOLEAN
  /\ onRecord \in [CheckDoors -> {"none", "active", "failed"}]
  /\ checkJobs \subseteq [kind : {"grant", "revoke"}, plan : CheckPlans]
  /\ check.step \in {"idle", "kisi", "judge"} /\ check.plans \subseteq CheckPlans
  /\ check.step = "judge" => \A p \in check.plans : Mapped(p)

(* A check takes no door from anybody, whatever it read and whatever       *)
(* changed meanwhile: the order of its verdicts sends a member without a   *)
(* plan to the operator before the branch that queues a removal.           *)
ChecksNeverRemove ==
  [][check # NoCheck /\ check' = NoCheck => \A j \in checkJobs' \ checkJobs : j.kind # "revoke"]_checkVars

(* The comment on reconcileMember promises the contrary: "access_removed - *)
(* No active Wix sub, but hardware still had access.  Revoke queued."      *)
LapsedIsRemoved ==
  [][check.step = "judge" /\ check.plans = {} /\ check.roles # {} /\ check' = NoCheck => result' = "access_removed"]_checkVars

(* With nothing changing under it, a check that found something missing    *)
(* ends with every door of every active plan in Kisi and on record.        *)
Whole == \A p \in wixPlans : Mapped(p) => DoorOf[p] \in inKisi /\ onRecord[DoorOf[p]] # "none"
Undisturbed == checkLeft.calm /\ "grant" \notin checkSeen
ChecksRepair == []<>(result \in {"access_restored", "repaired"} /\ Undisturbed => Whole)

(* "ok - DB matches Wix and hardware.": it did when the check answered.    *)
OkIsWhole == [][result' = "ok" /\ result' # result /\ checkLeft.calm => Whole]_checkVars

(* What a check never does, and what it says.                              *)
ChecksHold == []CheckTypeOK /\ ChecksNeverRemove /\ OkIsWhole

(* The same, of a member who can open the doors.                           *)
OkIsIn ==
  [][result' = "ok" /\ result' # result => enabled /\ \A p \in wixPlans : onRecord[DoorOf[p]] = "active"]_checkVars
=============================================================================
