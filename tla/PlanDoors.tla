------------------------------ MODULE PlanDoors ------------------------------
(***************************************************************************)
(* Which doors a plan opens, and how a change of them reaches the members  *)
(* who are on it already: the admin save (admin/routes/operator.js, PATCH  *)
(* plan-mappings, syncMappingMembers, applyDoorChange), the steps it       *)
(* shares with the sweep (core/plan-door-sync.js), the sweep's own door    *)
(* check (core/reconciliation.js) and, as far as doors go, the grant job.  *)
(*                                                                         *)
(* A save answers its caller before it has told Kisi anything: nothing     *)
(* keeps two saves, a sweep and a job of the same member apart, and a      *)
(* process that dies loses the rest of the save.                           *)
(***************************************************************************)
EXTENDS Integers, FiniteSets

CONSTANTS
  Members, Plans, Doors,
  DoorsAtStart,  \* plan |-> its doors, which its paying members have
  Saves,         \* the saves that may run at once
  Patches,       \* the changes an operator may ask for
  MaxRoles,      \* how often Kisi may give one person one door
  Scenarios,     \* who pays at the start and how much may happen, see Scenario
  RemovalOn,     \* auto-removal is on and the kill switch is not set
  Sweep,         \* the sweep, as an actor beside the saves
  Same           \* what a patch says of a field it leaves alone

DoorFaults == {"kisi", "job", "row", "drop", "crash", "db", "staff"}

(* A scenario bounds how many saves, purchases and faults there are, says  *)
(* of which kinds the faults are and whether sweeps come round.            *)
Scenario ==
  [paying : SUBSET (Members \X Plans), saves : Nat, buys : Nat, faults : Nat,
   kinds : SUBSET DoorFaults, sweeps : BOOLEAN]

ASSUME DoorsAssumption ==
  /\ DoorsAtStart \in [Plans -> SUBSET Doors]
  /\ \A sc \in Scenarios : sc \in Scenario
  /\ Sweep \notin Saves
  /\ RemovalOn \in BOOLEAN
  /\ MaxRoles \in Nat \ {0}

VARIABLES
  mapping,    \* plan |-> its plan_mappings row and its plan_mapping_groups
  srcRow,     \* <<member, plan, door>> |-> its source row's Kisi role, if it has a row
  kisiRole,   \* <<member, door>> |-> the role Kisi holds, 0 when it holds none
  given,      \* <<member, door>> |-> how many roles Kisi ever made of it
  paying,     \* <<member, plan>> Wix calls paid for
  grantJobs,  \* <<member, plan>> grant jobs that wait
  worker,     \* the job under way
  hand,       \* save or sweep |-> where it is
  alerts,     \* config_alert_log: open [kind, member, door]
  left,       \* the scenario, with what of it may still happen
  happened    \* the kinds of fault there were, and "buy" and "null"

doorsVars == <<mapping, srcRow, kisiRole, given, paying, grantJobs, worker, hand, alerts, left, happened>>
-----------------------------------------------------------------------------
Actors == Saves \cup {Sweep}
Keys   == Members \X Plans \X Doors
Pairs  == Members \X Doors

NoRow    == -1        \* no source row
NullRole == 0         \* a source row with no role_assignment_id

Live(p)    == mapping[p].on /\ mapping[p].doors # {}
Ambig(p)   == mapping[p].on /\ mapping[p].doors = {}   \* on, with no door
RowsOf(p)  == {k \in Keys : k[2] = p /\ srcRow[k] # NoRow}
OnPlan(p)  == {k[1] : k \in RowsOf(p)}                 \* membersOnPlan
Pair(k)    == <<k[1], k[3]>>

(* OTHER_PLAN_KEEPS_DOOR_SQL                                               *)
OtherPlanKeeps(k) ==
  \E q \in Plans \ {k[2]} : srcRow[<<k[1], q, k[3]>>] # NoRow

(* A change asked for: a door to add or to remove, or a status and a list  *)
(* of doors of which either may be left out.                               *)
Idle == [at |-> "idle"]

DoorsInit ==
  /\ left \in Scenarios
  /\ paying = left.paying
  /\ happened = {}
  /\ mapping = [p \in Plans |-> [on |-> TRUE, doors |-> DoorsAtStart[p]]]
  /\ srcRow = [k \in Keys |-> IF <<k[1], k[2]>> \in paying /\ k[3] \in DoorsAtStart[k[2]]
                              THEN 1 ELSE NoRow]
  /\ kisiRole = [x \in Pairs |-> IF \E p \in Plans : srcRow[<<x[1], p, x[2]>>] = 1 THEN 1 ELSE 0]
  /\ given = kisiRole
  /\ grantJobs = {}
  /\ worker = Idle
  /\ hand = [a \in Actors |-> Idle]
  /\ alerts = {}

DoorFault(f) ==
  /\ f \in left.kinds /\ left.faults > 0
  /\ left' = [left EXCEPT !.faults = @ - 1]
  /\ happened' = happened \cup {f}
Fine == UNCHANGED <<left, happened>>

Goes(a, h) == hand' = [hand EXCEPT ![a] = h]
-----------------------------------------------------------------------------
(* One person at one door, for a save or for the sweep.  An actor at work  *)
(* has todo, the rows to give, take, the rows to take, each with the role  *)
(* it was read with, and cur, the row in hand.                             *)

(* assignRole: Kisi answers with the role it has, or makes one.            *)
RoleGiven(x) == IF kisiRole[x] # 0 THEN kisiRole[x] ELSE given[x] + 1

Assign(x) ==
  /\ RoleGiven(x) <= MaxRoles
  /\ kisiRole' = [kisiRole EXCEPT ![x] = RoleGiven(x)]
  /\ given' = [given EXCEPT ![x] = IF @ < RoleGiven(x) THEN RoleGiven(x) ELSE @]

(* raiseDoorAlert and resolveDoorAlerts                                    *)
Alert(kind, x)    == [kind |-> kind, pair |-> x]
Raise(kind, x)    == alerts' = alerts \cup {Alert(kind, x)}
Resolve(kinds, x) == alerts' = alerts \ {Alert(kind, x) : kind \in kinds}

(* grantMappingGroup refused by Kisi: a save notes it, a switch-on raises  *)
(* the alert at once, the sweep leaves the standing one.                   *)
GiveFails(a, k) ==
  /\ DoorFault("kisi")
  /\ Goes(a, [hand[a] EXCEPT !.todo = @ \ {k}, !.failed = @ \cup {k}, !.at = "give"])
  /\ IF a # Sweep /\ hand[a].way = "on" THEN Raise("door_grant_failed", Pair(k)) ELSE UNCHANGED alerts
  /\ UNCHANGED <<mapping, srcRow, kisiRole, given, paying, grantJobs, worker>>

(* grantMappingGroup, Kisi first: the role is assigned ...                 *)
Give(a, k) ==
  /\ Fine
  /\ Assign(Pair(k))
  /\ Goes(a, [hand[a] EXCEPT !.at = "record", !.cur = k, !.role = RoleGiven(Pair(k))])
  /\ UNCHANGED <<mapping, srcRow, paying, grantJobs, worker, alerts>>

(* ... and then its row is written, a failure to being only logged.        *)
Record(a) ==
  LET k == hand[a].cur
  IN  /\ hand[a].at = "record"
      /\ \/ Fine /\ srcRow' = [srcRow EXCEPT ![k] = hand[a].role]
         \/ DoorFault("row") /\ UNCHANGED srcRow
      /\ IF a = Sweep THEN Resolve({"door_grant_failed", "door_swap_held"}, Pair(k))
                      ELSE UNCHANGED alerts
      /\ Goes(a, [hand[a] EXCEPT !.at = "give", !.todo = @ \ {k}, !.done = @ \cup {k}])
      /\ UNCHANGED <<mapping, kisiRole, given, paying, grantJobs, worker>>

Taken(k, n) == [key |-> k, role |-> n]

(* revokeMappingSource: is the door another plan's too?                    *)
Check(a, t) ==
  /\ hand[a].at = "check" /\ hand[a].cur = t
  /\ Fine
  /\ Goes(a, [hand[a] EXCEPT !.at = IF OtherPlanKeeps(t.key) \/ t.role = NullRole
                                    THEN "drop" ELSE "unlink"])
  /\ UNCHANGED <<mapping, srcRow, kisiRole, given, paying, grantJobs, worker, alerts>>

(* removeRole, by the id that was read; one Kisi no longer has is no error.*)
Unlink(a) ==
  LET t == hand[a].cur
      x == Pair(t.key)
  IN  /\ hand[a].at = "unlink"
      /\ \/ /\ Fine
            /\ kisiRole' = [kisiRole EXCEPT ![x] = IF @ = t.role THEN 0 ELSE @]
            /\ Goes(a, [hand[a] EXCEPT !.at = "drop"])
            /\ UNCHANGED alerts
         \/ /\ DoorFault("kisi")
            /\ Raise("door_removal_failed", x)
            /\ Goes(a, [hand[a] EXCEPT !.at = "take"])
            /\ UNCHANGED kisiRole
      /\ UNCHANGED <<mapping, srcRow, given, paying, grantJobs, worker>>

(* A row is never written again under the same id: whoever still has it    *)
(* in hand finds nothing.                                                  *)
Forget(h, k) ==
  IF h.at = "idle" THEN h
  ELSE [h EXCEPT !.take = {t \in @ : t.key # k},
                 !.at = IF @ \in {"check", "unlink", "drop"} /\ h.cur.key = k THEN "take" ELSE @]

(* The row goes last; the database may fail to, which is only logged.  A   *)
(* row that had no role when it was read is noted.                         *)
Drop(a) ==
  LET k == hand[a].cur.key
  IN  /\ hand[a].at = "drop"
      /\ \/ /\ IF hand[a].cur.role = NullRole
               THEN happened' = happened \cup {"null"} /\ UNCHANGED left ELSE Fine
            /\ srcRow' = [srcRow EXCEPT ![k] = NoRow]
            /\ hand' = [b \in Actors |-> Forget(hand[b], k)]
         \/ /\ DoorFault("drop")
            /\ Goes(a, [hand[a] EXCEPT !.at = "take"])
            /\ UNCHANGED srcRow
      /\ IF a = Sweep THEN Resolve({"door_removal_failed"}, Pair(k)) ELSE UNCHANGED alerts
      /\ UNCHANGED <<mapping, kisiRole, given, paying, grantJobs, worker>>
-----------------------------------------------------------------------------
(* An admin save.                                                          *)

At(a, step) == hand[a].at = step

(* The handler reads the plan's doors and status before it writes.         *)
Open(s, p, c) ==
  /\ hand[s] = Idle /\ left.saves > 0
  /\ c.kind = "add"    => c.door \notin mapping[p].doors
  /\ c.kind = "remove" => c.door \in mapping[p].doors
  /\ left' = [left EXCEPT !.saves = @ - 1] /\ UNCHANGED happened
  /\ Goes(s, [at |-> "write", plan |-> p, change |-> c, old |-> mapping[p].doors,
              wasOn |-> mapping[p].on, restore |-> FALSE, way |-> "diff", new |-> {},
              had |-> {}, todo |-> {}, take |-> {}, cur |-> <<>>, role |-> 0,
              failed |-> {}, done |-> {}])
  /\ UNCHANGED <<mapping, srcRow, kisiRole, given, paying, grantJobs, worker, alerts>>

(* What the save leaves in the database, and what it tells the sync: the   *)
(* sync is given the status asked for or the old one, and the database a   *)
(* status that follows the list of doors.                                  *)
NewDoors(h) ==
  CASE h.change.kind = "add"    -> h.old \cup {h.change.door}
    [] h.change.kind = "remove" -> h.old \ {h.change.door}
    [] OTHER                    -> IF h.change.doors = Same THEN h.old ELSE h.change.doors

Written(h) ==
  LET m == mapping[h.plan]
      c == h.change
  IN  CASE c.kind = "add"    -> [on |-> TRUE, doors |-> m.doors \cup {c.door}]
        [] c.kind = "remove" -> [m EXCEPT !.doors = @ \ {c.door}]
        [] c.doors # Same    -> [on |-> c.doors # {}, doors |-> c.doors]
        [] OTHER             -> [m EXCEPT !.on = IF c.status = Same THEN @ ELSE c.status = "on"]

Way(h) ==
  LET asked == IF h.change.kind = "patch" /\ h.change.status # Same
               THEN h.change.status = "on" ELSE h.wasOn
  IN  IF h.wasOn /\ ~asked THEN "off" ELSE IF ~h.wasOn /\ asked THEN "on" ELSE "diff"

(* Only removeGroupId never brings members back.                           *)
ComesBack(h) ==
  /\ h.change.kind # "remove"
  /\ ~(h.wasOn /\ h.old # {})
  /\ Written(h).on /\ NewDoors(h) # {}

(* The caller is answered once the plan is written; the sync and the       *)
(* restore go on by themselves.                                            *)
Write(s) ==
  LET h == hand[s]
  IN  /\ At(s, "write")
      /\ \/ /\ Fine
            /\ mapping' = [mapping EXCEPT ![h.plan] = Written(h)]
            /\ Goes(s, [h EXCEPT !.at = "read", !.new = NewDoors(h), !.way = Way(h),
                                 !.restore = ComesBack(h)])
         \/ /\ DoorFault("db")
            /\ \/ UNCHANGED mapping
               \/ /\ h.change.kind = "patch" /\ h.change.doors # Same
                  /\ mapping' = [mapping EXCEPT ![h.plan].doors = {}]
            /\ Goes(s, Idle)
      /\ UNCHANGED <<srcRow, kisiRole, given, paying, grantJobs, worker, alerts>>

(* restorePlanMembers: a grant job for everyone who pays.                  *)
Restore(s) ==
  /\ hand[s] # Idle /\ hand[s].restore
  /\ grantJobs' = grantJobs \cup {x \in paying : x[2] = hand[s].plan}
  /\ Goes(s, [hand[s] EXCEPT !.restore = FALSE])
  /\ Fine
  /\ UNCHANGED <<mapping, srcRow, kisiRole, given, paying, worker, alerts>>

(* rowsLosingDoors, with the role each row has now.                        *)
Losing(p, doors) == {Taken(k, srcRow[k]) : k \in {r \in RowsOf(p) : r[3] \in doors}}

(* syncMappingMembers reads who gains and who loses; an error ends it.     *)
Gather(s) ==
  LET h == hand[s]
      gain == CASE h.way = "off" -> {} [] h.way = "on" -> h.new [] OTHER -> h.new \ h.old
      lose == CASE h.way = "off" -> Doors [] h.way = "on" -> {} [] OTHER -> h.old \ h.new
  IN  /\ At(s, "read")
      /\ \/ /\ Fine
            /\ Goes(s, [h EXCEPT !.at = "give",
                         !.todo = OnPlan(h.plan) \X {h.plan} \X gain,
                         !.take = Losing(h.plan, lose),
                         !.had  = {k[1] : k \in {r \in RowsOf(h.plan) : kisiRole[Pair(r)] # 0}}])
         \/ DoorFault("db") /\ ~h.restore /\ Goes(s, Idle)
      /\ UNCHANGED <<mapping, srcRow, kisiRole, given, paying, grantJobs, worker, alerts>>

SaveGives(s) ==
  /\ s # Sweep /\ At(s, "give")
  /\ \E k \in hand[s].todo : Give(s, k)

SaveGiveFails(s) ==
  /\ s # Sweep /\ At(s, "give")
  /\ \E k \in hand[s].todo : GiveFails(s, k)

(* A mutant of Held: no one keeps the old door.                            *)
HeldNone(h) == {}

(* Whom a swap would leave with no door of the plan: nothing was granted   *)
(* to them and no door that stays has their role.                          *)
Held(h) ==
  LET keeps == {k[1] : k \in {r \in RowsOf(h.plan) : r[3] \in h.old \cap h.new /\ srcRow[r] # NullRole}}
  IN  {k[1] : k \in h.failed} \ ({k[1] : k \in h.done} \cup keeps)

(* Between the doors given and the doors taken: the alerts, and the hold.  *)
Hold(s) ==
  LET h == hand[s]
      held == Held(h) \cap {t.key[1] : t \in h.take}
  IN  /\ s # Sweep /\ At(s, "give") /\ h.todo = {}
      /\ IF h.way = "diff"
         THEN alerts' = alerts \cup {Alert(IF k[1] \in held THEN "door_swap_held"
                                          ELSE "door_grant_failed", Pair(k)) : k \in h.failed}
         ELSE UNCHANGED alerts
      /\ Goes(s, [h EXCEPT !.at = "take", !.take = {t \in @ : t.key[1] \notin held}])
      /\ Fine
      /\ UNCHANGED <<mapping, srcRow, kisiRole, given, paying, grantJobs, worker>>

SaveTakes(s) ==
  /\ s # Sweep /\ At(s, "take")
  /\ \E t \in hand[s].take :
        Goes(s, [hand[s] EXCEPT !.at = "check", !.cur = t, !.take = @ \ {t}])
  /\ Fine
  /\ UNCHANGED <<mapping, srcRow, kisiRole, given, paying, grantJobs, worker, alerts>>

Close(s) ==
  /\ s # Sweep /\ At(s, "take") /\ hand[s].take = {} /\ ~hand[s].restore
  /\ Goes(s, Idle)
  /\ Fine
  /\ UNCHANGED <<mapping, srcRow, kisiRole, given, paying, grantJobs, worker, alerts>>
-----------------------------------------------------------------------------
(* The sweep, once it read who pays.                                       *)

(* One read of every role Kisi has, used to the end of the sweep.          *)
SweepReads ==
  /\ left.sweeps /\ hand[Sweep] = Idle
  /\ \/ Fine /\ Goes(Sweep, [at |-> "match", way |-> "sweep", seen |-> kisiRole, had |-> {},
                             todo |-> {}, take |-> {}, cur |-> <<>>, role |-> 0,
                             failed |-> {}, done |-> {}, lost |-> {}, pop |-> 0, restore |-> FALSE])
     \/ DoorFault("kisi") /\ UNCHANGED hand
  /\ UNCHANGED <<mapping, srcRow, kisiRole, given, paying, grantJobs, worker, alerts>>

(* The door plan_mappings.hardware_group_id names (alignLegacyDoor): the   *)
(* first of them.                                                          *)
FirstDoor(p) == IF mapping[p].doors = {} THEN {} ELSE {CHOOSE d \in Doors : d \in mapping[p].doors}

(* Rows for what is paid for, then the role ids rows lack: of the doors    *)
(* that are some plan's first one.                                         *)
Match ==
  LET h == hand[Sweep]
      universe == UNION {FirstDoor(p) : p \in {q \in Plans : mapping[q].on}}
      Filled(k) == IF srcRow[k] = NoRow /\ <<k[1], k[2]>> \in paying /\ Live(k[2]) /\ k[3] \in mapping[k[2]].doors
                   THEN NullRole ELSE srcRow[k]
  IN  /\ At(Sweep, "match")
      /\ srcRow' = [k \in Keys |-> IF Filled(k) = NullRole /\ k[3] \in universe
                                   THEN h.seen[Pair(k)] ELSE Filled(k)]
      /\ Goes(Sweep, [h EXCEPT !.at = "check_doors"])
      /\ Fine
      /\ UNCHANGED <<mapping, kisiRole, given, paying, grantJobs, worker, alerts>>

(* _planDoorCheck: a row of a plan that no longer has its door ...         *)
OffPlan(k) == srcRow[k] # NoRow /\ ~Ambig(k[2]) /\ ~(Live(k[2]) /\ k[3] \in mapping[k[2]].doors)

KeptPair(x) == \E p \in Plans : LET k == <<x[1], p, x[2]>> IN srcRow[k] # NoRow /\ ~OffPlan(k)

Leftover(seen) ==
  {Taken(k, srcRow[k]) : k \in {r \in Keys : OffPlan(r) /\ srcRow[r] # NullRole /\ seen[Pair(r)] # 0}}

(* A mutant of Missing: only a plan's first door is looked at.             *)
MissingFirst(seen) ==
  {k \in Keys : /\ Live(k[2]) /\ k[3] \in FirstDoor(k[2])
                /\ k[1] \in OnPlan(k[2]) /\ <<k[1], k[2]>> \in paying
                /\ seen[Pair(k)] = 0}

(* ... and a door of a paid plan that Kisi does not have of a member on it.*)
Missing(seen) ==
  {k \in Keys : /\ Live(k[2]) /\ k[3] \in mapping[k[2]].doors
                /\ k[1] \in OnPlan(k[2]) /\ <<k[1], k[2]>> \in paying
                /\ seen[Pair(k)] = 0}

CheckDoors ==
  LET h == hand[Sweep]
  IN  /\ At(Sweep, "check_doors")
      /\ Goes(Sweep, [h EXCEPT !.at = "give", !.todo = Missing(h.seen), !.take = Leftover(h.seen),
                      !.lost = {t.key : t \in {u \in Leftover(h.seen) : ~KeptPair(Pair(u.key))}},
                      !.pop = Cardinality({k[1] : k \in {r \in Keys : srcRow[r] # NoRow /\ h.seen[Pair(r)] # 0}})])
      /\ Fine
      /\ UNCHANGED <<mapping, srcRow, kisiRole, given, paying, grantJobs, worker, alerts>>

(* _doorStateNow, before each change.                                      *)
StillMissing(k)  == Live(k[2]) /\ k[3] \in mapping[k[2]].doors /\ k[1] \in OnPlan(k[2])
StillLeftover(k) == ~(mapping[k[2]].on /\ (mapping[k[2]].doors = {} \/ k[3] \in mapping[k[2]].doors))

SweepGives ==
  /\ At(Sweep, "give")
  /\ \E k \in hand[Sweep].todo :
       \/ StillMissing(k) /\ (Give(Sweep, k) \/ GiveFails(Sweep, k))
       \/ /\ ~StillMissing(k)
          /\ Goes(Sweep, [hand[Sweep] EXCEPT !.todo = @ \ {k}])
          /\ Fine
          /\ UNCHANGED <<mapping, srcRow, kisiRole, given, paying, grantJobs, worker, alerts>>

(* A row of a plan that still has doors is taken only from a member who    *)
(* holds one of those.                                                     *)
Removable(h) ==
  {t \in h.take : Live(t.key[2]) =>
     \E d \in mapping[t.key[2]].doors :
        h.seen[<<t.key[1], d>>] # 0 \/ <<t.key[1], d>> \in {Pair(k) : k \in h.done}}

(* The mass cap, over the people who would lose a door.                    *)
MassHold(h, ts) ==
  LET losers == {t.key[1] : t \in {u \in ts : u.key \in h.lost}}
  IN  h.pop >= 2 /\ Cardinality(losers) >= (h.pop \div 2) + 1

Cap ==
  LET h    == hand[Sweep]
      ts   == Removable(h)
      mass == MassHold(h, ts)
  IN  /\ At(Sweep, "give") /\ h.todo = {}
      /\ Goes(Sweep, [h EXCEPT !.at = "take", !.take = IF RemovalOn /\ ~mass THEN ts ELSE {}])
      /\ IF RemovalOn /\ mass THEN Raise("door_removal_held", <<>>)
         ELSE IF RemovalOn THEN Resolve({"door_removal_held"}, <<>>) ELSE UNCHANGED alerts
      /\ Fine
      /\ UNCHANGED <<mapping, srcRow, kisiRole, given, paying, grantJobs, worker>>

SweepTakes ==
  /\ At(Sweep, "take")
  /\ \E t \in hand[Sweep].take :
        Goes(Sweep, [hand[Sweep] EXCEPT !.take = @ \ {t}, !.cur = IF StillLeftover(t.key) THEN t ELSE @,
                                        !.at = IF StillLeftover(t.key) THEN "check" ELSE @])
  /\ Fine
  /\ UNCHANGED <<mapping, srcRow, kisiRole, given, paying, grantJobs, worker, alerts>>

(* Last, a grant job for each plan of a payer Kisi had no role of at all.  *)
SweepEnds ==
  /\ At(Sweep, "take") /\ hand[Sweep].take = {}
  /\ grantJobs' = grantJobs \cup {x \in paying : \A d \in Doors : hand[Sweep].seen[<<x[1], d>>] = 0}
  /\ Goes(Sweep, Idle)
  /\ Fine
  /\ UNCHANGED <<mapping, srcRow, kisiRole, given, paying, worker, alerts>>
-----------------------------------------------------------------------------
(* Purchases, and the grant job as far as doors go.                        *)

Buy(m, p) ==
  /\ <<m, p>> \notin paying /\ left.buys > 0
  /\ paying' = paying \cup {<<m, p>>}
  /\ grantJobs' = grantJobs \cup {<<m, p>>}
  /\ left' = [left EXCEPT !.buys = @ - 1] /\ happened' = happened \cup {"buy"}
  /\ UNCHANGED <<mapping, srcRow, kisiRole, given, worker, hand, alerts>>

(* resolve: the doors of a live plan; a plan with none parks the purchase. *)
JobStarts ==
  /\ worker = Idle
  /\ \E x \in grantJobs :
       /\ worker' = [at |-> "assign", member |-> x[1], plan |-> x[2], got |-> {},
                     todo |-> IF mapping[x[2]].on THEN mapping[x[2]].doors ELSE {}]
       /\ grantJobs' = grantJobs \ {x}
  /\ Fine
  /\ UNCHANGED <<mapping, srcRow, kisiRole, given, paying, hand, alerts>>

(* The role another row of the door holds is reused without asking Kisi.   *)
ReuseRow(x) ==
  {srcRow[k] : k \in {r \in Keys : Pair(r) = x /\ srcRow[r] > NullRole}}

JobAssigns ==
  /\ worker.at = "assign"
  /\ \E d \in worker.todo :
       LET x == <<worker.member, d>>
           Got(id) == worker' = [worker EXCEPT !.todo = @ \ {d}, !.got = @ \cup {<<d, id>>}]
       IN  \/ /\ \E id \in ReuseRow(x) : Got(id)
              /\ UNCHANGED <<kisiRole, given>>
           \/ /\ ReuseRow(x) = {} /\ Assign(x)
              /\ Got(RoleGiven(x))
  /\ Fine
  /\ UNCHANGED <<mapping, srcRow, paying, grantJobs, hand, alerts>>

(* A refusal sends the whole job back to the queue.                        *)
JobFails ==
  /\ worker.at = "assign" /\ worker.todo # {}
  /\ DoorFault("job")
  /\ grantJobs' = grantJobs \cup {<<worker.member, worker.plan>>}
  /\ worker' = Idle
  /\ UNCHANGED <<mapping, srcRow, kisiRole, given, paying, hand, alerts>>

(* completeGrant                                                           *)
JobRecords ==
  /\ worker.at = "assign" /\ worker.todo = {}
  /\ srcRow' = [k \in Keys |-> IF k[1] = worker.member /\ k[2] = worker.plan
                                   /\ \E g \in worker.got : g[1] = k[3]
                               THEN (CHOOSE g \in worker.got : g[1] = k[3])[2] ELSE srcRow[k]]
  /\ worker' = Idle
  /\ Fine
  /\ UNCHANGED <<mapping, kisiRole, given, paying, grantJobs, hand, alerts>>
-----------------------------------------------------------------------------
(* The admin process dies, and its saves with it; or the other one, whose  *)
(* job the queue gives out again and whose sweep starts over.              *)
AdminDies ==
  /\ \E s \in Saves : hand[s] # Idle
  /\ DoorFault("crash")
  /\ hand' = [a \in Actors |-> IF a \in Saves THEN Idle ELSE hand[a]]
  /\ UNCHANGED <<mapping, srcRow, kisiRole, given, paying, grantJobs, worker, alerts>>

WorkerDies ==
  /\ hand[Sweep] # Idle \/ worker # Idle
  /\ DoorFault("crash")
  /\ hand' = [hand EXCEPT ![Sweep] = Idle]
  /\ worker' = Idle
  /\ grantJobs' = IF worker = Idle THEN grantJobs ELSE grantJobs \cup {<<worker.member, worker.plan>>}
  /\ UNCHANGED <<mapping, srcRow, kisiRole, given, paying, alerts>>

(* Someone takes a door away in Kisi itself.                               *)
StaffTakes ==
  /\ DoorFault("staff")
  /\ \E x \in Pairs : kisiRole[x] # 0 /\ kisiRole' = [kisiRole EXCEPT ![x] = 0]
  /\ UNCHANGED <<mapping, srcRow, given, paying, grantJobs, worker, hand, alerts>>

SaveStep(s) ==
  \/ Write(s) \/ Restore(s) \/ Gather(s)
  \/ SaveGives(s) \/ SaveGiveFails(s) \/ Hold(s) \/ SaveTakes(s) \/ Close(s)

StepOfBoth(a) == Record(a) \/ Check(a, hand[a].cur) \/ Unlink(a) \/ Drop(a)

SweepStep == SweepReads \/ Match \/ CheckDoors \/ SweepGives \/ Cap \/ SweepTakes \/ SweepEnds

JobStep == JobStarts \/ JobAssigns \/ JobFails \/ JobRecords

DoorsNext ==
  \/ \E s \in Saves : SaveStep(s) \/ \E p \in Plans, c \in Patches : Open(s, p, c)
  \/ \E a \in Actors : hand[a] # Idle /\ StepOfBoth(a)
  \/ SweepStep
  \/ JobStep
  \/ \E m \in Members, p \in Plans : Buy(m, p)
  \/ AdminDies \/ WorkerDies \/ StaffTakes

DoorsSpec == DoorsInit /\ [][DoorsNext]_doorsVars

(* Work in hand goes on, jobs are taken and sweeps come round.             *)
DoorsFairness ==
  /\ \A s \in Saves : WF_doorsVars(SaveStep(s) \/ (hand[s] # Idle /\ StepOfBoth(s)))
  /\ WF_doorsVars(SweepStep \/ (hand[Sweep] # Idle /\ StepOfBoth(Sweep)))
  /\ WF_doorsVars(JobStep)

DoorsFairSpec == DoorsSpec /\ DoorsFairness
-----------------------------------------------------------------------------
(* Properties.                                                             *)

DoorsTypeOK ==
  /\ mapping \in [Plans -> [on : BOOLEAN, doors : SUBSET Doors]]
  /\ srcRow \in [Keys -> {NoRow} \cup 0 .. MaxRoles]
  /\ kisiRole \in [Pairs -> 0 .. MaxRoles]
  /\ given \in [Pairs -> 0 .. MaxRoles]
  /\ \A x \in Pairs : kisiRole[x] <= given[x]
  /\ paying \subseteq Members \X Plans
  /\ grantJobs \subseteq paying
  /\ \A a \in Actors : hand[a] # Idle => hand[a].todo \subseteq Keys
  /\ happened \subseteq DoorFaults \cup {"buy", "null"}

AtRest == \A a \in Actors : hand[a] = Idle /\ worker = Idle /\ grantJobs = {}

(* A Kisi failure in the middle of a swap leaves no one outside: whoever   *)
(* had a door of the plan when a save that leaves it doors began has one   *)
(* when it ends (operator.js applyDoorChange, door_swap_held).             *)
SwapStrandsNobody ==
  [][\A s \in Saves :
       LET h == hand[s]
       IN  ~left.sweeps /\ At(s, "take") /\ hand'[s] = Idle /\ h.way = "diff" /\ h.new \ h.old # {} =>
             \A m \in h.had : \E d \in Doors :
                /\ kisiRole[<<m, d>>] # 0
                /\ d \in h.new \/ srcRow[<<m, h.plan, d>>] # NoRow]_doorsVars

Happened(fs) == happened \cap fs # {}

(* Every door AccessSync opened in Kisi has a source row, by which some    *)
(* later change or sweep can find it: however saves, sweeps and jobs      *)
(* cross, as long as each says what it did and no row was dropped as one   *)
(* that never reached Kisi.                                                *)
RolesOnRecord ==
  AtRest /\ ~left.sweeps /\ ~Happened({"row", "crash", "job", "null"}) => \A x \in Pairs : kisiRole[x] # 0 =>
    \E p \in Plans : srcRow[<<x[1], p, x[2]>>] # NoRow

(* A row with no role assignment never reached Kisi (plan-door-sync.js,    *)
(* revokeMappingSource): dropping one leaves no role behind that only it   *)
(* could have named.                                                       *)
NullRowsNeverReachedKisi ==
  [][\A a \in Actors :
       At(a, "drop") /\ hand[a].cur.role = NullRole /\ srcRow'[hand[a].cur.key] = NoRow
         => \/ kisiRole[Pair(hand[a].cur.key)] = 0
            \/ OtherPlanKeeps(hand[a].cur.key)]_doorsVars

(* A door that a plan on sale has and a paying member of it has not is on  *)
(* the alert list, unless a purchase crossed the save that brought it or   *)
(* the database failed it.                                                 *)
GapsAreFlagged ==
  AtRest /\ ~left.sweeps /\ ~Happened({"buy", "db", "drop"}) => \A k \in Keys :
    Live(k[2]) /\ k[3] \in mapping[k[2]].doors /\ <<k[1], k[2]>> \in paying /\ kisiRole[Pair(k)] = 0
      => \E kind \in {"door_grant_failed", "door_swap_held"} : Alert(kind, Pair(k)) \in alerts

(* No sweep takes doors from more than half of the people who have one.    *)
DoorsMassCap ==
  [][hand[Sweep] # Idle /\ hand[Sweep].pop >= 2 /\ At(Sweep, "give") /\ hand'[Sweep].at = "take" =>
       2 * Cardinality({t.key[1] : t \in {u \in hand'[Sweep].take : ~KeptPair(Pair(u.key))}})
         <= hand[Sweep].pop]_doorsVars

(* However saves, sweeps and jobs cross and fail: every role is on record, *)
(* every gap is on the alert list, a save strands nobody, and a sweep      *)
(* takes from no more than half.                                           *)
DoorsHold == []DoorsTypeOK /\ []RolesOnRecord /\ []GapsAreFlagged /\ SwapStrandsNobody /\ DoorsMassCap

Synced ==
  \A k \in Keys : Live(k[2]) /\ k[3] \in mapping[k[2]].doors /\ <<k[1], k[2]>> \in paying
    => kisiRole[Pair(k)] # 0
Cleared ==
  \A k \in Keys : OffPlan(k) /\ srcRow[k] > NullRole /\ ~KeptPair(Pair(k)) => kisiRole[Pair(k)] = 0

(* Whatever was lost on the way, under sweeps every paying member ends up  *)
(* with every door of the plan, and Kisi keeps no door for a plan that     *)
(* gave it up, unless the removals are held and the operator is told.      *)
DoorsSettle ==
  <>[](left.sweeps => Synced /\ (Cleared \/ Alert("door_removal_held", <<>>) \in alerts))
=============================================================================
