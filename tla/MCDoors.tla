------------------------------- MODULE MCDoors ------------------------------
(***************************************************************************)
(* The doors of a plan (PlanDoors), the key a gym has them opened with     *)
(* (GymKey) and the requests that open them (KisiRequests).  "part" says   *)
(* which of the three has something to do; the others rest.                *)
(***************************************************************************)
EXTENDS PlanDoors, GymKey, KisiRequests

CONSTANTS m1, m2, kisi, seam

VARIABLE part
-----------------------------------------------------------------------------
OneDoorEach == [p \in Plans |-> IF p = "p1" THEN {"d1"} ELSE {"d2"}]

AddOrRemove == {[kind |-> k, door |-> d] : k \in {"add", "remove"}, d \in Doors}
Swaps       == {[kind |-> "patch", status |-> Same, doors |-> {d}] : d \in Doors}
Switches    == {[kind |-> "patch", status |-> st, doors |-> Same] : st \in {"on", "off"}}
MixedPatch  == AddOrRemove \cup Swaps \cup Switches

NoSaves == [paying |-> {}, saves |-> 0, buys |-> 0, faults |-> 0, kinds |-> {}, sweeps |-> FALSE]

(* One member and saves alone; two members, a save and the sweeps after it.*)
OnlySaves == [paying |-> {<<"m1", "p1">>}, saves |-> 2, buys |-> 1, faults |-> 2,
              kinds |-> {"kisi", "job", "drop", "db"}, sweeps |-> FALSE]
WithSweeps == [paying |-> Members \X {"p1"}, saves |-> 1, buys |-> 0, faults |-> 1,
               kinds |-> {"kisi", "row", "crash", "staff"}, sweeps |-> TRUE]
DoorCases == {NoSaves, OnlySaves, WithSweeps}

(* Nothing goes wrong: a purchase, a sweep and one save cross.             *)
Crossing == {NoSaves, [NoSaves EXCEPT !.saves = 1, !.buys = 1, !.sweeps = TRUE]}

(* Not used by the run: a third save, where a failure of the first is met  *)
(* by the doors the second and the third leave.                            *)
ThreeSaves == {NoSaves, [OnlySaves EXCEPT !.saves = 3]}
-----------------------------------------------------------------------------
(* A gym of one platform, and one whose operator names a second.           *)
OnePlatform == [others |-> {}, named |-> {}]
KeyCases == {OnePlatform, [others |-> {m2}, named |-> {seam}]}

(* m2 has doors of another plan.                                           *)
SomeoneIsIn == {OnePlatform, [others |-> {m2}, named |-> {}]}
-----------------------------------------------------------------------------
DoorsRunInit ==
  /\ DoorsInit /\ KeyInit /\ RequestsInit
  /\ part \in {"doors", "key", "requests"}
  /\ (part = "doors") <=> (left # NoSaves)
  /\ part # "key" => gym = OnePlatform

DoorsRunNext ==
  /\ UNCHANGED part
  /\ \/ part = "doors"    /\ DoorsNext    /\ UNCHANGED <<gymkeyVars, requestVars>>
     \/ part = "key"      /\ KeyNext      /\ UNCHANGED <<doorsVars, requestVars>>
     \/ part = "requests" /\ RequestsNext /\ UNCHANGED <<doorsVars, gymkeyVars>>

(* The fairness of the three, for the part at work.                        *)
DoorsRunFairness ==
  /\ DoorsFairness
  /\ WF_gymkeyVars(part = "key" /\ \E t \in queue : Throws(t) \/ Reads(t))
  /\ \A m \in Parties : /\ WF_gymkeyVars(part = "key" /\ QueuesRetry(m))
                        /\ WF_gymkeyVars(part = "key" /\ Works(m))
  /\ WF_gymkeyVars(part = "key" /\ Sweeps)
  /\ WF_requestVars(part = "requests" /\ RequestTick)
  /\ \A c \in Callers : WF_requestVars(part = "requests" /\ RequestStep(c))

DoorsRunSpec ==
  DoorsRunInit /\ [][DoorsRunNext]_<<doorsVars, gymkeyVars, requestVars, part>> /\ DoorsRunFairness
-----------------------------------------------------------------------------
(* Kisi gets no more requests than it takes, and each of them ends         *)
(* (KisiRequests, RequestsEnd).                                            *)
RequestsComeBack == [](WindowKept) /\ []<>(part = "requests" => AllEnded)
=============================================================================
