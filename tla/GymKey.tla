------------------------------- MODULE GymKey -------------------------------
(***************************************************************************)
(* The gym's door system key and the members who bought before there was   *)
(* one: the two places it is saved from (admin/routes/operator.js, which   *)
(* queues the parked members again, and admin/routes/clients.js, which     *)
(* does not), the connector rows it lives on, the grant that reads it and  *)
(* parks the member without one (queue-worker.js, standard-adapter.js       *)
(* parkPendingHardware), and the sweep that grants to paying members who   *)
(* hold no door.                                                           *)
(*                                                                         *)
(* The row of a park is under no plan: the resolver's mappings do not say  *)
(* theirs (plan-mapping-resolver.js).  So no grant turns it into the       *)
(* plan's row, it is never taken away here, and a saved plan mapping,      *)
(* which would queue the members parked under its plan, finds nobody and   *)
(* is no action below.                                                     *)
(*                                                                         *)
(* One plan is followed.  The alert rows validateApiKeyGroups writes after *)
(* a key is changed are left out, and with them a key Kisi refuses.        *)
(***************************************************************************)
EXTENDS Integers, FiniteSets

CONSTANTS
  Parties,       \* buyers of the plan
  Platforms,     \* door systems a connector row can name
  Kisi,          \* the one a row is made for when there is none
  KeyTries,      \* attempts of a job
  MaxKeyEdits,   \* bound: keys saved, platforms named and renewals
  KeySlips,      \* bound: restarts of the process that serves the pages
  Gyms           \* the scenarios: [others, named]; others: members
                 \* with doors of another plan; named: platforms an admin
                 \* names beside the gym's own

ASSUME KeyAssumption ==
  /\ Kisi \in Platforms
  /\ KeyTries \in Nat \ {0} /\ MaxKeyEdits \in Nat /\ KeySlips \in Nat
  /\ \A g \in Gyms : g.others \subseteq Parties /\ g.named \subseteq Platforms

VARIABLES
  gym,       \* the scenario
  conn,      \* platform |-> none, bare (a row without a key) or keyed
  buyers,    \* members whose order is paid
  parked,    \* members with a row that waits for a key, under no plan
  recorded,  \* members whose row under the plan is active
  door,      \* members who hold the plan's door in Kisi
  queue,     \* jobs: [who, kind, tries]
  runs,      \* jobs at work: [who, does], does being park, give or record
  letters,   \* jobs given up, on the errors page
  toRetry,   \* members a page selected and has not queued yet
  keyEdits, slips

gymkeyVars == <<gym, conn, buyers, parked, recorded, door, queue, runs, letters, toRetry, keyEdits, slips>>

Others == gym.others                       \* they hold a door anyway
Rows   == {p \in Platforms : conn[p] # "none"}
Keyed  == {p \in Rows : conn[p] = "keyed"}

Task(m, kind) == [who |-> m, kind |-> kind, tries |-> 0]
Run(m, does) == [who |-> m, does |-> does]

-----------------------------------------------------------------------------
(* The key.                                                                *)

Edit == keyEdits < MaxKeyEdits /\ keyEdits' = keyEdits + 1

(* The row a save writes: that of the platform of some active row, LIMIT 1 *)
(* without an order, or a new one.                                         *)
SaveTargets == IF Rows = {} THEN {Kisi} ELSE Rows

(* The upsert that all five routes run.                                    *)
KeyUpsert ==
  /\ Edit
  /\ \E p \in SaveTargets : conn' = [conn EXCEPT ![p] = "keyed"]

(* POST, PUT and location key routes of operator.js; the parked members,   *)
(* of whatever plan, are read after the save.                              *)
OperatorSaves ==
  /\ KeyUpsert
  /\ toRetry' = toRetry \cup parked
  /\ UNCHANGED <<gym, buyers, parked, recorded, door, queue, runs, letters, slips>>

(* clients.js: the admin's two key routes, and nobody is queued.           *)
AdminSaves ==
  /\ KeyUpsert
  /\ UNCHANGED <<gym, buyers, parked, recorded, door, queue, runs, letters, toRetry, slips>>

(* clients.js: a platform is named; its row is made without a key.         *)
AdminNamesPlatform ==
  /\ Edit
  /\ \E p \in gym.named : conn[p] = "none" /\ conn' = [conn EXCEPT ![p] = "bare"]
  /\ UNCHANGED <<gym, buyers, parked, recorded, door, queue, runs, letters, toRetry, slips>>

(* retryPendingHardwareMembers: one job after the other, with no trace id. *)
QueuesRetry(m) ==
  /\ m \in toRetry
  /\ toRetry' = toRetry \ {m}
  /\ queue' = queue \cup {Task(m, "retry.pending_hardware")}
  /\ UNCHANGED <<gym, conn, buyers, parked, recorded, door, runs, letters, keyEdits, slips>>

Restarts ==
  /\ slips < KeySlips /\ slips' = slips + 1
  /\ toRetry # {} /\ toRetry' = {}
  /\ UNCHANGED <<gym, conn, buyers, parked, recorded, door, queue, runs, letters, keyEdits>>

-----------------------------------------------------------------------------
(* The orders.                                                             *)

Buys(m) ==
  /\ m \notin buyers /\ buyers' = buyers \cup {m}
  /\ queue' = queue \cup {Task(m, "plan.purchased")}
  /\ UNCHANGED <<gym, conn, parked, recorded, door, runs, letters, toRetry, keyEdits, slips>>

Renews(m) ==
  /\ m \in buyers \cap door /\ Edit
  /\ queue' = queue \cup {Task(m, "plan.purchased")}
  /\ UNCHANGED <<gym, conn, buyers, parked, recorded, door, runs, letters, toRetry, slips>>

-----------------------------------------------------------------------------
(* The jobs.                                                               *)

(* withMemberLock: one job of a member at a time.                          *)
Free(m) == \A r \in runs : r.who # m

(* processJob throws before anything else when the event names no trace;   *)
(* only the retry of a parked member names none.                           *)
Traced(t) == t.kind # "retry.pending_hardware"

(* Thrown, tried again, and at the last attempt given up: an error row     *)
(* that is not grantable again, its event type being no known one.         *)
Throws(t) ==
  /\ t \in queue /\ ~Traced(t)
  /\ IF t.tries + 1 < KeyTries
     THEN /\ queue' = (queue \ {t}) \cup {[t EXCEPT !.tries = @ + 1]}
          /\ UNCHANGED letters
     ELSE /\ queue' = queue \ {t}
          /\ letters' = letters \cup {t.who}
  /\ UNCHANGED <<gym, conn, buyers, parked, recorded, door, runs, toRetry, keyEdits, slips>>

(* getClientApiKey: some active row, LIMIT 1 without an order, has a key   *)
(* or has none.                                                            *)
Found == {conn[p] = "keyed" : p \in SaveTargets}

(* The job takes the member's lock and reads the key.                      *)
Reads(t) ==
  /\ t \in queue /\ Traced(t) /\ Free(t.who)
  /\ \E finds \in Found : runs' = runs \cup {Run(t.who, IF finds THEN "give" ELSE "park")}
  /\ queue' = queue \ {t}
  /\ UNCHANGED <<gym, conn, buyers, parked, recorded, door, letters, toRetry, keyEdits, slips>>

(* parkPendingHardware: a row of its own, beside the plan's.               *)
Parks(m) ==
  /\ Run(m, "park") \in runs
  /\ parked' = parked \cup {m}
  /\ runs' = runs \ {Run(m, "park")}
  /\ UNCHANGED <<gym, conn, buyers, recorded, door, queue, letters, toRetry, keyEdits, slips>>

(* The role, then the plan's row; a row of a park stays beside it.         *)
Opens(m) ==
  /\ Run(m, "give") \in runs
  /\ door' = door \cup {m}
  /\ runs' = (runs \ {Run(m, "give")}) \cup {Run(m, "record")}
  /\ UNCHANGED <<gym, conn, buyers, parked, recorded, queue, letters, toRetry, keyEdits, slips>>

Records(m) ==
  /\ Run(m, "record") \in runs
  /\ recorded' = recorded \cup {m}
  /\ runs' = runs \ {Run(m, "record")}
  /\ UNCHANGED <<gym, conn, buyers, parked, door, queue, letters, toRetry, keyEdits, slips>>

-----------------------------------------------------------------------------
(* The sweep, with the key of each row that has one: a paying member whose *)
(* Kisi user holds no door, of whatever plan, is granted every plan.       *)

(* A mutant of Unserved: the rows are asked instead of Kisi.               *)
UnservedByRow == {m \in buyers : m \notin recorded \cup parked}

Unserved == {m \in buyers : m \notin Others \cup door}

Sweeps ==
  /\ Keyed # {}
  /\ queue' = queue \cup {Task(m, "plan.purchased") : m \in Unserved}
  /\ queue' # queue
  /\ UNCHANGED <<gym, conn, buyers, parked, recorded, door, runs, letters, toRetry, keyEdits, slips>>

-----------------------------------------------------------------------------
KeyInit ==
  /\ gym \in Gyms
  /\ conn = [p \in Platforms |-> "none"]
  /\ buyers = {} /\ parked = {} /\ recorded = {} /\ door = {}
  /\ queue = {} /\ runs = {}
  /\ letters = {} /\ toRetry = {} /\ keyEdits = 0 /\ slips = 0

Works(m) == Parks(m) \/ Opens(m) \/ Records(m)

KeyNext ==
  \/ OperatorSaves \/ AdminSaves \/ AdminNamesPlatform \/ Restarts
  \/ Sweeps
  \/ \E m \in Parties : Buys(m) \/ Renews(m) \/ QueuesRetry(m) \/ Works(m)
  \/ \E t \in queue : Throws(t) \/ Reads(t)

(* The queue's workers run, a page that is not killed finishes, the sweep  *)
(* is a timer.  Nobody has to buy or to save a key.                        *)
KeyFairness ==
  /\ WF_gymkeyVars(\E t \in queue : Throws(t) \/ Reads(t))
  /\ \A m \in Parties : WF_gymkeyVars(QueuesRetry(m)) /\ WF_gymkeyVars(Works(m))
  /\ WF_gymkeyVars(Sweeps)

KeySpec == KeyInit /\ [][KeyNext]_gymkeyVars /\ KeyFairness

-----------------------------------------------------------------------------
(* Types, and no park after the door: while no platform is named beside    *)
(* the gym's own, no job is about to park a member who holds the door, and *)
(* whoever holds it has the plan's row or a job that is writing it,        *)
(* whatever reads of the key cross its saving.  A row parked later would   *)
(* be one no cancel deletes, and to the cancel another source of the door. *)
KeyTypeOK ==
  /\ gym \in Gyms
  /\ conn \in [Platforms -> {"none", "bare", "keyed"}]
  /\ parked \subseteq Parties /\ recorded \subseteq Parties
  /\ runs \subseteq [who : Parties, does : {"park", "give", "record"}]
  /\ buyers \subseteq Parties /\ door \subseteq Parties /\ letters \subseteq Parties
  /\ toRetry \subseteq Parties /\ keyEdits \in 0..MaxKeyEdits /\ slips \in 0..KeySlips
  /\ \A t \in queue : t.who \in Parties /\ t.tries \in 0..KeyTries - 1

ParkedIsOut ==
  KeyTypeOK /\ (gym.named = {} =>
    \A m \in door : Run(m, "park") \notin runs /\ (m \in recorded \/ Run(m, "record") \in runs))

(* A member who bought before the key was there, and has no other door,    *)
(* gets in once every connector row has one: the sweep finds them, whoever *)
(* saved the key and whatever became of the retry; and once in they are    *)
(* not parked again.                                                       *)
AllKeyed == Rows # {} /\ Rows = Keyed

ParkedGetsIn == []ParkedIsOut /\ (<>[]AllKeyed => []<>(buyers \ Others \subseteq door))

(* operator.js: the members parked when the operator saves the key get in, *)
(* those with doors of another plan too.                                   *)
RetriedGetsIn ==
  \A m \in Parties : <>[]AllKeyed => [](m \in toRetry => <>(m \in door))
=============================================================================
