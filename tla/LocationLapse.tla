--------------------------- MODULE LocationLapse ---------------------------
(***************************************************************************)
(* Places whose own subscription lapses and comes back: who loses the      *)
(* doors, and who is turned on again (core/location-lapse.js, the suspend  *)
(* and activate routes of admin/routes/operator.js and clients.js, and the *)
(* two transactions of adapters/standard-adapter.js), beside the payment   *)
(* jobs of the same members.                                               *)
(*                                                                         *)
(* Kisi knows a person enabled or disabled, everywhere at once.            *)
(***************************************************************************)
EXTENDS Integers, FiniteSets

CONSTANTS
  Places,
  Patrons,           \* members of the gym
  Everyone,          \* the alert of a run that could not begin
  PlaceRequests,     \* requests and background runs open at once
  PlaceScenarios

PlaceOps    == {"suspended", "cancelled", "activate", "patch"}
PlaceFaults == {"kisi", "db", "crash", "key", "read", "job"}
PaymentKinds == {"decline", "recover", "purchase"}

(* Where each patron has a row, what the operator does and how often, what *)
(* Wix does, and the faults.                                               *)
PlaceScenario ==
  [home : SUBSET (Patrons \X Places), ops : SUBSET PlaceOps, asks : Nat, payments : SUBSET PaymentKinds, moves : Nat,
   faults : Nat, kinds : SUBSET PlaceFaults]

ASSUME LocationLapseAssumption ==
  /\ Everyone \notin Patrons
  /\ PlaceScenarios \subseteq PlaceScenario

VARIABLES
  billing,      \* place |-> billing_subscriptions.status
  patron,       \* patron |-> [access, enabled]: the access row and Kisi's flag
  placeRow,     \* patron |-> place |-> the source row's status and reason
  declinedLast, \* patrons whose newest entry of the two is 'disabled', not 'location_suspended'
  owes,         \* patrons whose payment failed and who have not paid since
  placeJob,     \* patron |-> the job of theirs that runs, and its step
  placeReq,     \* request |-> where it stands
  placeAlerts,  \* open alerts: [who, place]
  placeLeft,    \* the scenario, with what of it may still happen
  placeHappened

placeVars == <<billing, patron, placeRow, declinedLast, owes, placeJob, placeReq, placeAlerts, placeLeft, placeHappened>>
-----------------------------------------------------------------------------
(* rollupAccessStatus *)
Rolled(m, rows) == IF \E l \in Places : rows[l] = "active" THEN "active" ELSE "inactive"

NoPlaceJob == [kind |-> "none", step |-> "idle", place |-> "none"]
NoPlaceReq == [op |-> "none", step |-> "idle", place |-> "none", todo |-> {}]

LapseInit ==
  /\ placeLeft \in PlaceScenarios
  /\ billing = [l \in Places |-> "active"]
  /\ placeRow = [m \in Patrons |-> [l \in Places |-> IF <<m, l>> \in placeLeft.home THEN "active" ELSE "none"]]
  /\ patron = [m \in Patrons |-> [access |-> Rolled(m, placeRow[m]), enabled |-> TRUE]]
  /\ declinedLast = {} /\ owes = {}
  /\ placeJob = [m \in Patrons |-> NoPlaceJob]
  /\ placeReq = [r \in PlaceRequests |-> NoPlaceReq]
  /\ placeAlerts = {}
  /\ placeHappened = {}

Mishap(f) ==
  /\ f \in placeLeft.kinds /\ placeLeft.faults > 0
  /\ placeLeft' = [placeLeft EXCEPT !.faults = @ - 1]
  /\ placeHappened' = placeHappened \cup {f}
Uneventful == UNCHANGED <<placeLeft, placeHappened>>

ledger == <<billing, owes, placeJob>>
people == <<patron, placeRow, declinedLast>>

(* A mutant of Writes: no rollup.                                          *)
WritesOnly(m, rows) == placeRow' = [placeRow EXCEPT ![m] = rows] /\ UNCHANGED patron

(* A transaction on the rows of one member ends with the rollup.           *)
Writes(m, rows) ==
  /\ placeRow' = [placeRow EXCEPT ![m] = rows]
  /\ patron' = [patron EXCEPT ![m].access = Rolled(m, rows)]

(* suspendAccess and enableAccess                                          *)
Switches(m, on) == patron' = [patron EXCEPT ![m].enabled = on] /\ UNCHANGED placeRow

(* A run has this member on its list still.                                *)
OnList(r, m) == \E e \in placeReq[r].todo : e.who = m

Calls(r, op, l) ==
  /\ placeReq[r] = NoPlaceReq /\ op \in placeLeft.ops /\ placeLeft.asks > 0
  /\ \E h \in placeLeft.home : h[2] = l
  /\ placeLeft' = [placeLeft EXCEPT !.asks = @ - 1]
  /\ UNCHANGED placeHappened
NextMember(r, e)      == placeReq' = [placeReq EXCEPT ![r].todo = @ \ {e}, ![r].step = "each"]
Closes(r)        == placeReq' = [placeReq EXCEPT ![r] = NoPlaceReq]
Opens(r, op, step, l, todo) ==
  placeReq' = [placeReq EXCEPT ![r] = [op |-> op, step |-> step, place |-> l, todo |-> todo]]

-----------------------------------------------------------------------------
(* suspendLocationMembers: a cancelled place is left alone; otherwise the  *)
(* members with an active row there are read ...                           *)
Entry(m, held, access) == [who |-> m, held |-> held, access |-> access]

Suspend(r, l, target) ==
  /\ Calls(r, target, l)
  /\ target \in {"suspended", "cancelled"}
  /\ billing[l] # "cancelled"
  /\ Opens(r, target, "each", l, {Entry(m, FALSE, "active") : m \in
         {p \in Patrons : placeRow[p][l] = "active" /\ patron[p].access \in {"active", "in_flight"}}})
  /\ UNCHANGED <<ledger, people, placeAlerts>>

(* ... one by one switched off in Kisi; whoever fails there is only        *)
(* counted ...                                                             *)
SwitchesOff(r, e) ==
  /\ placeReq[r].op \in {"suspended", "cancelled"} /\ placeReq[r].step = "each" /\ e \in placeReq[r].todo
  /\ \/ /\ Uneventful
        /\ Switches(e.who, FALSE)
        /\ placeReq' = [placeReq EXCEPT ![r].step = "mark", ![r].todo = (@ \ {e}) \cup {[e EXCEPT !.access = "hand"]}]
     \/ Mishap("kisi") /\ UNCHANGED <<patron, placeRow>> /\ NextMember(r, e)
  /\ UNCHANGED <<ledger, declinedLast, placeAlerts>>

Marked(m, l) == [placeRow[m] EXCEPT ![l] = IF @ = "active" THEN "lapse" ELSE @]

(* ... and marked, with an entry 'location_suspended' in the log; a job or *)
(* an activation may have come between.                                    *)
MarksLapse(r, e) ==
  /\ placeReq[r].step = "mark" /\ e \in placeReq[r].todo /\ e.access = "hand"
  /\ LET m == e.who
     IN  \/ /\ Writes(m, Marked(m, placeReq[r].place))
            /\ declinedLast' = declinedLast \ {m}
            /\ placeHappened' = IF placeJob[m] # NoPlaceJob THEN placeHappened \cup {"overtaken"} ELSE placeHappened
            /\ UNCHANGED placeLeft
         \/ Mishap("db") /\ UNCHANGED people
  /\ NextMember(r, e)
  /\ UNCHANGED <<ledger, placeAlerts>>

(* The subscription's status is written last, whatever became of them.     *)
SuspendEnds(r) ==
  /\ placeReq[r].op \in {"suspended", "cancelled"} /\ placeReq[r].step = "each" /\ placeReq[r].todo = {}
  /\ billing' = [billing EXCEPT ![placeReq[r].place] = placeReq[r].op]
  /\ Closes(r)
  /\ Uneventful
  /\ UNCHANGED <<people, owes, placeJob, placeAlerts>>

(* POST .../activate answers at once, and turns people on in the           *)
(* background; PATCH sets the status and nothing else.                     *)
Activate(r, l) ==
  /\ Calls(r, "activate", l)
  /\ billing' = [billing EXCEPT ![l] = "active"]
  /\ Opens(r, "activate", "list", l, {})
  /\ UNCHANGED <<people, owes, placeJob, placeAlerts>>
PatchActive(r, l) ==
  /\ Calls(r, "patch", l) /\ billing[l] # "active"
  /\ billing' = [billing EXCEPT ![l] = "active"]
  /\ placeLeft' = [placeLeft EXCEPT !.asks = @ - 1]
  /\ UNCHANGED <<people, owes, placeJob, placeReq, placeAlerts>>

(* payment_failed_since_lapse                                              *)
Held(m) == m \in declinedLast

(* reactivateLocationMembers: who is marked, with what is so of them now.  *)
Lists(r) ==
  /\ placeReq[r].step = "list"
  /\ LET l      == placeReq[r].place
         marked == {m \in Patrons : placeRow[m][l] = "lapse"}
     IN  \/ marked = {} /\ Closes(r) /\ UNCHANGED placeAlerts /\ Uneventful
         \/ /\ marked # {}
            /\ placeReq' = [placeReq EXCEPT ![r].step = "each",
                                            ![r].todo = {Entry(m, Held(m), patron[m].access) : m \in marked}]
            /\ placeAlerts' = placeAlerts \ {[who |-> Everyone, place |-> l]}
            /\ Uneventful
         \/ /\ marked # {} /\ Mishap("key") /\ Closes(r)
            /\ placeAlerts' = placeAlerts \cup {[who |-> Everyone, place |-> l]}
         \/ Mishap("read") /\ Closes(r) /\ UNCHANGED placeAlerts
  /\ UNCHANGED <<ledger, people>>

(* Held since the payment failed, or skipped, and alerted, while a job has *)
(* the member.                                                             *)
Passes(r, e) ==
  /\ placeReq[r].op = "activate" /\ placeReq[r].step = "each" /\ e \in placeReq[r].todo
  /\ e.held \/ e.access = "in_flight"
  /\ placeAlerts' = IF e.held THEN placeAlerts ELSE placeAlerts \cup {[who |-> e.who, place |-> placeReq[r].place]}
  /\ NextMember(r, e)
  /\ Uneventful
  /\ UNCHANGED <<ledger, people>>

SwitchesOn(r, e) ==
  /\ placeReq[r].op = "activate" /\ placeReq[r].step = "each" /\ e \in placeReq[r].todo
  /\ ~e.held /\ e.access \in {"active", "inactive"}
  /\ \/ /\ Switches(e.who, TRUE)
        /\ placeReq' = [placeReq EXCEPT ![r].step = "restore", ![r].todo = (@ \ {e}) \cup {[e EXCEPT !.access = "hand"]}]
        /\ placeHappened' = IF \E q \in PlaceRequests \ {r} : OnList(q, e.who) THEN placeHappened \cup {"overtaken"} ELSE placeHappened
        /\ UNCHANGED <<placeLeft, placeAlerts>>
     \/ /\ Mishap("kisi") /\ UNCHANGED <<patron, placeRow>>
        /\ placeAlerts' = placeAlerts \cup {[who |-> e.who, place |-> placeReq[r].place]}
        /\ NextMember(r, e)
  /\ UNCHANGED <<ledger, declinedLast>>

Restored(m, l) == [placeRow[m] EXCEPT ![l] = IF @ = "lapse" THEN "active" ELSE @]

Restores(r, e) ==
  /\ placeReq[r].step = "restore" /\ e \in placeReq[r].todo /\ e.access = "hand"
  /\ LET alert == [who |-> e.who, place |-> placeReq[r].place]
     IN  \/ /\ Uneventful
            /\ Writes(e.who, Restored(e.who, placeReq[r].place))
            /\ placeAlerts' = placeAlerts \ {alert}
         \/ /\ Mishap("db") /\ UNCHANGED <<patron, placeRow>>
            /\ placeAlerts' = placeAlerts \cup {alert}
  /\ NextMember(r, e)
  /\ UNCHANGED <<ledger, declinedLast>>

ActivateEnds(r) ==
  /\ placeReq[r].op = "activate" /\ placeReq[r].step = "each" /\ placeReq[r].todo = {}
  /\ Closes(r)
  /\ Uneventful
  /\ UNCHANGED <<ledger, people, placeAlerts>>

(* The admin process dies, and with it the loop.                           *)
Dies(r) ==
  /\ placeReq[r] # NoPlaceReq
  /\ Mishap("crash")
  /\ Closes(r)
  /\ UNCHANGED <<ledger, people, placeAlerts>>

-----------------------------------------------------------------------------
(* The jobs of the members, one at a time for each (the member lock).      *)
Pays(m, kind, l) ==
  /\ kind \in placeLeft.payments /\ placeLeft.moves > 0
  /\ placeJob[m] = NoPlaceJob
  /\ \E h \in placeLeft.home : h[1] = m
  /\ placeLeft' = [placeLeft EXCEPT !.moves = @ - 1]
  /\ placeJob' = [placeJob EXCEPT ![m] = [kind |-> kind, step |-> "lock", place |-> l]]
  /\ UNCHANGED placeHappened

Declines(m) ==
  /\ m \notin owes
  /\ Pays(m, "decline", "none")
  /\ owes' = owes \cup {m}
  /\ UNCHANGED <<billing, people, placeReq, placeAlerts>>
Recovers(m) ==
  /\ m \in owes
  /\ Pays(m, "recover", "none")
  /\ owes' = owes \ {m}
  /\ UNCHANGED <<billing, people, placeReq, placeAlerts>>
(* A plan of a place whose subscription is active when it is looked up     *)
(* (plan-mapping-resolver); at a lapsed one the job parks.                 *)
Purchases(m, l) ==
  /\ billing[l] = "active" /\ <<m, l>> \in placeLeft.home
  /\ Pays(m, "purchase", l)
  /\ owes' = owes \ {m}
  /\ UNCHANGED <<billing, people, placeReq, placeAlerts>>

Locks(m) ==
  /\ placeJob[m].step = "lock"
  /\ patron' = [patron EXCEPT ![m].access = "in_flight"]
  /\ placeJob' = [placeJob EXCEPT ![m].step = "kisi"]
  /\ Uneventful
  /\ UNCHANGED <<billing, placeRow, declinedLast, owes, placeReq, placeAlerts>>
CallsKisi(m) ==
  /\ placeJob[m].step = "kisi"
  /\ patron' = [patron EXCEPT ![m].enabled = IF placeJob[m].kind = "purchase" THEN @ ELSE placeJob[m].kind = "recover"]
  /\ declinedLast' = IF placeJob[m].kind = "decline" THEN declinedLast \cup {m} ELSE declinedLast
  /\ placeJob' = [placeJob EXCEPT ![m].step = "complete"]
  /\ placeHappened' = IF \E r \in PlaceRequests : OnList(r, m) THEN placeHappened \cup {"overtaken"} ELSE placeHappened
  /\ UNCHANGED placeLeft
  /\ UNCHANGED <<billing, placeRow, owes, placeReq, placeAlerts>>
(* completeRevoke and completeGrant: a recovery makes every failed row     *)
(* active, for whatever reason it failed.                                  *)
Completes(m) ==
  /\ placeJob[m].step = "complete"
  /\ Writes(m, [l \in Places |->
       CASE placeJob[m].kind = "decline" -> IF placeRow[m][l] = "active" THEN "failed" ELSE placeRow[m][l]
         [] placeJob[m].kind = "recover" -> IF placeRow[m][l] \in {"failed", "lapse"} THEN "active" ELSE placeRow[m][l]
         [] OTHER -> IF l = placeJob[m].place THEN "active" ELSE placeRow[m][l]])
  /\ placeJob' = [placeJob EXCEPT ![m] = NoPlaceJob]
  /\ Uneventful
  /\ UNCHANGED <<billing, declinedLast, owes, placeReq, placeAlerts>>

(* A job that fails for good leaves the row in_flight, until the sweep     *)
(* rolls it up.                                                            *)
JobFails(m) ==
  /\ placeJob[m].step = "kisi"
  /\ Mishap("job")
  /\ placeJob' = [placeJob EXCEPT ![m] = NoPlaceJob]
  /\ UNCHANGED <<billing, people, owes, placeReq, placeAlerts>>
SweepRolls(m) ==
  /\ patron[m].access = "in_flight" /\ placeJob[m] = NoPlaceJob
  /\ Writes(m, placeRow[m])
  /\ Uneventful
  /\ UNCHANGED <<ledger, declinedLast, placeReq, placeAlerts>>

-----------------------------------------------------------------------------
Background(r) ==
  \/ \E e \in placeReq[r].todo : SwitchesOff(r, e) \/ MarksLapse(r, e) \/ Passes(r, e) \/ SwitchesOn(r, e) \/ Restores(r, e)
  \/ SuspendEnds(r) \/ Lists(r) \/ ActivateEnds(r)
JobGoes(m) == Locks(m) \/ CallsKisi(m) \/ Completes(m)

LapseNext ==
  \/ \E r \in PlaceRequests, l \in Places :
       Suspend(r, l, "suspended") \/ Suspend(r, l, "cancelled") \/ Activate(r, l) \/ PatchActive(r, l)
  \/ \E r \in PlaceRequests : Background(r) \/ Dies(r)
  \/ \E m \in Patrons : Declines(m) \/ Recovers(m) \/ JobGoes(m) \/ JobFails(m) \/ SweepRolls(m) \/ \E l \in Places : Purchases(m, l)

LapseSpec == LapseInit /\ [][LapseNext]_placeVars
-----------------------------------------------------------------------------
AllQuiet(m) == placeJob[m] = NoPlaceJob /\ \A r \in PlaceRequests : placeReq[r] = NoPlaceReq

(* Types; and once nothing runs, the access row says what the rows say,    *)
(* whatever transactions crossed (standard-adapter.js, rollupAccessStatus).*)
PlaceTypeOK ==
  /\ billing \in [Places -> {"active", "suspended", "cancelled"}]
  /\ placeRow \in [Patrons -> [Places -> {"none", "active", "lapse", "failed"}]]
  /\ patron \in [Patrons -> [access : {"active", "inactive", "in_flight"}, enabled : BOOLEAN]]
  /\ placeAlerts \subseteq [who : Patrons \cup {Everyone}, place : Places]
  /\ \A m \in Patrons : AllQuiet(m) /\ "job" \notin placeHappened => patron[m].access = Rolled(m, placeRow[m])

(* Whom a lapse marked has no doors while the place is lapsed, unless the  *)
(* database or the process failed between Kisi and the mark, or a job came *)
(* there; for a patron of one place.                                       *)
LapsedIsShut ==
  \A m \in Patrons, l \in Places :
    placeRow[m][l] = "lapse" /\ billing[l] # "active" /\ AllQuiet(m) /\ placeHappened \cap {"db", "crash", "overtaken"} = {}
      => ~patron[m].enabled

(* Who is still out after the place was activated has an open alert, or    *)
(* owes money; a process that dies, a list that cannot be read and a PATCH *)
(* say nothing.                                                            *)
StillOutIsAlerted ==
  \A m \in Patrons, l \in Places :
    /\ placeRow[m][l] = "lapse" /\ billing[l] = "active" /\ AllQuiet(m)
    /\ placeHappened \cap {"crash", "read"} = {} /\ "patch" \notin placeLeft.ops
    => m \in declinedLast \/ \E a \in placeAlerts : a.place = l /\ a.who \in {m, Everyone}

(* Activating a place turns nobody on whose payment failed, if no job of   *)
(* theirs crosses a run or fails.                                          *)
DeclinedStaysOut ==
  \A m \in Patrons : m \in owes /\ AllQuiet(m) /\ placeHappened \cap {"overtaken", "job"} = {} => ~patron[m].enabled

(* The four together: a lapse shuts out whom it marks, and an activation   *)
(* brings back everyone it marked but those whose payment failed, or says  *)
(* whom it did not.                                                        *)
PlacesHold == PlaceTypeOK /\ LapsedIsShut /\ StillOutIsAlerted /\ DeclinedStaysOut
-----------------------------------------------------------------------------
(* What makes PlacesHold inductive, for patrons of one place each.         *)

Clean(fs)     == placeHappened \cap fs = {}
Suspends(r)   == placeReq[r].op \in {"suspended", "cancelled"}
Activates(r)  == placeReq[r].op = "activate"
InHand(r, m)  == \E e \in placeReq[r].todo : e.who = m /\ e.access = "hand"
Unheld(r, m)  == \E e \in placeReq[r].todo : e.who = m /\ ~e.held

PlaceEntry == [who : Patrons, held : BOOLEAN, access : {"active", "inactive", "in_flight", "hand"}]

LapseTypes ==
  /\ billing \in [Places -> {"active", "suspended", "cancelled"}]
  /\ placeRow \in [Patrons -> [Places -> {"none", "active", "lapse", "failed"}]]
  /\ patron \in [Patrons -> [access : {"active", "inactive", "in_flight"}, enabled : BOOLEAN]]
  /\ placeAlerts \subseteq [who : Patrons \cup {Everyone}, place : Places]
  /\ placeJob \in [Patrons -> [kind : PaymentKinds \cup {"none"}, step : {"idle", "lock", "kisi", "complete"},
                               place : Places \cup {"none"}]]
  /\ placeReq \in [PlaceRequests -> [op : PlaceOps \cup {"none"}, place : Places \cup {"none"},
                                     step : {"idle", "list", "each", "mark", "restore"}, todo : SUBSET PlaceEntry]]
  /\ placeLeft \in PlaceScenario

(* A request is where its kind can be, with entries of its place's own.    *)
RequestsFit ==
  \A r \in PlaceRequests :
    /\ placeReq[r] = NoPlaceReq \/ Suspends(r) \/ Activates(r)
    /\ placeReq[r] # NoPlaceReq => placeReq[r].place \in Places /\ placeReq[r].step # "idle"
    /\ placeReq[r].step \in {"list", "restore"} => Activates(r)
    /\ placeReq[r].step = "mark" => Suspends(r)
    /\ placeReq[r].step = "list" => placeReq[r].todo = {}
    /\ \A e \in placeReq[r].todo : /\ <<e.who, placeReq[r].place>> \in placeLeft.home
                                   /\ Activates(r) /\ e.access = "hand" => ~e.held

RowsFit ==
  \A m \in Patrons :
    /\ \A l \in Places : placeRow[m][l] # "none" => <<m, l>> \in placeLeft.home
    /\ placeJob[m].kind = "purchase" => <<m, placeJob[m].place>> \in placeLeft.home
    /\ placeJob[m] = NoPlaceJob \/ (placeJob[m].step # "idle" /\ placeJob[m].kind # "none")
    /\ m \in owes /\ placeJob[m] # NoPlaceJob => placeJob[m].kind = "decline"

RolledUp ==
  \A m \in Patrons : Clean({"job"}) /\ placeJob[m].step \in {"idle", "lock"}
                       => patron[m].access = Rolled(m, placeRow[m])

Lapsed(m) == \E l \in Places : placeRow[m][l] = "lapse"

(* Whom a lapse marked is on in Kisi only on the way to an active row.     *)
Shut(m) ==
  /\ \A r \in PlaceRequests : Suspends(r) /\ InHand(r, m) => ~patron[m].enabled
  /\ patron[m].enabled /\ Lapsed(m) =>
       \/ \E r \in PlaceRequests : Activates(r) /\ InHand(r, m)
       \/ placeJob[m].kind = "recover" /\ placeJob[m].step = "complete"

ShutWhileLapsed == Clean({"db", "crash", "overtaken"}) => \A m \in Patrons : Shut(m)

(* Who is marked at an active place is held, alerted about, or up to a run *)
(* that is still under way.                                                *)
Accounted(m, l) ==
  \/ m \in declinedLast
  \/ \E a \in placeAlerts : a.place = l /\ a.who \in {m, Everyone}
  \/ \E r \in PlaceRequests :
       /\ placeReq[r].place = l
       /\ Suspends(r) \/ (Activates(r) /\ (placeReq[r].step = "list" \/ Unheld(r, m)))

OutIsAccounted ==
  "patch" \notin placeLeft.ops /\ Clean({"crash", "read"}) =>
    \A m \in Patrons, l \in Places : placeRow[m][l] = "lapse" /\ billing[l] = "active" => Accounted(m, l)

(* From the moment Kisi knows of a failed payment, no run may undo it.     *)
DeclineDone(m) ==
  placeJob[m] = NoPlaceJob \/ (placeJob[m].kind = "decline" /\ placeJob[m].step = "complete")

KeptOut(m) ==
  /\ placeJob[m] = NoPlaceJob => \A l \in Places : placeRow[m][l] # "active"
  /\ DeclineDone(m) =>
       /\ ~patron[m].enabled
       /\ \A r \in PlaceRequests : Activates(r) => ~Unheld(r, m)
       /\ Lapsed(m) => m \in declinedLast /\ \A r \in PlaceRequests : Suspends(r) => ~OnList(r, m)

DeclinedIsHeld == Clean({"overtaken", "job"}) => \A m \in Patrons \cap owes : KeptOut(m)

LapseInv ==
  LapseTypes /\ RequestsFit /\ RowsFit /\ RolledUp /\ ShutWhileLapsed /\ OutIsAccounted /\ DeclinedIsHeld
=============================================================================
