--------------------------- MODULE LoginEmailSwap ---------------------------
(***************************************************************************)
(* A member changes the login e-mail in Wix (core/login-email-swap.js).    *)
(* Kisi cannot edit an e-mail: a new Kisi user is made, the doors are      *)
(* given to it, the records are moved in one transaction, and the old user *)
(* is deleted.  The job runs under the member lock, so beside it run only  *)
(* what takes no lock: a lapse of the location (core/location-lapse.js),   *)
(* an operator mapping a door (core/plan-door-sync.js), and staff in Kisi. *)
(* Between jobs a payment fails and recovers.                              *)
(***************************************************************************)
EXTENDS Integers, FiniteSets

CONSTANTS
  Emails,
  SwapDoors,
  FirstEmail,
  SwapScenarios

SwapFaults == {"create", "assign", "commit", "undo", "delete", "crash", "late_crash"}
Meanwhile  == {"lapse", "payment", "resume", "map", "staff"}

(* Changes of the login, what else goes on and how often, the faults;      *)
(* between: not while a swap runs; inOrder: no job overtakes another (a    *)
(* job that finds the member busy, or defers, is overtaken).               *)
SwapScenario ==
  [changes : Nat, verified : SUBSET BOOLEAN, user : BOOLEAN, else : SUBSET Meanwhile, times : Nat, between : BOOLEAN,
   inOrder : BOOLEAN,    faults : Nat, kinds : SUBSET SwapFaults]

ASSUME LoginEmailSwapAssumption ==
  /\ FirstEmail \in Emails
  /\ SwapScenarios \subseteq SwapScenario

VARIABLES
  login,       \* the member's login in Wix
  mail,        \* member_master.email
  hw,          \* member_access.hardware_user_id; 0: none
  row,         \* door |-> the source row: [st, of], of the user whose role it names
  users,       \* Kisi's users: id |-> [email, on, roles, ours], a function on 1 .. made
  gone,        \* users deleted
  swapped,     \* a swap is on record (member_access_log, 30 days)
  suspended,   \* the member is suspended: a lapse, or a failed payment
  swapJobs,    \* member.updated events: [email, ok, n]
  swapRun,     \* the job that runs
  mapping,     \* an operator's map of a door: [door, user] or none
  told,        \* dead letters, as [email, code]
  swapLeft,
  swapSeen

swapVars == <<login, mail, hw, row, users, gone, swapped, suspended, swapJobs, swapRun, mapping, told, swapLeft, swapSeen>>
-----------------------------------------------------------------------------
NoSwapJob == [email |-> FirstEmail, ok |-> TRUE, n |-> 0]
NoSwap    == [step |-> "idle", job |-> NoSwapJob, new |-> 0, todo |-> {}, move |-> {}, off |-> FALSE]
NoMap     == [door |-> "none", user |-> 0]

SwapInit ==
  /\ swapLeft \in SwapScenarios
  /\ login = FirstEmail /\ mail = FirstEmail
  /\ hw = IF swapLeft.user THEN 1 ELSE 0
  /\ \E own \in SUBSET SwapDoors :
       /\ row = [d \in SwapDoors |-> IF hw = 1 /\ d \in own THEN [st |-> "active", of |-> 1] ELSE [st |-> "none", of |-> 0]]
       /\ users = [i \in 1 .. hw |-> [email |-> FirstEmail, on |-> TRUE, roles |-> own, ours |-> TRUE]]
  /\ gone = {} /\ swapped = FALSE /\ suspended = FALSE
  /\ swapJobs = {} /\ swapRun = NoSwap /\ mapping = NoMap /\ told = {}
  /\ swapSeen = {}

SwapFault(f) ==
  /\ f \in swapLeft.kinds /\ swapLeft.faults > 0
  /\ swapLeft' = [swapLeft EXCEPT !.faults = @ - 1]
  /\ swapSeen' = swapSeen \cup {f}
Happens(f) ==
  /\ f \in swapLeft.else /\ swapLeft.times > 0
  /\ swapLeft.between => swapRun = NoSwap
  /\ swapLeft' = [swapLeft EXCEPT !.times = @ - 1]
  /\ swapSeen' = swapSeen \cup {f}
Fine == UNCHANGED <<swapLeft, swapSeen>>

records == <<mail, hw, row, swapped>>
atKisi  == <<users, gone>>
outside == <<login, suspended, mapping>>

Exists(u) == u \in DOMAIN users /\ u \notin gone
Named(e)  == {u \in DOMAIN users \ gone : users[u].email = e}
-----------------------------------------------------------------------------
(* The member, and Wix's member.updated webhook.                           *)
Changes(e, ok) ==
  /\ swapLeft.changes > 0 /\ e # login /\ ok \in swapLeft.verified
  /\ login' = e
  /\ swapLeft' = [swapLeft EXCEPT !.changes = @ - 1]
  /\ swapJobs' = swapJobs \cup {[email |-> e, ok |-> ok, n |-> swapLeft.changes]}
  /\ UNCHANGED <<records, atKisi, suspended, mapping, swapRun, told, swapSeen>>

(* A lapse of the location, or a payment that fails: the Kisi user is      *)
(* disabled, the rows are kept as failed.                                  *)
Suspended(rows) == [d \in SwapDoors |-> IF rows[d].st = "active" THEN [rows[d] EXCEPT !.st = "failed"] ELSE rows[d]]
Suspends(why) ==
  /\ ~suspended /\ Exists(hw) /\ Happens(why)
  /\ why = "payment" => swapRun = NoSwap
  /\ suspended' = TRUE
  /\ users' = [users EXCEPT ![hw].on = FALSE]
  /\ row' = Suspended(row)
  /\ UNCHANGED <<login, mail, hw, swapped, gone, mapping, swapJobs, swapRun, told>>

(* The location is active again, or the payment recovered.                 *)
Resumes ==
  /\ "resume" \in swapLeft.else
  /\ suspended /\ Exists(hw) /\ swapRun = NoSwap
  /\ suspended' = FALSE
  /\ users' = [users EXCEPT ![hw].on = TRUE]
  /\ row' = [d \in SwapDoors |-> IF row[d].st = "failed" THEN [row[d] EXCEPT !.st = "active"] ELSE row[d]]
  /\ Fine
  /\ UNCHANGED <<login, mail, hw, swapped, gone, mapping, swapJobs, swapRun, told>>

(* An operator maps a door: the role for the user as read, then the row.   *)
MapReads(d) ==
  /\ mapping = NoMap /\ row[d].st = "none" /\ Exists(hw) /\ ~suspended /\ Happens("map")
  /\ mapping' = [door |-> d, user |-> hw]
  /\ UNCHANGED <<login, suspended, records, atKisi, swapJobs, swapRun, told>>
MapGives ==
  /\ mapping # NoMap
  /\ mapping' = NoMap
  /\ IF Exists(mapping.user)
     THEN /\ users' = [users EXCEPT ![mapping.user].roles = @ \cup {mapping.door}]
          /\ row' = [row EXCEPT ![mapping.door] = [st |-> "active", of |-> mapping.user]]
     ELSE UNCHANGED <<users, row>>
  /\ Fine
  /\ UNCHANGED <<login, suspended, mail, hw, swapped, gone, swapJobs, swapRun, told>>

(* Staff take the user over: no mark of ours, or a role of an admin.       *)
StaffTakes ==
  /\ Exists(hw) /\ users[hw].ours /\ Happens("staff")
  /\ users' = [users EXCEPT ![hw].ours = FALSE]
  /\ UNCHANGED <<outside, records, gone, swapJobs, swapRun, told>>
-----------------------------------------------------------------------------
(* The job.                                                                *)

SwapEnds(j) == swapJobs' = swapJobs \ {j} /\ swapRun' = NoSwap /\ UNCHANGED told

(* A mutant of Tells: the job ends without a dead letter.                  *)
TellsNobody(j, code) == swapJobs' = swapJobs \ {j} /\ swapRun' = NoSwap /\ UNCHANGED told

(* SwapBlocked (409) is not retried: the job is a dead letter at once.     *)
Tells(j, code) == swapJobs' = swapJobs \ {j} /\ swapRun' = NoSwap /\ told' = told \cup {[email |-> j.email, code |-> code]}

(* What a person has to look at, before Kisi is asked.                     *)
Refused(j) == IF ~j.ok THEN "LOGIN_EMAIL_UNVERIFIED" ELSE IF hw # 0 /\ swapped THEN "LOGIN_EMAIL_RATE_LIMITED" ELSE "none"

(* The checks in the database: nothing to do, refused, only our copy of    *)
(* the e-mail to write, or on to Kisi.                                     *)
SwapStarts(j) ==
  /\ swapRun = NoSwap /\ j \in swapJobs
  /\ swapLeft.inOrder => \A i \in swapJobs : i.n <= j.n
  /\ IF mail = j.email THEN SwapEnds(j) /\ UNCHANGED mail
     ELSE IF Refused(j) # "none" THEN Tells(j, Refused(j)) /\ UNCHANGED mail
     ELSE IF hw = 0 THEN SwapEnds(j) /\ mail' = j.email
     ELSE swapRun' = [NoSwap EXCEPT !.step = "look", !.job = j] /\ UNCHANGED <<mail, swapJobs, told>>
  /\ Fine
  /\ UNCHANGED <<outside, atKisi, hw, row, swapped>>

(* Kisi: the new e-mail is free, the old user is ours; is it disabled?     *)
(* A login Kisi already has needs only our copy.                           *)
LooksUp ==
  LET j == swapRun.job
  IN  /\ swapRun.step = "look"
      /\ IF hw \in Named(j.email) THEN SwapEnds(j) /\ mail' = j.email
         ELSE IF Named(j.email) # {} THEN Tells(j, "LOGIN_EMAIL_IN_USE") /\ UNCHANGED mail
         ELSE IF Exists(hw) /\ ~users[hw].ours THEN Tells(j, "LOGIN_EMAIL_USER_NOT_OURS") /\ UNCHANGED mail
         ELSE swapRun' = [swapRun EXCEPT !.step = "rows", !.off = Exists(hw) /\ ~users[hw].on] /\ UNCHANGED <<mail, swapJobs, told>>
      /\ Fine
      /\ UNCHANGED <<outside, atKisi, hw, row, swapped>>

(* _groupsToMove: the doors of the rows that are active.                   *)
ToMove == {d \in SwapDoors : row[d].st = "active"}

ReadsRows ==
  /\ swapRun.step = "rows"
  /\ swapRun' = [swapRun EXCEPT !.step = "create", !.move = ToMove, !.todo = ToMove]
  /\ Fine
  /\ UNCHANGED <<outside, records, atKisi, swapJobs, told>>

Creates ==
  /\ swapRun.step = "create"
  /\ users' = [i \in 1 .. Cardinality(DOMAIN users) + 1 |->
                 IF i \in DOMAIN users THEN users[i] ELSE [email |-> swapRun.job.email, on |-> TRUE, roles |-> {}, ours |-> TRUE]]
  /\ swapRun' = [swapRun EXCEPT !.step = "assign", !.new = Cardinality(DOMAIN users) + 1]
  /\ Fine
  /\ UNCHANGED <<outside, records, gone, swapJobs, told>>

Assigns(d) ==
  /\ swapRun.step = "assign" /\ d \in swapRun.todo
  /\ users' = [users EXCEPT ![swapRun.new].roles = @ \cup {d}]
  /\ swapRun' = [swapRun EXCEPT !.todo = @ \ {d}]
  /\ Fine
  /\ UNCHANGED <<outside, records, gone, swapJobs, told>>

(* "A suspended member stays suspended": as the old user was when read.    *)
StaysOff == swapRun.off

SwitchesOff ==
  /\ swapRun.step = "assign" /\ swapRun.todo = {}
  /\ users' = IF StaysOff THEN [users EXCEPT ![swapRun.new].on = FALSE] ELSE users
  /\ swapRun' = [swapRun EXCEPT !.step = "commit"]
  /\ Fine
  /\ UNCHANGED <<outside, records, gone, swapJobs, told>>

Moved(rows) == [d \in SwapDoors |-> IF d \in swapRun.move THEN [rows[d] EXCEPT !.of = swapRun.new] ELSE rows[d]]

(* completeLoginEmailSwap: one transaction.                                *)
SwapCommits ==
  /\ swapRun.step = "commit"
  /\ row' = Moved(row)
  /\ mail' = swapRun.job.email /\ hw' = swapRun.new /\ swapped' = TRUE
  /\ swapRun' = [swapRun EXCEPT !.step = "delete", !.todo = {hw}]
  /\ Fine
  /\ UNCHANGED <<outside, atKisi, swapJobs, told>>

(* The guarded delete of the old user, with its roles.                     *)
DeletesOld ==
  /\ swapRun.step = "delete"
  /\ \A u \in swapRun.todo : Exists(u) => users[u].ours
  /\ gone' = gone \cup swapRun.todo
  /\ SwapEnds(swapRun.job)
  /\ Fine
  /\ UNCHANGED <<outside, records, users>>

(* The member has moved; the old user cannot be deleted.                   *)
KeepsOld(fault) ==
  /\ swapRun.step = "delete"
  /\ (IF fault THEN SwapFault("delete") ELSE Fine /\ \E u \in swapRun.todo : Exists(u) /\ ~users[u].ours)
  /\ Tells(swapRun.job, "LOGIN_EMAIL_OLD_USER_NOT_REMOVED")
  /\ UNCHANGED <<outside, records, atKisi>>

(* Before the commit every failure takes the new user back; a failure that *)
(* is not the member's to look at is retried.                              *)
SwapFails(f, undo) ==
  /\ swapRun.step = f
  /\ (IF undo THEN SwapFault(f) ELSE f # "create" /\ swapLeft.faults > 1 /\ {f, "undo"} \subseteq swapLeft.kinds
                                /\ swapLeft' = [swapLeft EXCEPT !.faults = @ - 2] /\ swapSeen' = swapSeen \cup {f, "undo"})
  /\ gone' = IF undo /\ f # "create" THEN gone \cup {swapRun.new} ELSE gone
  /\ swapRun' = NoSwap
  /\ UNCHANGED <<outside, records, users, swapJobs, told>>

(* The worker dies, before the commit or after: the job is run again.      *)
SwapCrash ==
  /\ swapRun # NoSwap
  /\ SwapFault(IF swapRun.step = "delete" THEN "late_crash" ELSE "crash")
  /\ swapRun' = NoSwap
  /\ UNCHANGED <<outside, records, atKisi, swapJobs, told>>
-----------------------------------------------------------------------------
SwapStep ==
  \/ \E j \in swapJobs : SwapStarts(j)
  \/ LooksUp \/ ReadsRows \/ Creates \/ SwitchesOff \/ SwapCommits \/ DeletesOld \/ KeepsOld(FALSE)
  \/ \E d \in SwapDoors : Assigns(d)

SwapNext ==
  \/ SwapStep
  \/ \E e \in Emails, ok \in BOOLEAN : Changes(e, ok)
  \/ \E why \in {"lapse", "payment"} : Suspends(why)
  \/ Resumes
  \/ \E d \in SwapDoors : MapReads(d)
  \/ MapGives \/ StaffTakes
  \/ KeepsOld(TRUE) \/ SwapCrash
  \/ \E f \in {"create", "assign", "commit"}, undo \in BOOLEAN : SwapFails(f, undo)

SwapSpec == SwapInit /\ [][SwapNext]_swapVars /\ WF_swapVars(SwapStep) /\ WF_swapVars(MapGives)
-----------------------------------------------------------------------------
SwapTypeOK ==
  /\ login \in Emails /\ mail \in Emails
  /\ hw \in 0 .. Cardinality(DOMAIN users) /\ gone \subseteq DOMAIN users
  /\ \A d \in SwapDoors : row[d].st \in {"none", "active", "failed"} /\ row[d].of \in 0 .. Cardinality(DOMAIN users)
  /\ \A u \in DOMAIN users : users[u].email \in Emails /\ users[u].roles \subseteq SwapDoors
  /\ swapped \in BOOLEAN /\ suspended \in BOOLEAN
  /\ swapRun.step \in {"idle", "look", "rows", "create", "assign", "commit", "delete"}
  /\ swapRun.step \in {"assign", "commit", "delete"} <=> swapRun.new # 0

Opens(d) == \E u \in DOMAIN users \ gone : users[u].on /\ d \in users[u].roles

(* At no step of a swap, finished, refused or undone, is a paying member   *)
(* without a door on record ("The member is never without access").        *)
NeverLockedOut == \A d \in SwapDoors : row[d].st = "active" /\ ~suspended => Opens(d)

(* The records name a user that is there, with the roles they say, and     *)
(* with the e-mail on record.                                              *)
RecordsNameTheUser ==
  /\ hw # 0 => Exists(hw) /\ users[hw].email = mail
  /\ \A d \in SwapDoors : row[d].st = "active" => row[d].of = hw /\ d \in users[hw].roles

(* The login of a suspended member is switched off, before the swap and    *)
(* after ("A suspended member stays suspended").                           *)
SuspendedStaysOut == suspended /\ hw # 0 => ~users[hw].on

(* At rest a member has one login that opens doors, or somebody was told.  *)
AtRest == swapRun = NoSwap /\ swapJobs = {} /\ mapping = NoMap
Strays == {u \in DOMAIN users \ gone : u # hw /\ users[u].roles # {}}
StraysAreTold == AtRest /\ Strays # {} => \E t \in told : t.code \in {"LOGIN_EMAIL_OLD_USER_NOT_REMOVED", "LOGIN_EMAIL_IN_USE"}

(* The login of a change in Wix becomes the one on record, or somebody is  *)
(* told.                                                                   *)
LoginFollows == []<>(mail = login \/ \E t \in told : t.email = login)

(* What a swap never does to a member.                                     *)
SwapHolds == SwapTypeOK /\ NeverLockedOut /\ RecordsNameTheUser /\ SuspendedStaysOut /\ StraysAreTold
=============================================================================
