---------------------------- MODULE HealthCheck ----------------------------
(***************************************************************************)
(* The six-hourly check of a gym's hardware key, doors and plans           *)
(* (core/hardware-health-check.js, started by admin/server.js).            *)
(*                                                                         *)
(* A run reads one row per location, all with the gym's only connector,    *)
(* and then visits the locations one by one: it tries the key, records the *)
(* outcome on the connector, mails the location, compares the mapped doors *)
(* with Kisi's groups and the mapped plans with Wix.  Operators, Kisi and  *)
(* grants change what it reads meanwhile.                                  *)
(*                                                                         *)
(* Time is counted in ticks.  Day is ESCALATION_WINDOW_MS and Period the   *)
(* interval of the scheduler; a run lasts at most Lag ticks.               *)
(***************************************************************************)
EXTENDS Integers, FiniteSetsExt

CONSTANTS
  Locs, Doors, WixPlans,  \* the gym's locations, mapped doors and mapped plans
  Keys, NoKey,            \* hardware keys
  Period, Day, Lag,
  MaxEdits, MaxMishaps    \* bounds: changes from outside, failures

ASSUME HealthAssumption ==
  /\ NoKey \notin Keys /\ Doors \cap WixPlans = {}
  /\ Period \in Nat \ {0} /\ Day \in Nat \ {0} /\ Lag \in Nat /\ Lag < Period
  /\ MaxEdits \in Nat /\ MaxMishaps \in Nat

Never == -1                  \* a NULL timestamp
Ages == Never .. Day         \* the age of a timestamp, as far as anyone asks
Older(age) == IF age = Never THEN Never ELSE Min({age + 1, Day})
Long == Day + Period + 2 * Lag + 3

VARIABLES
  key,        \* connector_subscriptions.hardware_api_key
  accepted,   \* Kisi: the keys it takes
  record,     \* the connector's key_last_error, key_first_failed_at, key_last_alerted_at
  groups,     \* Kisi: the groups of the doors
  mark,       \* plan_mapping_groups.health_status; "legacy" without a row
  archived,   \* Wix: the plans that are archived
  flagged,    \* plan_mappings.source_status = 'archived'
  due,        \* ticks until the scheduler starts a run
  check,      \* the run
  quiet,      \* history: 0, or how long a location with a bad key has had no mail, from 1
  apart,      \* history: ticks since the location's last mail, and whether it was stamped
  told,       \* history: doors and plans mailed while marked, and not cleared since
  bare,       \* history: the last step broke a promise about mails
  story,      \* bound: what is changed from outside in this behaviour
  edits, mishaps

keyVars == <<key, accepted>>
doorVars == <<groups, mark>>
planVars == <<archived, flagged>>
mailVars == <<quiet, apart, told, bare>>
healthVars == <<keyVars, record, doorVars, planVars, due, check, mailVars, story, edits, mishaps>>

Stories == {"key", "doors", "plans"}

Places == {"idle", "pick", "try", "mail", "stamp", "list", "compare", "write",
           "mail_doors", "plans", "mail_plans"}

HealthTypeOK ==
  /\ key \in Keys \cup {NoKey} /\ accepted \subseteq Keys
  /\ record \in [error : {"none", "network", "refused"}, failed : Ages, alerted : Ages]
  /\ groups \subseteq Doors /\ mark \in [Doors -> {"ok", "not_found", "legacy"}]
  /\ archived \subseteq WixPlans /\ flagged \subseteq WixPlans
  /\ due \in 0 .. Period
  /\ check.at \in Places /\ check.todo \subseteq Locs /\ check.lag \in 0 .. Lag
  /\ check.key \in Keys \cup {NoKey} /\ check.failed \in Ages /\ check.alerted \in Ages
  /\ check.listed \subseteq Doors /\ check.dead \subseteq Doors /\ check.back \subseteq Doors
  /\ check.doors \subseteq Doors /\ check.plans \subseteq WixPlans
  /\ quiet \in [Locs -> 0 .. Long]
  /\ apart \in [Locs -> [age : 0 .. Day, stamped : BOOLEAN]]
  /\ told \subseteq Doors \cup WixPlans /\ bare \in BOOLEAN
  /\ story \in Stories /\ edits \in 0 .. MaxEdits /\ mishaps \in 0 .. MaxMishaps

----------------------------------------------------------------------------
(* A run. *)

Idle(l) == [at |-> "idle", loc |-> l, todo |-> {}, lag |-> 0, key |-> NoKey,
            failed |-> Never, alerted |-> Never, listed |-> {}, dead |-> {},
            back |-> {}, doors |-> {}, plans |-> {}]

At(p) == check.at = p
MovesTo(p) == check' = [check EXCEPT !.at = p]
GoesOn == MovesTo("pick")

\* Something outside fails; nobody is promised a mail for what it disturbs.
Mishap ==
  /\ mishaps < MaxMishaps
  /\ mishaps' = mishaps + 1
  /\ quiet' = [l \in Locs |-> 0]

\* The run's one read of the connector serves every location.
StartCheck ==
  /\ At("idle") /\ due = 0
  /\ due' = Period
  /\ check' = [Idle(check.loc) EXCEPT !.at = "pick", !.todo = Locs, !.key = key,
                 !.failed = record.failed, !.alerted = record.alerted]
  /\ UNCHANGED <<keyVars, record, doorVars, planVars, mailVars, story, edits, mishaps>>

PickLocation ==
  /\ At("pick")
  /\ \/ \E l \in check.todo :
          check' = [check EXCEPT !.at = "try", !.loc = l, !.todo = @ \ {l}]
     \/ check.todo = {} /\ check' = Idle(check.loc)
  /\ UNCHANGED <<keyVars, record, doorVars, planVars, due, mailVars, story, edits, mishaps>>

\* key_first_failed_at survives until a success, which clears the alarm too.
Recorded(error) ==
  IF error = "none" THEN [error |-> "none", failed |-> Never, alerted |-> Never]
  ELSE [error |-> error, failed |-> IF record.failed = Never THEN 0 ELSE record.failed,
        alerted |-> record.alerted]

Refused == check.key = NoKey \/ check.key \notin accepted

\* A missing key ends the visit after its mail; an unreachable Kisi is recorded
\* and mails nobody.  The record is written without regard to what the key has
\* become since the run began, and a write that fails is logged and no more.
TryKey ==
  /\ At("try")
  /\ \/ /\ record' = Recorded(IF Refused THEN "refused" ELSE "none")
        /\ quiet' = [quiet EXCEPT ![check.loc] = IF Refused THEN Max({@, 1}) ELSE 0]
        /\ UNCHANGED mishaps
        /\ MovesTo(IF Refused THEN "mail" ELSE "list")
     \/ /\ Mishap /\ UNCHANGED record
        /\ MovesTo(IF Refused THEN "mail" ELSE "list")
     \/ /\ Mishap /\ check.key # NoKey
        /\ record' = Recorded("network")
        /\ MovesTo("plans")
  /\ UNCHANGED <<keyVars, doorVars, planVars, due, apart, told, bare, story, edits>>

\* A key that cannot be decrypted ends the visit without a trace.
SpoiltKey ==
  /\ At("try") /\ check.key # NoKey
  /\ Mishap /\ GoesOn
  /\ UNCHANGED <<keyVars, record, doorVars, planVars, due, apart, told, bare, story, edits>>

\* _shouldSendKeyAlert, on what the run read when it began.
DayIsOverNever == check.alerted = Never

DayIsOver == check.alerted \in {Never, Day}

SendKeyAlert == check.failed < Day \/ DayIsOver

AfterMail == IF check.key = NoKey THEN "pick" ELSE "plans"

\* A mail too soon: the failure is a day old and the last mail, which was
\* stamped, is not.
TooSoon(l) == check.failed = Day /\ apart[l].stamped /\ apart[l].age < Day

MailKeyFailure ==
  /\ At("mail")
  /\ \/ /\ ~SendKeyAlert /\ MovesTo(AfterMail)
        /\ UNCHANGED <<mailVars, mishaps>>
     \/ /\ SendKeyAlert /\ Mishap /\ MovesTo(AfterMail)
        /\ UNCHANGED <<apart, told, bare>>
     \/ /\ SendKeyAlert /\ MovesTo("stamp")
        /\ quiet' = [quiet EXCEPT ![check.loc] = 1]
        /\ apart' = [apart EXCEPT ![check.loc] = [age |-> 0, stamped |-> FALSE]]
        /\ bare' = (bare \/ TooSoon(check.loc))
        /\ UNCHANGED <<told, mishaps>>
  /\ UNCHANGED <<keyVars, record, doorVars, planVars, due, story, edits>>

\* The stamp follows the mail, and may fail.
StampedNow == [record EXCEPT !.alerted = 0]

StampAlert ==
  /\ At("stamp") /\ MovesTo(AfterMail)
  /\ \/ /\ record' = StampedNow
        /\ apart' = [apart EXCEPT ![check.loc].stamped = TRUE]
        /\ UNCHANGED <<quiet, mishaps>>
     \/ Mishap /\ UNCHANGED <<record, apart>>
  /\ UNCHANGED <<keyVars, doorVars, planVars, due, told, bare, story, edits>>

----------------------------------------------------------------------------
(* The doors and the plans, visited only by a run that got that far. *)

\* A refusal, an error and an empty list all leave the doors as they are.
ListGroups ==
  /\ At("list")
  /\ \/ /\ Refused \/ groups = {}
        /\ MovesTo("plans") /\ UNCHANGED <<quiet, mishaps>>
     \/ /\ ~Refused /\ groups # {}
        /\ check' = [check EXCEPT !.at = "compare", !.listed = groups]
        /\ UNCHANGED <<quiet, mishaps>>
     \/ Mishap /\ MovesTo("plans")
  /\ UNCHANGED <<keyVars, record, doorVars, planVars, due, apart, told, bare, story, edits>>

DeadKnown(d) == d \notin check.listed /\ mark[d] = "ok"

\* A door marked already is neither marked nor mailed again.
Dead(d) == d \notin check.listed /\ mark[d] # "not_found"

Back(d) == d \in check.listed /\ mark[d] = "not_found"

CompareDoors ==
  LET dead == {d \in Doors : Dead(d)}  back == {d \in Doors : Back(d)}
  IN /\ At("compare")
     /\ check' = [check EXCEPT !.at = IF dead \cup back = {} THEN "plans" ELSE "write",
                    !.listed = {}, !.dead = dead, !.back = back, !.doors = dead]
     /\ UNCHANGED <<keyVars, record, doorVars, planVars, due, mailVars, story, edits, mishaps>>

SetsMark(d, m) ==
  /\ mark' = [mark EXCEPT ![d] = m]
  /\ told' = IF m = "ok" THEN told \ {d} ELSE told

\* One update per door, the dead ones first, and only then the mail.  A failed
\* update ends the whole run, mail and other locations included.
WriteMark ==
  /\ At("write")
  /\ \/ \E d \in check.dead :
          /\ SetsMark(d, "not_found")
          /\ check' = [check EXCEPT !.dead = @ \ {d}]
          /\ UNCHANGED <<quiet, mishaps>>
     \/ \E d \in check.back :
          /\ check.dead = {} /\ SetsMark(d, "ok")
          /\ check' = [check EXCEPT !.back = @ \ {d}]
          /\ UNCHANGED <<quiet, mishaps>>
     \/ /\ check.dead \cup check.back = {}
        /\ MovesTo(IF check.doors = {} THEN "plans" ELSE "mail_doors")
        /\ UNCHANGED <<mark, told, quiet, mishaps>>
     \/ Mishap /\ check' = Idle(check.loc) /\ UNCHANGED <<mark, told>>
  /\ UNCHANGED <<keyVars, record, groups, planVars, due, apart, bare, story, edits>>

\* The mail of marks already made; one that fails is not tried again.
MailsOnce(what) ==
  \/ /\ told' = told \cup {w \in what : w \in Doors => mark[w] = "not_found"}
     /\ bare' = (bare \/ what \cap told # {})
     /\ UNCHANGED <<quiet, mishaps>>
  \/ Mishap /\ UNCHANGED <<told, bare>>

MailDoors ==
  /\ At("mail_doors")
  /\ MailsOnce(check.doors)
  /\ check' = [check EXCEPT !.at = "plans", !.doors = {}]
  /\ UNCHANGED <<keyVars, record, doorVars, planVars, due, apart, story, edits>>

\* The plans are flagged in the same way, from one list of Wix.
ComparePlans ==
  /\ At("plans")
  /\ \/ /\ flagged' = archived /\ told' = told \ (flagged \ archived)
        /\ check' = [check EXCEPT !.plans = archived \ flagged,
                       !.at = IF archived \subseteq flagged THEN "pick" ELSE "mail_plans"]
        /\ UNCHANGED <<quiet, mishaps>>
     \/ Mishap /\ GoesOn /\ UNCHANGED <<flagged, told>>
  /\ UNCHANGED <<keyVars, record, doorVars, archived, due, apart, bare, story, edits>>

MailPlans ==
  /\ At("mail_plans")
  /\ MailsOnce(check.plans)
  /\ check' = [check EXCEPT !.at = "pick", !.plans = {}]
  /\ UNCHANGED <<keyVars, record, doorVars, planVars, due, apart, story, edits>>

----------------------------------------------------------------------------
(* The clock, restarts, and what others change. *)

\* The scheduler is never late, and a run never takes longer than Lag.
Tick ==
  /\ IF At("idle") THEN due > 0 ELSE check.lag < Lag
  /\ due' = IF due = 0 THEN 0 ELSE due - 1
  /\ record' = [record EXCEPT !.failed = Older(@), !.alerted = Older(@)]
  /\ check' = IF At("idle") THEN check
              ELSE [check EXCEPT !.lag = @ + 1, !.failed = Older(@), !.alerted = Older(@)]
  /\ quiet' = [l \in Locs |-> IF quiet[l] = 0 THEN 0 ELSE Min({quiet[l] + 1, Long})]
  /\ apart' = [l \in Locs |-> [apart[l] EXCEPT !.age = Min({@ + 1, Day})]]
  /\ UNCHANGED <<keyVars, doorVars, planVars, told, bare, story, edits, mishaps>>

\* A new process forgets the run and starts one after its short first delay.
Restart ==
  /\ Mishap
  /\ check' = Idle(check.loc) /\ due' = 0
  /\ UNCHANGED <<keyVars, record, doorVars, planVars, apart, told, bare, story, edits>>

Edit(what) ==
  /\ story = what /\ edits < MaxEdits /\ edits' = edits + 1
  /\ UNCHANGED <<record, due, check, quiet, apart, bare, story, mishaps>>

\* Saving a key leaves the connector's error and its times as they are.
SaveKey(k) ==
  /\ Edit("key") /\ key' = k
  /\ UNCHANGED <<accepted, doorVars, planVars, told>>

KisiChangesItsMind(k) ==
  /\ Edit("key") /\ accepted' = IF k \in accepted THEN accepted \ {k} ELSE accepted \cup {k}
  /\ UNCHANGED <<key, doorVars, planVars, told>>

GroupComesOrGoes(d) ==
  /\ Edit("doors") /\ groups' = IF d \in groups THEN groups \ {d} ELSE groups \cup {d}
  /\ UNCHANGED <<keyVars, mark, planVars, told>>

\* A grant that Kisi answers with 404 marks the door's row, if it has one.
GrantFindsNoGroup(d) ==
  /\ d \notin groups /\ mark[d] = "ok" /\ Edit("doors")
  /\ SetsMark(d, "not_found")
  /\ UNCHANGED <<keyVars, groups, planVars>>

\* The operator adds the door to the plan again.
AddDoorAgain(d) ==
  /\ Edit("doors") /\ SetsMark(d, "ok")
  /\ UNCHANGED <<keyVars, groups, planVars>>

PlanArchivedOrBack(p) ==
  /\ Edit("plans")
  /\ archived' = IF p \in archived THEN archived \ {p} ELSE archived \cup {p}
  /\ UNCHANGED <<keyVars, doorVars, flagged, told>>

----------------------------------------------------------------------------
HealthInit ==
  /\ key \in Keys \cup {NoKey} /\ accepted = Keys
  /\ record = [error |-> "none", failed |-> Never, alerted |-> Never]
  /\ groups = Doors /\ mark \in [Doors -> {"ok", "legacy"}]
  /\ archived = {} /\ flagged = {}
  /\ due = 0 /\ \E l \in Locs : check = Idle(l)
  /\ quiet = [l \in Locs |-> 0]
  /\ apart = [l \in Locs |-> [age |-> Day, stamped |-> TRUE]]
  /\ told = {} /\ bare = FALSE
  /\ story \in Stories /\ edits = 0 /\ mishaps = 0
  /\ story # "key" => key # NoKey

CheckStep ==
  \/ StartCheck \/ PickLocation \/ TryKey \/ MailKeyFailure \/ StampAlert
  \/ ListGroups \/ CompareDoors \/ WriteMark \/ MailDoors
  \/ ComparePlans \/ MailPlans

Outside ==
  \/ \E k \in Keys : SaveKey(k) \/ KisiChangesItsMind(k)
  \/ \E d \in Doors : GroupComesOrGoes(d) \/ GrantFindsNoGroup(d) \/ AddDoorAgain(d)
  \/ \E p \in WixPlans : PlanArchivedOrBack(p)

HealthNext == CheckStep \/ SpoiltKey \/ Tick \/ Restart \/ Outside

HealthSpec == HealthInit /\ [][HealthNext]_healthVars

HealthFairSpec == HealthSpec /\ WF_healthVars(CheckStep) /\ WF_healthVars(Tick)

----------------------------------------------------------------------------
(* Properties. *)

Waited(l) == quiet[l] - 1

\* A gym whose key Kisi refuses hears of it: its locations do not all wait
\* longer than a day and the run after it, counted from the first refusal or
\* from the last mail, unless a failure got in the way.  A run counts twice:
\* the mail may come early in one, its stamp late, and the next mail late in
\* another (core/hardware-health-check.js _shouldSendKeyAlert,
\* _maybeNotifyFailure, _updateLocationVerification).  A location by itself may
\* wait longer, when another's mail has just stamped the connector they share.
DeadKeyIsTold == \E l \in Locs : Waited(l) < Day + Period + 2 * Lag

\* And not too often: once a failure is a day old a location's mails are a day
\* apart unless the stamp of one was lost; a door or plan is mailed once and not
\* again before it was seen to be back, though every location of the gym looks
\* at the same doors (_shouldSendKeyAlert, _reconcileGroups, _reconcileWixPlans).
MailsInMeasure == ~bare

\* When Kisi can be read and still has groups, the marks that keep a door out
\* of new grants end up on the doors that are gone and on no others, whoever
\* wrote them (_reconcileGroups, grant-revoke's 404, the operator's re-add).
MarksSettle ==
  <>[](key \in accepted /\ groups # {})
    => <>[](\A d \in Doors : mark[d] = "not_found" <=> d \notin groups)

\* What holds of the mails at any time.
HealthHolds == HealthTypeOK /\ DeadKeyIsTold /\ MailsInMeasure

\* "alert on every run for the first 24 hours of a failure, then once a day
\* after that" (core/hardware-health-check.js, above _shouldSendKeyAlert).
DailyMail == \E l \in Locs : Waited(l) < Day + Period

\* "Door key rejected by Kisi", a row the gym must act on
\* (core/owner-health.js), follows from key_last_error ...
RejectedRow == record.error # "none"

\* ... and "network: Railway or Kisi connectivity issue (transient, not
\* operator fault)" (core/hardware-health-check.js) is no rejection.
RejectedIsRefused == RejectedRow => record.error = "refused"
============================================================================
