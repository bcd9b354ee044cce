----------------------------- MODULE OwnerDaily -----------------------------
(***************************************************************************)
(* The owner's hub and the owner's daily mail.                             *)
(*                                                                         *)
(* core/owner-health.js turns what the database says of every gym into     *)
(* rows, each with a severity and the one who must act; the mail's subject *)
(* is all clear only when there is no row.  core/owner-daily-email.js      *)
(* mails it once per local day: every quarter of an hour during one hour   *)
(* of the day the scheduler asks whether today's mail went out, by the     *)
(* process's own memory and by the log row of the last mail.               *)
(***************************************************************************)
EXTENDS Integers, FiniteSets

CONSTANTS
  Hubs,        \* the gyms the owner watches
  Slots,       \* quarters of an hour in the hour of the mail
  MaxDays, MaxChanges, MaxSlips  \* bounds: days, changes of facts, failures

ASSUME DailyAssumption ==
  Slots \in Nat \ {0} /\ MaxDays \in Nat \ {0} /\ MaxChanges \in Nat /\ MaxSlips \in Nat

(* What the queries say of one gym.  "key" is the outcome of the key check,   *)
(* "synced" the age of the last successful sync, "latest" the last sync of    *)
(* any outcome, "hook" the age of the last webhook.                           *)
Values ==
  [active |-> BOOLEAN, keyed |-> BOOLEAN, wixed |-> BOOLEAN, located |-> BOOLEAN,
   doored |-> BOOLEAN, granted |-> BOOLEAN, members |-> BOOLEAN, stuck |-> BOOLEAN,
   key |-> {"unseen", "fresh", "stale", "refused"},
   synced |-> {"never", "fresh", "late", "old"},
   latest |-> {"none", "success", "aborted"},
   hook |-> {"never", "recent", "silent"},
   errors |-> SUBSET {"accesssync", "gym", "clears"}]

Consistent(f) ==
  /\ f.latest = "none" => f.synced = "never"
  /\ f.latest = "success" => f.synced # "never"
  /\ f.granted => f.members

Established ==
  [active |-> TRUE, keyed |-> TRUE, wixed |-> TRUE, located |-> TRUE, doored |-> TRUE,
   granted |-> TRUE, members |-> TRUE, stuck |-> FALSE, key |-> "fresh", synced |-> "fresh",
   latest |-> "success", hook |-> "recent", errors |-> {}]

Brand ==
  [Established EXCEPT !.keyed = FALSE, !.wixed = FALSE, !.located = FALSE, !.doored = FALSE,
     !.granted = FALSE, !.members = FALSE, !.key = "unseen", !.synced = "never",
     !.latest = "none", !.hook = "never"]

Closed == [Established EXCEPT !.active = FALSE]

Queries == {"runs", "webhooks", "errors", "stuck", "setup", "platform"}

VARIABLES
  facts,       \* the gyms, as the queries see them
  stray,       \* open errors of no gym, and a burst of errors
  day, slot,   \* the local day; 0, or the quarter of the hour of the mail
  asked,       \* the scheduler has asked in this quarter
  sender,      \* the process: down, resting, or a step of maybeSendOwnerDaily
  memory,      \* _lastSentDay
  logged,      \* the day of the last email.owner_daily.sent row
  mails,       \* history: mails of the day
  slipped,     \* history: something failed today ...
  hitch,       \* ... and in this quarter
  dull,        \* bound: whether facts change in this behaviour, or only mails go out
  changes, slips

hubVars == <<facts, stray, changes>>
clockVars == <<day, slot>>
ownerVars == <<hubVars, clockVars, asked, sender, memory, logged, mails, slipped, hitch, dull, slips>>

DailyTypeOK ==
  /\ \A g \in Hubs : Consistent(facts[g]) /\ \A k \in DOMAIN Values : facts[g][k] \in Values[k]
  /\ stray \subseteq {"errors", "burst"}
  /\ day \in 1 .. MaxDays /\ slot \in 0 .. Slots /\ asked \in BOOLEAN
  /\ sender \in {"down", "rest", "log", "health", "mail", "row"}
  /\ memory \in 0 .. MaxDays /\ logged \in 0 .. MaxDays /\ mails \in Nat
  /\ slipped \in BOOLEAN /\ hitch \in BOOLEAN /\ dull \in BOOLEAN
  /\ changes \in 0 .. MaxChanges /\ slips \in 0 .. MaxSlips

----------------------------------------------------------------------------
(* The rows of the hub, computed while the queries in "failed" fail. *)

Row(kind, owner, severity) == {[kind |-> kind, owner |-> owner, severity |-> severity]}
NoRow == {}
If(c, rows) == IF c THEN rows ELSE NoRow

Has(q, failed) == q \notin failed

\* A query that fails leaves its facts at nothing.
History(f, failed) ==
  \/ Has("setup", failed) /\ f.members
  \/ Has("runs", failed) /\ f.latest # "none"
  \/ f.hook # "never"

Missing(f, failed) == ~f.keyed \/ ~f.wixed \/ (Has("setup", failed) /\ ~f.located)

NoDoor(f, failed) == Has("setup", failed) /\ ~f.doored

\* The step of the set-up a gym without history is on, if any.
Step(f, failed) ==
  \/ Missing(f, failed) \/ f.key = "unseen" \/ NoDoor(f, failed)
  \/ f.hook = "never" \/ (Has("setup", failed) /\ ~f.granted)

SettingUp(f, failed) == ~History(f, failed) /\ Step(f, failed)

AnyKeySeen == \E g \in Hubs : facts[g].key # "unseen"

KeyRow(f) ==
  IF f.key = "refused" THEN Row("key", "gym", "red")
  ELSE If(f.keyed /\ AnyKeySeen /\ f.key \in {"unseen", "stale"}, Row("key", "you", "amber"))

\* The runs as the computation sees them.
Runs(f, failed) ==
  IF Has("runs", failed) THEN f ELSE [f EXCEPT !.latest = "none", !.synced = "never"]

\* An aborted sync shows whatever its age; only then the age of the last good one.
SyncRow(f) ==
  CASE f.latest = "aborted" ->
         Row("sync", "you", IF f.synced \in {"fresh", "late"} THEN "amber" ELSE "red")
    [] f.latest # "aborted" /\ f.synced \in {"never", "old"} -> Row("sync", "you", "red")
    [] f.latest # "aborted" /\ f.synced = "late" -> Row("sync", "you", "amber")
    [] OTHER -> NoRow

SyncRowsByAge(f, failed) ==
  If(Has("runs", failed) /\ History(f, failed),
     SyncRow([Runs(f, failed) EXCEPT !.latest = "success"]))

SyncRows(f, failed) ==
  If(Has("runs", failed) /\ History(f, failed), SyncRow(Runs(f, failed)))

\* An established gym with nothing amiss has no row; neither has an inactive one.
Rows(f, failed) ==
  IF ~f.active THEN NoRow
  ELSE IF SettingUp(f, failed) THEN Row("setup", "you", "amber")
  ELSE If(History(f, failed) /\ Missing(f, failed), Row("config_gap", "gym", "red"))
       \cup KeyRow(f)
       \cup SyncRows(f, failed)
       \cup If(Has("webhooks", failed) /\ f.hook = "silent", Row("webhooks", "you", "amber"))
       \cup If(Has("errors", failed) /\ "accesssync" \in f.errors, Row("errors_you", "you", "red"))
       \cup If(Has("stuck", failed) /\ f.stuck, Row("stuck_you", "you", "red"))
       \cup If(Has("errors", failed) /\ "gym" \in f.errors, Row("errors_gym", "gym", "amber"))

PlatformRows(failed) ==
  LET active == {g \in Hubs : facts[g].active}
  IN If(Has("errors", failed) /\ "errors" \in stray, Row("errors_unassigned", "you", "red"))
     \cup If(Has("platform", failed) /\ "burst" \in stray, Row("error_burst", "you", "amber"))
     \cup If(~AnyKeySeen /\ (\E g \in active : facts[g].keyed), Row("key_check", "you", "amber"))
     \cup If(/\ Has("runs", failed) /\ \E g \in active : History(facts[g], failed)
             /\ \A g \in Hubs : facts[g].latest = "none", Row("sync_job", "you", "red"))

\* "All gyms OK".
AllClear(failed) == PlatformRows(failed) = NoRow /\ \A g \in Hubs : Rows(facts[g], failed) = NoRow

----------------------------------------------------------------------------
(* The daily mail. *)

Asks(at) == sender' = at
Slip == slips < MaxSlips /\ slips' = slips + 1 /\ slipped' = TRUE /\ hitch' = TRUE
NoSlip == UNCHANGED <<slipped, hitch, slips>>

\* The scheduler asks once a quarter; outside the hour there is nothing to do.
AskScheduler ==
  /\ dull /\ sender = "rest" /\ slot > 0 /\ ~asked
  /\ asked' = TRUE
  /\ Asks(IF memory = day THEN "rest" ELSE "log")
  /\ UNCHANGED <<hubVars, clockVars, memory, logged, mails, dull>> /\ NoSlip

LoggedToday == logged = day

\* A log that cannot be read counts as no mail.
AskLog ==
  /\ sender = "log"
  /\ \/ /\ NoSlip
        /\ IF LoggedToday THEN Asks("rest") /\ memory' = day
           ELSE Asks("health") /\ UNCHANGED memory
     \/ Slip /\ Asks("health") /\ UNCHANGED memory
  /\ UNCHANGED <<hubVars, clockVars, asked, logged, mails, dull>>

\* Only the list of gyms is indispensable; other queries may fail.
ComputeHealth ==
  /\ sender = "health"
  /\ \/ NoSlip /\ Asks("mail")
     \/ Slip /\ Asks("rest")
  /\ UNCHANGED <<hubVars, clockVars, asked, memory, logged, mails, dull>>

\* The day is remembered only for a mail that was taken.  One that timed out
\* may have gone out all the same.
Remembers(taken) == memory' = IF taken THEN day ELSE memory

SendDaily ==
  /\ sender = "mail"
  /\ \/ /\ NoSlip /\ mails' = mails + 1
        /\ Remembers(TRUE) /\ Asks("row")
     \/ /\ Slip /\ mails' \in {mails, mails + 1}
        /\ Remembers(FALSE) /\ Asks("rest")
  /\ UNCHANGED <<hubVars, clockVars, asked, logged, dull>>

\* The logger writes the row behind the mail's back.
WriteRow ==
  /\ sender = "row" /\ Asks("rest")
  /\ \/ NoSlip /\ logged' = day
     \/ Slip /\ UNCHANGED logged
  /\ UNCHANGED <<hubVars, clockVars, asked, memory, mails, dull>>

\* A restart forgets the memory.  At rest it is an ordinary deploy, which the
\* log row is there for, and no failure.
Die ==
  /\ dull /\ sender # "down" /\ slips < MaxSlips
  /\ slips' = slips + 1 /\ hitch' = TRUE /\ slipped' = (slipped \/ sender # "rest")
  /\ Asks("down") /\ memory' = 0
  /\ UNCHANGED <<hubVars, clockVars, asked, logged, mails, dull>>

Boot ==
  /\ sender = "down" /\ Asks("rest")
  /\ UNCHANGED <<hubVars, clockVars, asked, memory, logged, mails, slipped, hitch, dull, slips>>

\* A process that is up asks in every quarter; one that was down has failed.
NextQuarter ==
  /\ dull /\ sender \in {"down", "rest"}
  /\ (sender = "rest" /\ slot > 0) => asked
  /\ asked' = FALSE /\ hitch' = FALSE
  /\ IF slot < Slots
     THEN /\ slot' = slot + 1 /\ UNCHANGED <<day, mails>>
          /\ slipped' = (slipped \/ (sender = "down" /\ slot > 0))
     ELSE /\ day < MaxDays
          /\ day' = day + 1 /\ slot' = 0 /\ mails' = 0 /\ slipped' = FALSE
  /\ UNCHANGED <<hubVars, sender, memory, logged, dull, slips>>

\* Something about a gym, or about none, changes.
ChangeFact(g, k) ==
  /\ \E v \in Values[k] : facts' = [facts EXCEPT ![g][k] = v]
  /\ Consistent(facts'[g]) /\ UNCHANGED stray

ChangeStray(s) ==
  /\ stray' = IF s \in stray THEN stray \ {s} ELSE stray \cup {s}
  /\ UNCHANGED facts

Change ==
  /\ ~dull /\ changes < MaxChanges /\ changes' = changes + 1
  /\ \/ \E g \in Hubs, k \in DOMAIN Values : ChangeFact(g, k)
     \/ \E s \in {"errors", "burst"} : ChangeStray(s)
  /\ UNCHANGED <<clockVars, asked, sender, memory, logged, mails, slipped, hitch, dull, slips>>

----------------------------------------------------------------------------
DailyInit ==
  /\ facts \in [Hubs -> {Established, Brand, Closed}] /\ stray = {}
  /\ day = 1 /\ slot = 0 /\ asked = FALSE /\ sender = "rest"
  /\ memory = 0 /\ logged = 0 /\ mails = 0 /\ slipped = FALSE /\ hitch = FALSE
  /\ dull \in BOOLEAN /\ (dull => \A g \in Hubs : facts[g] = Established)
  /\ changes = 0 /\ slips = 0

DailyNext ==
  \/ AskScheduler \/ AskLog \/ ComputeHealth \/ SendDaily \/ WriteRow
  \/ Die \/ Boot \/ NextQuarter \/ Change

DailySpec == DailyInit /\ [][DailyNext]_ownerVars

----------------------------------------------------------------------------
(* Properties. *)

\* The reasons for which the header of core/owner-health.js says a gym shows.
Unwell(f) ==
  /\ f.active
  /\ \/ f.key = "refused" \/ (f.keyed /\ f.key \in {"stale", "unseen"})
     \/ f.latest = "aborted" \/ f.synced \in {"late", "old"}
     \/ (f.synced = "never" /\ (f.members \/ f.hook # "never"))
     \/ f.hook = "silent" \/ f.stuck \/ f.errors \cap {"accesssync", "gym"} # {}
     \/ ~f.keyed \/ ~f.wixed \/ ~f.located
     \/ (~f.members /\ f.latest = "none" /\ f.hook = "never")

\* The subject says all is well exactly when no active gym is unwell and no
\* error is without a gym, provided every query answered
\* (computeOwnerHealth, verdictLine).
AllClearIsClear ==
  AllClear({}) <=> stray = {} /\ \A g \in Hubs : ~Unwell(facts[g])

\* Failing queries are told in a banner and never make a gym red that is not
\* ("one banner, never a red gym").
FailuresBlameNobody ==
  \A failed \in SUBSET Queries, g \in Hubs :
    \A r \in Rows(facts[g], failed) :
      r.severity = "red" => \E s \in Rows(facts[g], {}) : s.severity = "red"

\* A failed try is made good: a quarter of the hour in which nothing failed
\* ends with today's mail out, so that "a missing email always means something
\* is wrong" (maybeSendOwnerDaily, sendOwnerDaily).
MissingMeansTrouble == slot > 0 /\ asked /\ sender = "rest" /\ ~hitch => mails > 0

\* And a restart does not send it twice, unless something else failed.
NeverTwice == mails > 1 => slipped

\* The owner can go by the mail and by its subject.
DailyHolds ==
  DailyTypeOK /\ AllClearIsClear /\ FailuresBlameNobody /\ MissingMeansTrouble /\ NeverTwice
----------------------------------------------------------------------------
(* What makes MissingMeansTrouble and NeverTwice inductive.                   *)

\* Memory and log are of today only if a mail went out, and on a day without a
\* failure a mail is out only once, on its way into the log or in it; and a
\* process that was down in this quarter has not asked in it unharmed.
MailInv ==
  /\ memory <= day /\ logged <= day
  /\ memory = day \/ logged = day \/ sender = "row" => mails > 0
  /\ mails > 0 /\ ~slipped =>
       mails = 1 /\ (sender = "row" \/ (logged = day /\ sender \in {"down", "rest", "log"}))
  /\ sender = "down" => hitch \/ ~asked
  /\ MissingMeansTrouble
============================================================================
