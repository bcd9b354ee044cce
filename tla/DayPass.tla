------------------------------ MODULE DayPass -------------------------------
(***************************************************************************)
(* One buyer of day passes: the grant that claims a source row per door,   *)
(* makes a Kisi link for each and records it (core/queue-worker.js         *)
(* _runDayPassGrant, core/grant-revoke.js, adapters/standard-adapter.js),  *)
(* the revoke that takes an order's passes back, the sweep that ends them  *)
(* (core/day-pass-sweep.js) and the row the buyer is shown                 *)
(* (core/day-pass-api.js).                                                 *)
(*                                                                         *)
(* Wix sends several webhooks for an order; two workers process the        *)
(* buyer's jobs.  The member lock keeps them apart, and when it is lost    *)
(* (fault "lock") only the claim does.                                     *)
(***************************************************************************)
EXTENDS Integers, FiniteSets

CONSTANTS
  Orders,          \* orders of one product by one buyer
  PassDoors,       \* the doors the product is mapped to
  PassWorkers,     \* worker slots
  PassAttempts,    \* attempts a job has
  PassScenarios

PassFaults == {"kisi", "late", "release", "record", "crash", "lock"}

(* What is bought, echoes of the webhook, refunds, looks of the buyer,      *)
(* faults.                                                                 *)
PassScenario == [buys : SUBSET Orders, echoes : Nat, refunds : BOOLEAN, looks : Nat, faults : Nat,
                 kinds : SUBSET PassFaults]

ASSUME DayPassAssumption ==
  /\ PassAttempts \in Nat \ {0}
  /\ PassScenarios \subseteq PassScenario

VARIABLES
  order,      \* order |-> none, paid or refunded
  over,       \* orders whose passes are past their valid_until
  longest,    \* the order whose valid_until is the later one
  passRow,    \* order, door |-> the source row: [st, link]
  links,      \* Kisi's group links: [id, order, door, told]
  made,       \* links made so far
  passJobs,   \* jobs waiting: [kind, order, tries, echo]
  passRun,    \* worker |-> the job it runs and how far it is
  passDead,   \* orders with a dead letter of their grant
  served,     \* orders that had a pass on record
  page,       \* the buyer's page: [view, says, qr], tokens and last answer
  passLeft,
  passHappened

passVars == <<order, over, longest, passRow, links, made, passJobs, passRun, passDead, served, page, passLeft, passHappened>>
-----------------------------------------------------------------------------
NoRow  == [st |-> "none", link |-> 0]
NoJob  == [kind |-> "none", order |-> "none", tries |-> 0, echo |-> 0]
NoPage == [view |-> FALSE, says |-> "nothing", qr |-> 0]
IdleAt == [job |-> NoJob, step |-> "idle", claims |-> {}, todo |-> {}, got |-> {}]

PassInit ==
  /\ passLeft \in PassScenarios
  /\ longest \in Orders
  /\ order = [o \in Orders |-> "none"] /\ over = {}
  /\ passRow = [o \in Orders |-> [d \in PassDoors |-> NoRow]]
  /\ links = {} /\ made = 0
  /\ passJobs = {} /\ passRun = [w \in PassWorkers |-> IdleAt]
  /\ passDead = {} /\ served = {}
  /\ page = NoPage
  /\ passHappened = {}

Goes(f) ==
  /\ f \in passLeft.kinds /\ passLeft.faults > 0
  /\ passLeft' = [passLeft EXCEPT !.faults = @ - 1]
  /\ passHappened' = passHappened \cup {f}
AllWell == UNCHANGED <<passLeft, passHappened>>

sold   == <<order, over, longest>>
kisi   == <<links, made>>
notes  == <<passDead, served, page>>

GrantsOf(o) == {j \in passJobs : j.kind = "grant" /\ j.order = o}
Grants(w)   == passRun[w].job.kind = "grant"
Granting(o) == GrantsOf(o) # {} \/ \E w \in PassWorkers : Grants(w) /\ passRun[w].job.order = o
-----------------------------------------------------------------------------
(* The buyer, Wix and the clock.                                           *)

(* store.order_paid: the first webhook of an order.                        *)
Buys(o) ==
  /\ o \in passLeft.buys /\ order[o] = "none"
  /\ order' = [order EXCEPT ![o] = "paid"]
  /\ passJobs' = passJobs \cup {[kind |-> "grant", order |-> o, tries |-> 0, echo |-> 0]}
  /\ AllWell
  /\ UNCHANGED <<over, longest, passRow, kisi, passRun, notes>>

(* Wix fires the same purchase again, while the first is being processed.  *)
Echoes(o) ==
  /\ order[o] # "none" /\ passLeft.echoes > 0 /\ o \notin over
  /\ passLeft' = [passLeft EXCEPT !.echoes = @ - 1]
  /\ passJobs' = passJobs \cup {[kind |-> "grant", order |-> o, tries |-> 0, echo |-> passLeft.echoes]}
  /\ UNCHANGED <<sold, passRow, kisi, passRun, notes, passHappened>>

Refunds(o) ==
  /\ passLeft.refunds /\ order[o] = "paid"
  /\ order' = [order EXCEPT ![o] = "refunded"]
  /\ passJobs' = passJobs \cup {[kind |-> "refund", order |-> o, tries |-> 0, echo |-> 0]}
  /\ AllWell
  /\ UNCHANGED <<over, longest, passRow, kisi, passRun, notes>>

(* valid_until passes: set when the links are made (dayPassEndDate), hours *)
(* after every retry of the job; the later of two orders ends last.        *)
Ends(o) ==
  /\ o \notin over /\ ~Granting(o)
  /\ \E l \in links : l.order = o
  /\ o = longest => \A x \in Orders \ {o} : x \in over \/ \A l \in links : l.order # x
  /\ over' = over \cup {o}
  /\ AllWell
  /\ UNCHANGED <<order, longest, passRow, kisi, passJobs, passRun, notes>>
-----------------------------------------------------------------------------
(* The queue worker.                                                       *)

(* A job starts, on the first free slot, when no other of the buyer runs.  *)
Starts(w, j) ==
  /\ j \in passJobs
  /\ passRun[w] = IdleAt /\ w = CHOOSE x \in PassWorkers : passRun[x] = IdleAt
  /\ (IF \A x \in PassWorkers : passRun[x] = IdleAt THEN AllWell ELSE Goes("lock"))
  /\ passJobs' = passJobs \ {j}
  /\ passRun' = [passRun EXCEPT ![w] = [IdleAt EXCEPT !.job = j, !.step = "begin"]]
  /\ UNCHANGED <<sold, passRow, kisi, notes>>

(* BullMQ: the job waits again, or is dead after its attempts.             *)
FailsRun(w) ==
  LET j == passRun[w].job
  IN  /\ passRun' = [passRun EXCEPT ![w] = IdleAt]
      /\ IF j.tries + 1 < PassAttempts
         THEN passJobs' = passJobs \cup {[j EXCEPT !.tries = @ + 1]} /\ UNCHANGED passDead
         ELSE passJobs' = passJobs /\ passDead' = IF j.kind = "grant" THEN passDead \cup {j.order} ELSE passDead

EndsRun(w) == passRun' = [passRun EXCEPT ![w] = IdleAt] /\ UNCHANGED <<passJobs, passDead>>

(* The process goes down: the stalled job is run again.                    *)
PassCrash(w) ==
  /\ passRun[w] # IdleAt
  /\ Goes("crash")
  /\ passJobs' = passJobs \cup {passRun[w].job}
  /\ passRun' = [passRun EXCEPT ![w] = IdleAt]
  /\ UNCHANGED <<sold, passRow, kisi, notes>>

(* ON CONFLICT DO NOTHING: the doors whose row this job puts in.           *)
Unclaimed(o) == {d \in PassDoors : passRow[o][d].st = "none"}

(* claimDayPassSources: a pending row for every door nobody has claimed.   *)
Claims(w) ==
  LET o == passRun[w].job.order
      claimed == Unclaimed(o)
  IN  /\ Grants(w) /\ passRun[w].step = "begin"
      /\ IF claimed = {}
         THEN EndsRun(w) /\ UNCHANGED passRow
         ELSE /\ passRow' = [passRow EXCEPT ![o] = [d \in PassDoors |->
                               IF d \in claimed THEN [st |-> "pending", link |-> 0] ELSE @[d]]]
              /\ passRun' = [passRun EXCEPT ![w].step = "link", ![w].claims = claimed, ![w].todo = claimed]
              /\ UNCHANGED <<passJobs, passDead>>
      /\ AllWell
      /\ UNCHANGED <<sold, kisi, served, page>>

(* processDayPassGrant: one POST per door.  "late": Kisi made the link and *)
(* the answer was lost.                                                    *)
Links(w, d, how) ==
  LET o == passRun[w].job.order
  IN  /\ Grants(w) /\ passRun[w].step = "link" /\ d \in passRun[w].todo
      /\ (IF how = "ok" THEN AllWell ELSE Goes(how))
      /\ IF how = "kisi" THEN UNCHANGED kisi
                         ELSE /\ made' = made + 1
                              /\ links' = links \cup {[id |-> made + 1, order |-> o, door |-> d, told |-> how = "ok"]}
      /\ passRun' = [passRun EXCEPT ![w].todo = @ \ {d},
                                    ![w].got = IF how = "ok" THEN @ \cup {[door |-> d, link |-> made + 1]} ELSE @]
      /\ UNCHANGED <<sold, passRow, passJobs, notes>>

(* A mutant of Freed: the claims of a failed grant are kept.               *)
FreedNone(rows, doors) == rows

(* releaseDayPassClaims: only rows that are pending.                       *)
Freed(rows, doors) == [d \in PassDoors |-> IF d \in doors /\ rows[d].st = "pending" THEN NoRow ELSE rows[d]]

(* The doors that got no link are released; all of them: the job fails.    *)
(* A release that fails is swallowed.                                      *)
Releases(w, ok) ==
  LET o == passRun[w].job.order
      got == {g.door : g \in passRun[w].got}
      failed == passRun[w].claims \ got
  IN  /\ Grants(w) /\ passRun[w].step = "link" /\ passRun[w].todo = {}
      /\ (IF ok THEN AllWell ELSE failed # {} /\ Goes("release"))
      /\ passRow' = IF ok THEN [passRow EXCEPT ![o] = Freed(@, failed)] ELSE passRow
      /\ IF got = {} THEN FailsRun(w)
                     ELSE passRun' = [passRun EXCEPT ![w].step = "record"] /\ UNCHANGED <<passJobs, passDead>>
      /\ UNCHANGED <<sold, kisi, served, page>>

Recorded(link) == [st |-> "active", link |-> link]

(* completeGrant: an upsert per assignment; an error there keeps the rest  *)
(* of the claims.                                                          *)
RecordsPass(w, g) ==
  LET o == passRun[w].job.order
  IN  /\ Grants(w) /\ passRun[w].step = "record" /\ g \in passRun[w].got
      /\ passRow' = [passRow EXCEPT ![o][g.door] = Recorded(g.link)]
      /\ served' = served \cup {o}
      /\ IF passRun[w].got = {g} THEN EndsRun(w)
                                 ELSE passRun' = [passRun EXCEPT ![w].got = @ \ {g}] /\ UNCHANGED <<passJobs, passDead>>
      /\ AllWell
      /\ UNCHANGED <<sold, kisi, page>>
RecordFails(w) ==
  /\ Grants(w) /\ passRun[w].step = "record"
  /\ Goes("record")
  /\ FailsRun(w)
  /\ UNCHANGED <<sold, passRow, kisi, served, page>>
-----------------------------------------------------------------------------
(* A mutant of Matches: any pass of the product.                           *)
MatchesProduct(job, o) == TRUE

(* _dayPassRowMatches: product#order# of a refund, the whole key of the    *)
(* sweep's job.                                                            *)
Matches(job, o) == job.order = o

(* The rows a job is about.                                                *)
RowsOf(job) ==
  {r \in {[order |-> o, door |-> d, link |-> passRow[o][d].link] : o \in {x \in Orders : Matches(job, x)}, d \in PassDoors} :
     passRow[r.order][r.door] # NoRow}

(* processRevoke reads the rows ...                                        *)
Reads(w) ==
  /\ passRun[w].job.kind \in {"refund", "expire"} /\ passRun[w].step = "begin"
  /\ IF RowsOf(passRun[w].job) = {}
     THEN EndsRun(w)
     ELSE passRun' = [passRun EXCEPT ![w].step = "take", ![w].todo = RowsOf(passRun[w].job)] /\ UNCHANGED <<passJobs, passDead>>
  /\ AllWell
  /\ UNCHANGED <<sold, passRow, kisi, served, page>>

(* ... and deletes the Kisi link of each (a 404 is fine), then its row.    *)
TakesLink(w, r) ==
  /\ passRun[w].step = "take" /\ r \in passRun[w].todo
  /\ links' = {l \in links : l.id # r.link}
  /\ passRun' = [passRun EXCEPT ![w].step = "drop", ![w].got = {r}]
  /\ AllWell
  /\ UNCHANGED <<sold, passRow, made, passJobs, notes>>
TakeFails(w) ==
  /\ passRun[w].step = "take"
  /\ \E r \in passRun[w].todo : r.link # 0
  /\ Goes("kisi")
  /\ FailsRun(w)
  /\ UNCHANGED <<sold, passRow, kisi, served, page>>
DropsRow(w) ==
  /\ passRun[w].step = "drop"
  /\ \E r \in passRun[w].got :
       /\ passRow' = [passRow EXCEPT ![r.order][r.door] = NoRow]
       /\ IF passRun[w].todo = {r}
          THEN EndsRun(w)
          ELSE passRun' = [passRun EXCEPT ![w].step = "take", ![w].todo = @ \ {r}, ![w].got = {}] /\ UNCHANGED <<passJobs, passDead>>
  /\ AllWell
  /\ UNCHANGED <<sold, kisi, served, page>>
-----------------------------------------------------------------------------
(* The 15-minute sweep.                                                    *)

(* Pass A: an expired active row gets a revoke.                            *)
SweepsRow(o) ==
  LET j == [kind |-> "expire", order |-> o, tries |-> 0, echo |-> 0]
  IN  /\ o \in over /\ \E d \in PassDoors : passRow[o][d].st = "active"
      /\ j \notin passJobs /\ \A w \in PassWorkers : passRun[w].job.kind # "expire"
      /\ passJobs' = passJobs \cup {j}
      /\ AllWell
      /\ UNCHANGED <<sold, passRow, kisi, passRun, notes>>

(* Pass B: an expired link of ours that no row names.                      *)
Orphan(l) == l.order \in over /\ \A o \in Orders, d \in PassDoors : passRow[o][d].link # l.id

SweepsLink(l) ==
  /\ l \in links /\ Orphan(l)
  /\ links' = links \ {l}
  /\ AllWell
  /\ UNCHANGED <<sold, passRow, made, passJobs, passRun, notes>>
-----------------------------------------------------------------------------
(* What the buyer sees (day-pass-api.js, the day-pass page).              *)

(* ORDER BY status = 'active' DESC, valid_until DESC.                      *)
Later(o, x) == IF (o \in over) = (x \in over) THEN o = longest /\ x # longest ELSE x \in over

ShownBefore(r, s) == (r.st = "active" /\ s.st # "active") \/ (r.st = "active" /\ s.st = "active" /\ Later(r.order, s.order))

PassRows == {[order |-> o, door |-> d, st |-> passRow[o][d].st] : o \in Orders, d \in PassDoors}
Shown    == {r \in PassRows : r.st # "none" /\ \A s \in PassRows : s.st # "none" => ~ShownBefore(s, r)}

Live(o, d) == passRow[o][d].st = "active" /\ o \notin over

(* What the row says; the code can be fetched when Kisi has the link.      *)
Says(r) ==
  IF r.st # "active" THEN "pending" ELSE IF r.order \in over THEN "expired" ELSE "ready"
QrOf(r) ==
  IF Says(r) = "ready" /\ \E l \in links : l.id = passRow[r.order][r.door].link THEN passRow[r.order][r.door].link ELSE 0

(* POST /member/day-pass, signed by the gym's Wix backend: a view token    *)
(* comes with a pass that is ready or on its way.                          *)
Looks ==
  /\ passLeft.looks > 0 /\ passLeft' = [passLeft EXCEPT !.looks = @ - 1]
  /\ IF Shown = {} THEN page' = [NoPage EXCEPT !.says = "none"]
     ELSE \E r \in Shown : page' = [view |-> Says(r) # "expired", says |-> Says(r), qr |-> QrOf(r)]
  /\ UNCHANGED <<sold, passRow, kisi, passJobs, passRun, passDead, served, passHappened>>

(* GET /day-pass with the view token asks again (/member/day-pass/info).   *)
Polls ==
  /\ page.view
  /\ IF Shown = {} THEN page' = [page EXCEPT !.says = "none", !.qr = 0]
     ELSE \E r \in Shown : page' = [page EXCEPT !.says = Says(r), !.qr = QrOf(r)]
  /\ AllWell
  /\ UNCHANGED <<sold, passRow, kisi, passJobs, passRun, passDead, served>>

(* GET qr.png: the row is asked again before the image is fetched.         *)
ShowsCode ==
  /\ page.qr # 0
  /\ page' = [page EXCEPT !.qr = 0, !.says =
                IF /\ \E o \in Orders, d \in PassDoors : Live(o, d) /\ passRow[o][d].link = page.qr
                   /\ \E l \in links : l.id = page.qr
                THEN "code" ELSE "not found"]
  /\ AllWell
  /\ UNCHANGED <<sold, passRow, kisi, passJobs, passRun, passDead, served>>
-----------------------------------------------------------------------------
PassGrantStep(w) ==
  \/ Claims(w) \/ Releases(w, TRUE)
  \/ \E d \in PassDoors : Links(w, d, "ok")
  \/ \E g \in passRun[w].got : RecordsPass(w, g)
PassRevokeStep(w) == Reads(w) \/ (\E r \in passRun[w].todo : TakesLink(w, r)) \/ DropsRow(w)
PassFault(w) ==
  \/ PassCrash(w) \/ Releases(w, FALSE) \/ RecordFails(w) \/ TakeFails(w)
  \/ \E d \in PassDoors, how \in {"kisi", "late"} : Links(w, d, how)

PassNext ==
  \/ \E o \in Orders : Buys(o) \/ Echoes(o) \/ Refunds(o) \/ Ends(o) \/ SweepsRow(o)
  \/ \E w \in PassWorkers : (\E j \in passJobs : Starts(w, j)) \/ PassGrantStep(w) \/ PassRevokeStep(w) \/ PassFault(w)
  \/ \E l \in links : SweepsLink(l)
  \/ Looks \/ Polls \/ ShowsCode

PassFair ==
  /\ \A w \in PassWorkers : WF_passVars((\E j \in passJobs : Starts(w, j)) \/ PassGrantStep(w) \/ PassRevokeStep(w))
  /\ \A o \in Orders : WF_passVars(SweepsRow(o))
  /\ WF_passVars(\E l \in links : SweepsLink(l))
  /\ WF_passVars(Polls)

PassSpec == PassInit /\ [][PassNext]_passVars /\ PassFair
-----------------------------------------------------------------------------
PassJob == [kind : {"grant", "refund", "expire"}, order : Orders, tries : 0 .. PassAttempts - 1, echo : Nat]

(* Every variable has its type; a row on record as active names a link.    *)
PassTypeOK ==
  /\ order \in [Orders -> {"none", "paid", "refunded"}]
  /\ over \subseteq Orders /\ passDead \subseteq Orders /\ served \subseteq Orders /\ longest \in Orders
  /\ \A o \in Orders, d \in PassDoors :
       /\ passRow[o][d].st \in {"none", "pending", "active"}
       /\ passRow[o][d].st = "active" <=> passRow[o][d].link \in 1 .. made
  /\ links \subseteq [id : 1 .. made, order : Orders, door : PassDoors, told : BOOLEAN]
  /\ passJobs \subseteq PassJob
  /\ \A w \in PassWorkers :
       /\ passRun[w].job \in PassJob \cup {NoJob}
       /\ passRun[w].step \in {"idle", "begin", "link", "record", "take", "drop"}

(* However many webhooks an order has, and with the member lock lost, a    *)
(* door of it has one code, besides one whose creation Kisi never          *)
(* confirmed (queue-worker.js: "Wix's 2-3 echoes of ONE order share a key  *)
(* and still collapse to a single code").                                  *)
OnePassPerDoor ==
  \A l, m \in links : l.order = m.order /\ l.door = m.door /\ l.told /\ m.told => l = m

(* What a revoke or the sweep takes is a pass that is refunded or over: a  *)
(* refund of one order leaves the pass of another order of the same        *)
(* product.                                                                *)
TakesOnlyEnded ==
  [][\A l \in links \ links' : l.order \in over \/ order[l.order] = "refunded"]_passVars

(* A buyer with a paid order under way is told to wait ("the page keeps    *)
(* polling"), not that a pass of an earlier order has expired              *)
(* (day-pass-api.js: "One day-pass row, newest live one first").           *)
PendingIsShown ==
  (\E o \in Orders \ over, d \in PassDoors : passRow[o][d].st = "pending" /\ Granting(o))
    => \A r \in Shown : ~(r.st = "active" /\ r.order \in over)

(* Every paid order gets its pass, is refunded, or leaves a dead letter -  *)
(* unless a run was cut short between its claim and its record.            *)
Answered(o) == o \in served \cup passDead \/ order[o] = "refunded"
CutShort    == passHappened \cap {"crash", "record", "release"} # {}

PaidIsServed == CutShort \/ \A o \in Orders : order[o] = "paid" => Answered(o)

(* The same, cut short or not: the claim of the first run is in the way of *)
(* the next (standard-adapter.js: the claims are dropped "so the next      *)
(* attempt (retry or re-purchase) can claim again").                       *)
PaidIsServedLater == \A o \in Orders : order[o] = "paid" ~> Answered(o)

(* A page that says the pass is on its way comes to say something else.    *)
PageSettles == CutShort \/ page.says # "pending"

(* A pass that is over leaves: no row on record, no link in Kisi, whatever *)
(* was lost on the way.                                                    *)
PassesEnd ==
  \A o \in over : (\A d \in PassDoors : passRow[o][d].st # "active") /\ (\A l \in links : l.order # o)

(* The codes of a door while orders come, are refunded and run out, and    *)
(* what they come to.                                                      *)
PassesHold == [](PassTypeOK /\ OnePassPerDoor) /\ TakesOnlyEnded

PassesSettle == []<>(PaidIsServed /\ PageSettles /\ PassesEnd)
=============================================================================
