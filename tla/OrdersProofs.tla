---------------------------- MODULE OrdersProofs ----------------------------
(***************************************************************************)
(* Proofs about DayPass, OrderEvents and KisiUsers.                        *)
(*                                                                         *)
(* DayPass: however many webhooks an order of day passes has, whoever      *)
(* loses the member lock, a door of it has one code, and what a revoke or  *)
(* the sweep takes is over or refunded.                                    *)
(*                                                                         *)
(* Two arguments meet.  Between claim and record a door is held: its row   *)
(* is pending, no other worker holds it, and a door held without a code    *)
(* has none Kisi confirmed.  Once recorded, the row stands in the way of   *)
(* the next claim, until a revoke or the sweep drops it, and then the code *)
(* of that row is gone.                                                    *)
(*                                                                         *)
(* OrderEvents: whatever order the events of plan orders arrive in, only   *)
(* who paid is let in; told in order, one order's events leave its door as *)
(* the order stands.                                                       *)
(*                                                                         *)
(* KisiUsers: AccessSync takes from Kisi only whom it made, and where the  *)
(* jobs take turns, nothing somebody else still needs.                     *)
(***************************************************************************)
EXTENDS DayPass, OrderEvents, KisiUsers, FiniteSetTheorems, TLAPS

(* A refund drops a row that is still pending, and a code a lost run made  *)
(* behind it is then in nobody's way: with refunds, no run is lost between *)
(* its claim and its record, and the lock holds.                           *)
RefundsAlone(s) == s.refunds => s.kinds \cap {"crash", "record", "lock"} = {}

GotPass  == [door : PassDoors, link : Nat]
RowRead  == [order : Orders, door : PassDoors, link : Nat]
PassRun  == [job : PassJob \cup {NoJob}, step : {"idle", "begin", "link", "record", "take", "drop"},
             claims : SUBSET PassDoors, todo : SUBSET (PassDoors \cup RowRead), got : SUBSET (GotPass \cup RowRead)]
PassLink == [id : Nat, order : Orders, door : PassDoors, told : BOOLEAN]
PassRowT == [st : {"none", "pending", "active"}, link : Nat]

PassShape ==
  /\ passLeft \in PassScenario /\ made \in Nat
  /\ order \in [Orders -> {"none", "paid", "refunded"}]
  /\ over \subseteq Orders /\ passDead \subseteq Orders /\ served \subseteq Orders /\ longest \in Orders
  /\ passRow \in [Orders -> [PassDoors -> PassRowT]]
  /\ links \subseteq PassLink
  /\ passJobs \subseteq PassJob
  /\ passRun \in [PassWorkers -> PassRun]

OrderAt(w) == passRun[w].job.order
Told(o, d) == \E l \in links : l.told /\ l.order = o /\ l.door = d

(* The worker has a code for the door; the door is the worker's.           *)
HasGot(w, d) == \E g \in passRun[w].got : g.door = d
Holds(w, d) ==
  /\ Grants(w)
  /\ \/ passRun[w].step = "link" /\ d \in passRun[w].claims
     \/ passRun[w].step = "record" /\ HasGot(w, d)

(* What a job is about: a grant an order not over, a refund a refunded one. *)
JobFits(j) ==
  /\ j.kind = "grant" => j.order \notin over /\ order[j.order] # "none"
  /\ j.kind = "refund" => order[j.order] = "refunded" /\ passLeft.refunds
  /\ j.kind = "expire" => j.order \in over

JobsWait == \A j \in passJobs : JobFits(j)

JobRuns(w) ==
  \/ passRun[w] = IdleAt
  \/ /\ passRun[w].job \in PassJob /\ JobFits(passRun[w].job)
     /\ \/ Grants(w) /\ passRun[w].step \in {"begin", "link", "record"}
        \/ ~Grants(w) /\ passRun[w].step \in {"begin", "take", "drop"}
     /\ passRun[w].step = "begin" => passRun[w].got = {}

(* A grant between its claim and its record.                               *)
GrantFits(w) ==
  passRun[w].step \in {"link", "record"} =>
    /\ passRun[w].got \subseteq GotPass
    /\ \A g \in passRun[w].got : g.door \in passRun[w].claims /\ g.link \in 1 .. made
    /\ \A g, h \in passRun[w].got : g.door = h.door => g = h
    /\ \A g \in passRun[w].got, l \in links : l.id = g.link => l.order = OrderAt(w) /\ l.door = g.door
    /\ passRun[w].step = "record" => passRun[w].got # {}
    /\ passRun[w].step = "link" =>
         /\ passRun[w].todo \subseteq passRun[w].claims
         /\ \A d \in passRun[w].todo : ~HasGot(w, d)
         /\ \A d \in passRun[w].claims : HasGot(w, d) \/ ~Told(OrderAt(w), d)

(* A revoke between its read of the rows and the last of them.             *)
TakeFits(w) ==
  passRun[w].step \in {"take", "drop"} =>
    /\ passRun[w].todo \subseteq RowRead /\ passRun[w].todo # {}
    /\ \A t \in passRun[w].todo :
         /\ t.order = OrderAt(w) /\ t.link \in 0 .. made
         /\ \A l \in links : l.id = t.link => l.order = t.order
         /\ passRun[w].job.kind = "refund" => passRow[t.order][t.door].link = t.link
    /\ passRun[w].step = "drop" =>
         \E t \in passRun[w].todo : passRun[w].got = {t} /\ \A l \in links : l.id # t.link

LinksFit ==
  /\ \A l, m \in links : l.id = m.id => l = m
  /\ \A l \in links : l.id \in 1 .. made /\ order[l.order] # "none"
  /\ \A o \in over : order[o] # "none"

RowsFit ==
  \A o \in Orders, d \in PassDoors :
    /\ passRow[o][d].link \in 0 .. made
    /\ passRow[o][d].st = "active" <=> passRow[o][d].link # 0
    /\ \A l \in links : l.id = passRow[o][d].link => l.order = o /\ l.door = d

(* A door is held by one worker, and its row says so.                      *)
Apart ==
  \A w \in PassWorkers, d \in PassDoors : Holds(w, d) =>
    /\ passRow[OrderAt(w)][d].st = "pending"
    /\ \A v \in PassWorkers : v # w /\ OrderAt(v) = OrderAt(w) => ~Holds(v, d)

(* A code Kisi confirmed has its row; with refunds, the row that names it  *)
(* or a worker about to write it there.                                    *)
HasWriter(l) ==
  \E w \in PassWorkers :
    /\ Grants(w) /\ passRun[w].step \in {"link", "record"} /\ OrderAt(w) = l.order
    /\ [door |-> l.door, link |-> l.id] \in passRun[w].got
ToldFits ==
  \A l \in links : l.told /\ l.order \notin over =>
    /\ passRow[l.order][l.door].st # "none"
    /\ passLeft.refunds => passRow[l.order][l.door].link = l.id \/ HasWriter(l)

InTurn ==
  "lock" \notin passLeft.kinds =>
    \A w, v \in PassWorkers : passRun[w] # IdleAt /\ passRun[v] # IdleAt => w = v

PassInv ==
  /\ PassShape /\ RefundsAlone(passLeft) /\ JobsWait
  /\ \A w \in PassWorkers : JobRuns(w) /\ GrantFits(w) /\ TakeFits(w)
  /\ LinksFit /\ RowsFit /\ Apart /\ ToldFits /\ InTurn /\ OnePassPerDoor

-----------------------------------------------------------------------------
(* What stays the same whatever happens.                                   *)

LeftStays == /\ passLeft' \in PassScenario
             /\ passLeft'.kinds = passLeft.kinds /\ passLeft'.refunds = passLeft.refunds

LEMMA GoesStays ==
  ASSUME passLeft \in PassScenario, NEW f, Goes(f)
  PROVE  LeftStays /\ f \in passLeft.kinds
<1>1. /\ passLeft.faults \in Nat /\ passLeft.faults > 0 /\ f \in passLeft.kinds
      /\ passLeft' = [passLeft EXCEPT !.faults = @ - 1]
  BY DEF PassScenario, Goes
<1> QED  BY <1>1 DEF PassScenario, LeftStays

LEMMA WellStays ==
  ASSUME passLeft \in PassScenario, AllWell
  PROVE  LeftStays
BY DEF AllWell, LeftStays

LEMMA FewerStay ==
  ASSUME passLeft \in PassScenario,
         \/ passLeft.echoes > 0 /\ passLeft' = [passLeft EXCEPT !.echoes = @ - 1]
         \/ passLeft.looks > 0 /\ passLeft' = [passLeft EXCEPT !.looks = @ - 1]
  PROVE  LeftStays
<1>1. CASE passLeft.echoes > 0 /\ passLeft' = [passLeft EXCEPT !.echoes = @ - 1]
  BY <1>1 DEF PassScenario, LeftStays
<1>2. CASE passLeft.looks > 0 /\ passLeft' = [passLeft EXCEPT !.looks = @ - 1]
  BY <1>2 DEF PassScenario, LeftStays
<1> QED  BY <1>1, <1>2

-----------------------------------------------------------------------------
(* A worker's slot, after a step of it.                                    *)

LEMMA IdleTyped == IdleAt \in PassRun
BY DEF IdleAt, PassRun

LEMMA RunTyped ==
  ASSUME PassShape, NEW w \in PassWorkers
  PROVE  passRun[w] \in PassRun
BY DEF PassShape

LEMMA NotIdle ==
  ASSUME PassInv, NEW w \in PassWorkers, passRun[w].step # "idle"
  PROVE  /\ passRun[w] # IdleAt /\ passRun[w].job \in PassJob /\ JobFits(passRun[w].job)
         /\ passRun[w].step \in {"link", "record"} => Grants(w)
         /\ passRun[w].step \in {"take", "drop"} => passRun[w].job.kind \in {"refund", "expire"}
<1>1. JobRuns(w)
  BY DEF PassInv
<1>2. passRun[w] # IdleAt
  BY DEF IdleAt
<1>3. passRun[w].job \in PassJob /\ JobFits(passRun[w].job)
  BY <1>1, <1>2 DEF JobRuns
<1>4. passRun[w].job.kind \in {"grant", "refund", "expire"}
  BY <1>3 DEF PassJob
<1> QED  BY <1>1, <1>2, <1>3, <1>4 DEF JobRuns, Grants

LEMMA GrantBusy ==
  ASSUME PassInv, NEW w \in PassWorkers, passRun[w].job.kind # "none"
  PROVE  passRun[w] # IdleAt /\ passRun[w].job \in PassJob /\ JobFits(passRun[w].job)
<1>1. passRun[w] # IdleAt
  BY DEF IdleAt, NoJob
<1> QED  BY <1>1 DEF PassInv, JobRuns

(* The slot is given back: the job is over, waits again or is dead.        *)
Back(w) ==
  /\ passRun' = [passRun EXCEPT ![w] = IdleAt]
  /\ \A k \in passJobs' \ passJobs :
       /\ k \in PassJob
       /\ k.kind = passRun[w].job.kind /\ k.order = passRun[w].job.order
  /\ passJobs \subseteq passJobs'
  /\ passDead' \subseteq Orders

LEMMA FailsBack ==
  ASSUME PassShape, NEW w \in PassWorkers, passRun[w].job \in PassJob, FailsRun(w)
  PROVE  Back(w)
<1> DEFINE j == passRun[w].job
<1>1. j \in PassJob /\ j.order \in Orders /\ j.tries \in 0 .. PassAttempts - 1 /\ PassAttempts \in Nat
  BY DayPassAssumption DEF PassJob
<1>2. CASE j.tries + 1 < PassAttempts
  <2> DEFINE k == [j EXCEPT !.tries = @ + 1]
  <2>1. passJobs' = passJobs \cup {k} /\ passDead' = passDead
    BY <1>2 DEF FailsRun
  <2>2. k \in PassJob /\ k.kind = j.kind /\ k.order = j.order
    BY <1>1, <1>2 DEF PassJob
  <2> HIDE DEF k
  <2> QED  BY <2>1, <2>2 DEF FailsRun, Back, PassShape
<1>3. CASE ~(j.tries + 1 < PassAttempts)
  <2>1. passJobs' = passJobs /\ passDead' = (IF j.kind = "grant" THEN passDead \cup {j.order} ELSE passDead)
    BY <1>3 DEF FailsRun
  <2> QED  BY <2>1, <1>1 DEF FailsRun, Back, PassShape
<1> QED  BY <1>2, <1>3

LEMMA EndsBack ==
  ASSUME PassShape, NEW w \in PassWorkers, EndsRun(w)
  PROVE  Back(w)
BY DEF EndsRun, Back, PassShape

LEMMA BackShape ==
  ASSUME PassShape, NEW w \in PassWorkers, Back(w)
  PROVE  passRun' \in [PassWorkers -> PassRun] /\ passJobs' \subseteq PassJob /\ passDead' \subseteq Orders
BY IdleTyped DEF Back, PassShape

(* Every step keeps the types.                                             *)

World == UNCHANGED <<passRow, links, made, passRun>>

LEMMA WorldTyped ==
  ASSUME PassInv, NEW o \in Orders, Buys(o) \/ Echoes(o) \/ Refunds(o) \/ Ends(o) \/ SweepsRow(o)
  PROVE  PassShape' /\ LeftStays /\ World
<1> USE DEF World, sold, kisi, notes
<1>0. PassShape
  BY DEF PassInv
<1>1. 0 \in 0 .. PassAttempts - 1
  BY DayPassAssumption
<1>2. \A k \in {"grant", "refund", "expire"}, e \in Nat : [kind |-> k, order |-> o, tries |-> 0, echo |-> e] \in PassJob
  BY <1>1 DEF PassJob
<1>3. CASE Buys(o)
  <2>1. LeftStays
    BY <1>0, <1>3, WellStays DEF Buys, PassShape
  <2>2. passJobs' \subseteq PassJob
    BY <1>0, <1>2, <1>3 DEF Buys, PassShape
  <2> QED  BY <1>0, <1>3, <2>1, <2>2 DEF Buys, PassShape, LeftStays, PassLink
<1>4. CASE Echoes(o)
  <2>1. LeftStays
    BY <1>0, <1>4, FewerStay DEF Echoes, PassShape
  <2>2. passLeft.echoes \in Nat
    BY <1>0 DEF PassShape, PassScenario
  <2>3. passJobs' \subseteq PassJob
    BY <1>0, <1>2, <1>4, <2>2 DEF Echoes, PassShape
  <2> QED  BY <1>0, <1>4, <2>1, <2>3 DEF Echoes, PassShape, LeftStays, PassLink
<1>5. CASE Refunds(o)
  <2>1. LeftStays
    BY <1>0, <1>5, WellStays DEF Refunds, PassShape
  <2>2. passJobs' \subseteq PassJob
    BY <1>0, <1>2, <1>5 DEF Refunds, PassShape
  <2> QED  BY <1>0, <1>5, <2>1, <2>2 DEF Refunds, PassShape, LeftStays, PassLink
<1>6. CASE Ends(o)
  BY <1>0, <1>6, WellStays DEF Ends, PassShape, LeftStays, PassLink
<1>7. CASE SweepsRow(o)
  <2>1. LeftStays
    BY <1>0, <1>7, WellStays DEF SweepsRow, PassShape
  <2>2. passJobs' \subseteq PassJob
    BY <1>0, <1>2, <1>7 DEF SweepsRow, PassShape
  <2> QED  BY <1>0, <1>7, <2>1, <2>2 DEF SweepsRow, PassShape, LeftStays, PassLink
<1> QED  BY <1>3, <1>4, <1>5, <1>6, <1>7

(* What nobody but Kisi and the buyer's page sees.                         *)
Calm ==
  /\ UNCHANGED <<order, over, longest, passRow, made, passJobs, passRun, passDead, served>>
  /\ links' \subseteq links

LEMMA CalmTyped ==
  ASSUME PassInv, Looks \/ Polls \/ ShowsCode \/ (\E l \in links : SweepsLink(l)) \/ UNCHANGED passVars
  PROVE  PassShape' /\ LeftStays /\ Calm
<1> USE DEF Calm, sold, kisi, notes
<1>0. PassShape
  BY DEF PassInv
<1>1. LeftStays
  BY <1>0, WellStays, FewerStay DEF PassShape, Looks, Polls, ShowsCode, SweepsLink, passVars, LeftStays
<1>2. Calm
  BY DEF Looks, Polls, ShowsCode, SweepsLink, passVars
<1> QED  BY <1>0, <1>1, <1>2 DEF PassShape, LeftStays, PassLink

-----------------------------------------------------------------------------
(* A step of one worker, w: what it leaves alone.                          *)

OnlyAt(w) == UNCHANGED <<order, over, longest>> /\ \A v \in PassWorkers : v # w => passRun'[v] = passRun[v]

(* With refunds, one worker is busy.                                       *)
LEMMA OneBusy ==
  ASSUME PassInv, NEW w \in PassWorkers, NEW v \in PassWorkers, w # v,
         passRun[w] # IdleAt, passRun[v] # IdleAt
  PROVE  ~passLeft.refunds /\ "lock" \in passLeft.kinds
BY DEF PassInv, InTurn, RefundsAlone

LEMMA JobsStay ==
  ASSUME PassInv, LeftStays, NEW w \in PassWorkers, OnlyAt(w), passRun[w] # IdleAt, JobRuns(w)',
         \A k \in passJobs' \ passJobs : k.kind = passRun[w].job.kind /\ k.order = OrderAt(w)
  PROVE  RefundsAlone(passLeft)' /\ JobsWait' /\ InTurn' /\ \A v \in PassWorkers : JobRuns(v)'
<1>1. \A j : JobFits(j) => JobFits(j)'
  BY DEF JobFits, OnlyAt, LeftStays
<1>2. JobFits(passRun[w].job)
  BY DEF PassInv, JobRuns
<1>3. JobsWait'
  <2> SUFFICES ASSUME NEW j \in passJobs' PROVE JobFits(j)'
    BY DEF JobsWait
  <2>1. CASE j \in passJobs
    BY <2>1, <1>1 DEF PassInv, JobsWait
  <2>2. CASE j \notin passJobs
    <3>1. j.kind = passRun[w].job.kind /\ j.order = passRun[w].job.order
      BY <2>2 DEF OrderAt
    <3>2. JobFits(j)
      BY <3>1, <1>2 DEF JobFits
    <3> QED  BY <3>2, <1>1
  <2> QED  BY <2>1, <2>2
<1>4. ASSUME NEW v \in PassWorkers PROVE JobRuns(v)'
  <2>1. CASE v = w
    BY <2>1
  <2>2. CASE v # w
    BY <2>2, <1>1 DEF PassInv, JobRuns, OnlyAt, Grants
  <2> QED  BY <2>1, <2>2
<1>5. InTurn'
  BY DEF PassInv, InTurn, OnlyAt, LeftStays
<1>6. RefundsAlone(passLeft)'
  BY DEF PassInv, RefundsAlone, LeftStays
<1> QED  BY <1>3, <1>4, <1>5, <1>6

(* New codes, if any, are new, and not of a door another worker holds.     *)
NewCodes(w) ==
  /\ made \in Nat /\ made' \in Nat /\ made <= made'
  /\ \A l \in links' \ links : l.id > made
  /\ \A l \in links' \ links, v \in PassWorkers : v # w /\ OrderAt(v) = l.order => ~Holds(v, l.door)

LEMMA OthersGrant ==
  ASSUME PassInv, NEW w \in PassWorkers, NEW v \in PassWorkers, v # w, OnlyAt(w), NewCodes(w)
  PROVE  GrantFits(v)'
<1> SUFFICES ASSUME passRun[v].step \in {"link", "record"} PROVE GrantFits(v)'
  BY DEF GrantFits, OnlyAt
<1>1. GrantFits(v) /\ passRun'[v] = passRun[v]
  BY DEF PassInv, OnlyAt
<1>2. Grants(v)
  BY NotIdle
<1>3. \A g \in passRun[v].got : g.link \in 1 .. made /\ g.link \in 1 .. made'
  BY <1>1 DEF GrantFits, NewCodes
<1>4. \A g \in passRun[v].got, l \in links' : l.id = g.link => l.order = OrderAt(v) /\ l.door = g.door
  BY <1>1, <1>3 DEF GrantFits, NewCodes
<1>5. ASSUME passRun[v].step = "link", NEW d \in passRun[v].claims, ~HasGot(v, d)
      PROVE  ~Told(OrderAt(v), d)'
  <2>1. ~Told(OrderAt(v), d)
    BY <1>1, <1>5 DEF GrantFits
  <2>2. Holds(v, d)
    BY <1>2, <1>5 DEF Holds
  <2> QED  BY <1>1, <2>1, <2>2 DEF Told, NewCodes, OrderAt
<1> QED  BY <1>1, <1>3, <1>4, <1>5 DEF GrantFits, OrderAt, HasGot

LEMMA OthersTake ==
  ASSUME PassInv, NEW w \in PassWorkers, NEW v \in PassWorkers, v # w, OnlyAt(w), NewCodes(w),
         passRow' = passRow \/ passRun[w] # IdleAt
  PROVE  TakeFits(v)'
<1> SUFFICES ASSUME passRun[v].step \in {"take", "drop"} PROVE TakeFits(v)'
  BY DEF TakeFits, OnlyAt
<1>1. TakeFits(v) /\ passRun'[v] = passRun[v]
  BY DEF PassInv, OnlyAt
<1>2. passRun[v] # IdleAt /\ JobFits(passRun[v].job)
  BY NotIdle
<1>3. passRun[v].job.kind = "refund" => passRow' = passRow
  BY <1>2, OneBusy DEF JobFits
<1>4. \A t \in passRun[v].todo : t.link \in 0 .. made /\ t.link \in 0 .. made'
  BY <1>1 DEF TakeFits, NewCodes
<1>5. \A t \in passRun[v].todo, l \in links' : l.id = t.link => l \in links
  BY <1>4 DEF NewCodes
<1> QED  BY <1>1, <1>3, <1>4, <1>5 DEF TakeFits, OrderAt

(* The doors w holds after its step, and those the others hold.            *)
LEMMA ApartStep ==
  ASSUME PassInv, NEW w \in PassWorkers, OnlyAt(w),
         \A d \in PassDoors : Holds(w, d)' =>
            /\ OrderAt(w)' = OrderAt(w) /\ passRow'[OrderAt(w)][d].st = "pending"
            /\ \A v \in PassWorkers : v # w /\ OrderAt(v) = OrderAt(w) => ~Holds(v, d),
         \A v \in PassWorkers, d \in PassDoors : v # w /\ Holds(v, d) => passRow'[OrderAt(v)][d].st = "pending"
  PROVE  Apart'
<1>1. \A v \in PassWorkers, d \in PassDoors : v # w => /\ Holds(v, d)' <=> Holds(v, d)
                                                       /\ OrderAt(v)' = OrderAt(v)
  BY DEF OnlyAt, Holds, OrderAt, HasGot, Grants
<1> SUFFICES ASSUME NEW v \in PassWorkers, NEW d \in PassDoors, Holds(v, d)'
             PROVE  /\ (passRow[OrderAt(v)][d].st = "pending")'
                    /\ \A x \in PassWorkers : x # v /\ OrderAt(x)' = OrderAt(v)' => ~Holds(x, d)'
  BY DEF Apart
<1>2. CASE v = w
  BY <1>1, <1>2
<1>3. CASE v # w
  <2>1. Holds(v, d) /\ OrderAt(v)' = OrderAt(v)
    BY <1>1, <1>3
  <2>2. (passRow[OrderAt(v)][d].st = "pending")'
    BY <1>3, <2>1
  <2>3. ASSUME NEW x \in PassWorkers, x # v, OrderAt(x)' = OrderAt(v)' PROVE ~Holds(x, d)'
    <3>1. CASE x = w
      BY <1>1, <1>3, <2>1, <2>3, <3>1
    <3>2. CASE x # w
      BY <1>1, <1>3, <2>1, <2>3, <3>2 DEF PassInv, Apart
    <3> QED  BY <3>1, <3>2
  <2> QED  BY <2>2, <2>3
<1> QED  BY <1>2, <1>3

(* The codes and the rows, when codes only leave.                          *)
LEMMA RowsStay ==
  ASSUME PassInv, UNCHANGED <<order, over, passRow, made>>, links' \subseteq links
  PROVE  LinksFit' /\ RowsFit' /\ OnePassPerDoor'
<1>1. LinksFit'
  BY DEF PassInv, LinksFit
<1>2. RowsFit'
  BY DEF PassInv, RowsFit
<1>3. OnePassPerDoor'
  BY DEF PassInv, OnePassPerDoor
<1> QED  BY <1>1, <1>2, <1>3

(* A code keeps its writer.                                                *)
LEMMA WriterStays ==
  ASSUME NEW w \in PassWorkers, OnlyAt(w), NEW l, HasWriter(l),
         passRun[w].step \in {"link", "record"} /\ Grants(w) /\ [door |-> l.door, link |-> l.id] \in passRun[w].got =>
            /\ passRun'[w].step \in {"link", "record"} /\ passRun'[w].job = passRun[w].job
            /\ [door |-> l.door, link |-> l.id] \in passRun'[w].got
  PROVE  HasWriter(l)'
<1>1. PICK v \in PassWorkers : /\ Grants(v) /\ passRun[v].step \in {"link", "record"} /\ OrderAt(v) = l.order
                               /\ [door |-> l.door, link |-> l.id] \in passRun[v].got
  BY DEF HasWriter
<1>2. CASE v = w
  BY <1>1, <1>2 DEF HasWriter, Grants, OrderAt
<1>3. CASE v # w
  <2>1. passRun'[v] = passRun[v]
    BY <1>3 DEF OnlyAt
  <2> QED  BY <1>1, <2>1 DEF HasWriter, Grants, OrderAt
<1> QED  BY <1>2, <1>3

-----------------------------------------------------------------------------
(* The steps, one by one.                                                  *)

(* Orders and what is over only go on.                                     *)
Ages ==
  /\ \A o \in Orders : order[o] # "none" => order'[o] # "none"
  /\ \A o \in Orders : order[o] = "refunded" => order'[o] = "refunded"
  /\ over \subseteq over'
  /\ \A o \in over' \ over : o \in Orders /\ ~Granting(o) /\ order'[o] # "none"

LEMMA WorldAges ==
  ASSUME PassInv, NEW o \in Orders, Buys(o) \/ Echoes(o) \/ Refunds(o) \/ Ends(o) \/ SweepsRow(o)
  PROVE  Ages
<1> USE DEF Ages, sold, PassInv, PassShape
<1>1. CASE Buys(o)
  BY <1>1 DEF Buys
<1>2. CASE Echoes(o)
  BY <1>2 DEF Echoes
<1>3. CASE Refunds(o)
  BY <1>3 DEF Refunds
<1>4. CASE Ends(o)
  BY <1>4 DEF Ends, LinksFit
<1>5. CASE SweepsRow(o)
  BY <1>5 DEF SweepsRow
<1> QED  BY <1>1, <1>2, <1>3, <1>4, <1>5

LEMMA WorldJobs ==
  ASSUME PassInv, NEW o \in Orders, Buys(o) \/ Echoes(o) \/ Refunds(o) \/ Ends(o) \/ SweepsRow(o)
  PROVE  \A k \in passJobs' \ passJobs : JobFits(k)'
<1> USE DEF JobFits
<1>0. order \in [Orders -> {"none", "paid", "refunded"}] /\ \A x \in over : order[x] # "none"
  BY DEF PassInv, PassShape, LinksFit
<1>1. CASE Buys(o)
  BY <1>0, <1>1 DEF Buys, AllWell
<1>2. CASE Echoes(o)
  BY <1>0, <1>2 DEF Echoes, sold
<1>3. CASE Refunds(o)
  BY <1>0, <1>3 DEF Refunds, AllWell
<1>4. CASE Ends(o)
  BY <1>4 DEF Ends
<1>5. CASE SweepsRow(o)
  BY <1>5 DEF SweepsRow, sold
<1> QED  BY <1>1, <1>2, <1>3, <1>4, <1>5

LEMMA AgedJobs ==
  ASSUME PassInv, Ages, LeftStays, World
  PROVE  /\ \A j \in passJobs : JobFits(j)'
         /\ \A w \in PassWorkers : passRun[w].job \in PassJob /\ JobFits(passRun[w].job) => JobFits(passRun[w].job)'
<1>1. ASSUME NEW j \in PassJob, JobFits(j), j.kind = "grant" => Granting(j.order) PROVE JobFits(j)'
  <2>1. j.order \in Orders
    BY <1>1 DEF PassJob
  <2> QED  BY <1>1, <2>1 DEF JobFits, Ages, LeftStays
<1>2. \A j \in passJobs : j \in PassJob /\ JobFits(j)
  BY DEF PassInv, JobsWait, PassShape
<1>3. \A j \in passJobs : j.kind = "grant" => Granting(j.order)
  BY DEF Granting, GrantsOf
<1>4. ASSUME NEW w \in PassWorkers, passRun[w].job \in PassJob, JobFits(passRun[w].job)
      PROVE  JobFits(passRun[w].job)'
  <2> DEFINE j == passRun[w].job
  <2>1. j.kind = "grant" => Granting(j.order)
    BY DEF Granting, Grants
  <2>2. \A k \in PassJob : JobFits(k) /\ (k.kind = "grant" => Granting(k.order)) => JobFits(k)'
    BY <1>1
  <2> QED  BY <1>4, <2>1, <2>2 DEF World, JobFits
<1> QED  BY <1>1, <1>2, <1>3, <1>4

LEMMA WorldKeeps ==
  ASSUME PassInv, NEW o \in Orders, Buys(o) \/ Echoes(o) \/ Refunds(o) \/ Ends(o) \/ SweepsRow(o)
  PROVE  PassInv'
<1>1. PassShape' /\ LeftStays /\ World
  BY WorldTyped
<1>2. Ages
  BY WorldAges
<1>3. JobsWait'
  BY <1>1, <1>2, AgedJobs, WorldJobs DEF JobsWait
<1>4. ASSUME NEW w \in PassWorkers PROVE JobRuns(w)' /\ GrantFits(w)' /\ TakeFits(w)'
  <2>1. JobRuns(w) /\ GrantFits(w) /\ TakeFits(w) /\ passRun'[w] = passRun[w]
    BY <1>1 DEF PassInv, World
  <2>2. JobRuns(w)'
    BY <1>1, <1>2, <2>1, AgedJobs DEF JobRuns, Grants
  <2>3. GrantFits(w)'
    BY <1>1, <2>1 DEF GrantFits, World, HasGot, Told, OrderAt
  <2>4. TakeFits(w)'
    BY <1>1, <2>1 DEF TakeFits, World, OrderAt
  <2> QED  BY <2>2, <2>3, <2>4
<1>5. LinksFit'
  BY <1>1, <1>2 DEF PassInv, PassShape, LinksFit, World, Ages, PassLink
<1>6. RowsFit'
  BY <1>1 DEF PassInv, RowsFit, World
<1>7. Apart'
  BY <1>1 DEF PassInv, Apart, World, Holds, HasGot, OrderAt, Grants
<1>8. ToldFits'
  BY <1>1, <1>2 DEF PassInv, ToldFits, World, Ages, LeftStays, HasWriter, OrderAt, Grants
<1>9. InTurn' /\ OnePassPerDoor' /\ RefundsAlone(passLeft)'
  BY <1>1 DEF PassInv, InTurn, OnePassPerDoor, World, LeftStays, RefundsAlone
<1> QED  BY <1>1, <1>3, <1>4, <1>5, <1>6, <1>7, <1>8, <1>9 DEF PassInv

LEMMA CalmKeeps ==
  ASSUME PassInv, Looks \/ Polls \/ ShowsCode \/ (\E l \in links : SweepsLink(l)) \/ UNCHANGED passVars
  PROVE  PassInv'
<1>1. PassShape' /\ LeftStays /\ Calm
  BY CalmTyped
<1>2. \A j : JobFits(j) => JobFits(j)'
  BY <1>1 DEF JobFits, Calm, LeftStays
<1>3. JobsWait'
  BY <1>1, <1>2 DEF PassInv, JobsWait, Calm
<1>4. ASSUME NEW w \in PassWorkers PROVE JobRuns(w)' /\ GrantFits(w)' /\ TakeFits(w)'
  <2>1. JobRuns(w) /\ GrantFits(w) /\ TakeFits(w) /\ passRun'[w] = passRun[w]
    BY <1>1 DEF PassInv, Calm
  <2>2. JobRuns(w)'
    BY <1>1, <1>2, <2>1 DEF JobRuns, Grants
  <2>3. GrantFits(w)'
    BY <1>1, <2>1 DEF GrantFits, Calm, HasGot, Told, OrderAt
  <2>4. TakeFits(w)'
    BY <1>1, <2>1 DEF TakeFits, Calm, OrderAt
  <2> QED  BY <2>2, <2>3, <2>4
<1>5. LinksFit' /\ RowsFit' /\ OnePassPerDoor'
  BY <1>1, RowsStay DEF Calm
<1>6. Apart'
  BY <1>1 DEF PassInv, Apart, Calm, Holds, HasGot, OrderAt, Grants
<1>7. ToldFits'
  BY <1>1 DEF PassInv, ToldFits, Calm, LeftStays, HasWriter, OrderAt, Grants
<1>8. InTurn' /\ RefundsAlone(passLeft)'
  BY <1>1 DEF PassInv, InTurn, Calm, LeftStays, RefundsAlone
<1> QED  BY <1>1, <1>3, <1>4, <1>5, <1>6, <1>7, <1>8 DEF PassInv

(* A worker's step, put together.                                          *)
LEMMA OthersRun ==
  ASSUME PassInv, LeftStays, NEW w \in PassWorkers, OnlyAt(w), NewCodes(w), passRun[w] # IdleAt,
         JobRuns(w)', GrantFits(w)', TakeFits(w)',
         \A k \in passJobs' \ passJobs : k.kind = passRun[w].job.kind /\ k.order = OrderAt(w)
  PROVE  /\ RefundsAlone(passLeft)' /\ JobsWait' /\ InTurn'
         /\ \A v \in PassWorkers : JobRuns(v)' /\ GrantFits(v)' /\ TakeFits(v)'
<1>1. RefundsAlone(passLeft)' /\ JobsWait' /\ InTurn' /\ \A v \in PassWorkers : JobRuns(v)'
  BY JobsStay
<1>2. \A v \in PassWorkers : v # w => GrantFits(v)' /\ TakeFits(v)'
  BY OthersGrant, OthersTake
<1> QED  BY <1>1, <1>2

LEMMA BackFits ==
  ASSUME PassShape, NEW w \in PassWorkers, Back(w)
  PROVE  /\ passRun'[w] = IdleAt /\ JobRuns(w)' /\ GrantFits(w)' /\ TakeFits(w)'
         /\ \A d \in PassDoors : ~Holds(w, d)'
         /\ \A v \in PassWorkers : v # w => passRun'[v] = passRun[v]
         /\ \A k \in passJobs' \ passJobs : k.kind = passRun[w].job.kind /\ k.order = OrderAt(w)
<1>1. passRun'[w] = IdleAt /\ \A v \in PassWorkers : v # w => passRun'[v] = passRun[v]
  BY DEF PassShape, Back
<1>2. IdleAt.step = "idle" /\ IdleAt.job.kind = "none"
  BY DEF IdleAt, NoJob
<1>3. JobRuns(w)' /\ GrantFits(w)' /\ TakeFits(w)'
  BY <1>1, <1>2 DEF JobRuns, GrantFits, TakeFits
<1>4. \A d \in PassDoors : ~Holds(w, d)'
  BY <1>1, <1>2 DEF Holds, Grants
<1> QED  BY <1>1, <1>3, <1>4 DEF Back, OrderAt

LEMMA NoNewCodes ==
  ASSUME PassInv, NEW w \in PassWorkers, links' \subseteq links, made' = made
  PROVE  NewCodes(w)
BY DEF NewCodes, PassInv, PassShape

LEMMA ToldRows ==
  ASSUME PassInv, LeftStays, NEW w \in PassWorkers, OnlyAt(w),
         links' \subseteq links, UNCHANGED <<over, passRow>>,
         passLeft.refunds /\ passRun[w].step \in {"link", "record"} /\ Grants(w) =>
            /\ passRun'[w].step \in {"link", "record"} /\ passRun'[w].job = passRun[w].job
            /\ passRun[w].got \subseteq passRun'[w].got
  PROVE  ToldFits'
<1> SUFFICES ASSUME NEW l \in links', l.told, l.order \notin over
             PROVE  /\ passRow[l.order][l.door].st # "none"
                    /\ passLeft.refunds => passRow[l.order][l.door].link = l.id \/ HasWriter(l)'
  BY DEF ToldFits, LeftStays
<1>1. /\ passRow[l.order][l.door].st # "none"
      /\ passLeft.refunds => passRow[l.order][l.door].link = l.id \/ HasWriter(l)
  BY DEF PassInv, ToldFits
<1>2. ASSUME passLeft.refunds, HasWriter(l) PROVE HasWriter(l)'
  BY <1>2, WriterStays
<1> QED  BY <1>1, <1>2

(* The worker gives its slot back, and no row changes.                     *)
LEMMA BackKeeps ==
  ASSUME PassInv, PassShape', LeftStays, NEW w \in PassWorkers, passRun[w] # IdleAt, Back(w),
         UNCHANGED <<order, over, longest, passRow, links, made>>,
         passLeft.refunds /\ Grants(w) => passRun[w].step \notin {"link", "record"} \/ passRun[w].got = {}
  PROVE  PassInv'
<1>0. PassShape
  BY DEF PassInv
<1>1. /\ passRun'[w] = IdleAt /\ JobRuns(w)' /\ GrantFits(w)' /\ TakeFits(w)'
      /\ \A d \in PassDoors : ~Holds(w, d)'
      /\ \A k \in passJobs' \ passJobs : k.kind = passRun[w].job.kind /\ k.order = OrderAt(w)
  BY <1>0, BackFits
<1>2. OnlyAt(w)
  BY <1>0, BackFits DEF OnlyAt
<1>3. NewCodes(w)
  BY NoNewCodes
<1>4. /\ RefundsAlone(passLeft)' /\ JobsWait' /\ InTurn'
      /\ \A v \in PassWorkers : JobRuns(v)' /\ GrantFits(v)' /\ TakeFits(v)'
  BY <1>1, <1>2, <1>3, OthersRun
<1>5. LinksFit' /\ RowsFit' /\ OnePassPerDoor'
  BY RowsStay
<1>6. Apart'
  <2>1. \A v \in PassWorkers, d \in PassDoors : v # w /\ Holds(v, d) => passRow'[OrderAt(v)][d].st = "pending"
    BY DEF PassInv, Apart
  <2> QED  BY <1>1, <1>2, <2>1, ApartStep
<1>7. ToldFits'
  <2> SUFFICES ASSUME NEW l \in links', l.told, l.order \notin over
               PROVE  /\ passRow[l.order][l.door].st # "none"
                      /\ passLeft.refunds => passRow[l.order][l.door].link = l.id \/ HasWriter(l)'
    BY DEF ToldFits, LeftStays
  <2>1. /\ passRow[l.order][l.door].st # "none"
        /\ passLeft.refunds => passRow[l.order][l.door].link = l.id \/ HasWriter(l)
    BY DEF PassInv, ToldFits
  <2>2. ASSUME passLeft.refunds, HasWriter(l) PROVE HasWriter(l)'
    <3>1. PICK v \in PassWorkers : /\ Grants(v) /\ passRun[v].step \in {"link", "record"} /\ OrderAt(v) = l.order
                                   /\ [door |-> l.door, link |-> l.id] \in passRun[v].got
      BY <2>2 DEF HasWriter
    <3>2. v # w
      BY <2>2, <3>1
    <3>3. passRun'[v] = passRun[v]
      BY <1>2, <3>2 DEF OnlyAt
    <3> QED  BY <3>1, <3>3 DEF HasWriter, Grants, OrderAt
  <2> QED  BY <2>1, <2>2
<1> QED  BY <1>4, <1>5, <1>6, <1>7 DEF PassInv

LEMMA StartsKeeps ==
  ASSUME PassInv, NEW w \in PassWorkers, NEW j \in passJobs, Starts(w, j)
  PROVE  PassInv'
<1> DEFINE x == [IdleAt EXCEPT !.job = j, !.step = "begin"]
<1>0. PassShape /\ j \in PassJob /\ JobFits(j)
  BY DEF PassInv, PassShape, JobsWait
<1>1. x.job = j /\ x.step = "begin" /\ x.todo = {} /\ x.got = {} /\ x \in PassRun
  BY <1>0 DEF IdleAt, PassRun
<1>2. passRun' = [passRun EXCEPT ![w] = x] /\ passJobs' = passJobs \ {j}
  BY DEF Starts
<1> HIDE DEF x
<1>3. passRun'[w] = x /\ OnlyAt(w)
  BY <1>0, <1>2 DEF PassShape, OnlyAt, Starts, sold
<1>4. /\ UNCHANGED <<passRow, links, made, passDead, served, order, over, longest>>
      /\ passRun[w] = IdleAt
  BY DEF Starts, sold, kisi, notes
<1>5. LeftStays
  BY <1>0, WellStays, GoesStays DEF Starts, PassShape
<1>6. PassShape'
  BY <1>0, <1>1, <1>2, <1>4, <1>5 DEF PassShape, LeftStays
<1>7. \A k : JobFits(k) => JobFits(k)'
  BY <1>4, <1>5 DEF JobFits, LeftStays
<1>8. JobsWait' /\ RefundsAlone(passLeft)'
  BY <1>2, <1>5, <1>7 DEF PassInv, JobsWait, RefundsAlone, LeftStays
<1>9. NewCodes(w)
  BY <1>4, NoNewCodes
<1>10. ASSUME NEW v \in PassWorkers PROVE JobRuns(v)' /\ GrantFits(v)' /\ TakeFits(v)'
  <2>1. CASE v = w
    <3>1. JobFits(j)'
      BY <1>0, <1>7
    <3>2. JobRuns(w)'
      BY <1>0, <1>1, <1>3, <3>1 DEF JobRuns, JobFits, Grants
    <3> QED  BY <2>1, <3>2, <1>1, <1>3 DEF GrantFits, TakeFits
  <2>2. CASE v # w
    <3>1. JobRuns(v)'
      BY <1>3, <1>7, <2>2 DEF PassInv, JobRuns, OnlyAt, Grants
    <3>2. GrantFits(v)' /\ TakeFits(v)'
      BY <1>3, <1>4, <1>9, <2>2, OthersGrant, OthersTake
    <3> QED  BY <3>1, <3>2
  <2> QED  BY <2>1, <2>2
<1>11. LinksFit' /\ RowsFit' /\ OnePassPerDoor'
  BY <1>4, RowsStay
<1>12. Apart'
  <2>1. \A d \in PassDoors : ~Holds(w, d)'
    BY <1>1, <1>3 DEF Holds
  <2>2. \A v \in PassWorkers, d \in PassDoors : v # w /\ Holds(v, d) => passRow'[OrderAt(v)][d].st = "pending"
    BY <1>4 DEF PassInv, Apart
  <2> QED  BY <1>3, <2>1, <2>2, ApartStep
<1>13. ToldFits'
  BY <1>3, <1>4, <1>5, ToldRows DEF IdleAt
<1>14. InTurn'
  <2>1. CASE \A v \in PassWorkers : passRun[v] = IdleAt
    BY <1>3, <2>1 DEF InTurn, OnlyAt
  <2>2. CASE ~(\A v \in PassWorkers : passRun[v] = IdleAt)
    <3>1. "lock" \in passLeft.kinds
      BY <1>0, <2>2, GoesStays DEF Starts, PassShape
    <3> QED  BY <1>5, <3>1 DEF InTurn, LeftStays
  <2> QED  BY <2>1, <2>2
<1> QED  BY <1>6, <1>8, <1>10, <1>11, <1>12, <1>13, <1>14 DEF PassInv

LEMMA FaultsKeep ==
  ASSUME PassInv, NEW w \in PassWorkers, PassCrash(w) \/ RecordFails(w) \/ TakeFails(w)
  PROVE  PassInv'
<1>0. PassShape /\ passLeft \in PassScenario
  BY DEF PassInv, PassShape
<1>1. /\ UNCHANGED <<order, over, longest, passRow, links, made, served>> /\ LeftStays
      /\ PassCrash(w) \/ RecordFails(w) => ~passLeft.refunds
  <2>1. CASE PassCrash(w)
    BY <1>0, <2>1, GoesStays DEF PassCrash, sold, kisi, notes, PassInv, RefundsAlone
  <2>2. CASE RecordFails(w)
    BY <1>0, <2>2, GoesStays DEF RecordFails, sold, kisi, PassInv, RefundsAlone
  <2>3. CASE TakeFails(w) /\ ~PassCrash(w) /\ ~RecordFails(w)
    BY <1>0, <2>3, GoesStays DEF TakeFails, sold, kisi
  <2> QED  BY <2>1, <2>2, <2>3
<1>2. passRun[w] # IdleAt /\ passRun[w].job \in PassJob
  <2>1. CASE PassCrash(w)
    <3>1. passRun[w] # IdleAt /\ JobRuns(w)
      BY <2>1 DEF PassCrash, PassInv
    <3> QED  BY <3>1 DEF JobRuns
  <2>2. CASE RecordFails(w) \/ TakeFails(w)
    BY <2>2, NotIdle DEF RecordFails, TakeFails
  <2> QED  BY <2>1, <2>2
<1>3. Back(w)
  <2>1. CASE PassCrash(w)
    <3>1. passRun' = [passRun EXCEPT ![w] = IdleAt] /\ passJobs' = passJobs \cup {passRun[w].job} /\ passDead' = passDead
      BY <2>1 DEF PassCrash, notes
    <3> QED  BY <3>1, <1>0, <1>2 DEF Back, PassShape
  <2>2. CASE RecordFails(w) \/ TakeFails(w)
    <3>1. FailsRun(w)
      BY <2>2 DEF RecordFails, TakeFails
    <3> QED  BY <3>1, <1>0, <1>2, FailsBack
  <2> QED  BY <2>1, <2>2
<1>4. PassShape'
  <2>1. passRun' \in [PassWorkers -> PassRun] /\ passJobs' \subseteq PassJob /\ passDead' \subseteq Orders
    BY <1>0, <1>3, BackShape
  <2> QED  BY <1>0, <1>1, <2>1 DEF PassShape, LeftStays
<1>5. passLeft.refunds /\ Grants(w) => passRun[w].step \notin {"link", "record"}
  <2>1. CASE TakeFails(w)
    BY <2>1 DEF TakeFails
  <2> QED  BY <1>1, <2>1
<1> QED  BY <1>1, <1>2, <1>3, <1>4, <1>5, BackKeeps

(* A grant's claim: the doors it takes were nobody's and have no code.     *)
LEMMA ClaimsKeeps ==
  ASSUME PassInv, NEW w \in PassWorkers, Claims(w)
  PROVE  PassInv'
<1> DEFINE o == passRun[w].job.order
           claimed == Unclaimed(o)
           x == [passRun[w] EXCEPT !.step = "link", !.claims = claimed, !.todo = claimed]
<1>0. PassShape /\ passLeft \in PassScenario
  BY DEF PassInv, PassShape
<1>1. /\ UNCHANGED <<order, over, longest, links, made, served, page>> /\ LeftStays
      /\ Grants(w) /\ passRun[w].step = "begin"
  BY <1>0, WellStays DEF Claims, sold, kisi
<1>2. /\ passRun[w] # IdleAt /\ passRun[w].job \in PassJob /\ o \in Orders /\ o \notin over
      /\ passRun[w] \in PassRun /\ claimed \subseteq PassDoors /\ JobRuns(w)
  BY <1>0, <1>1, NotIdle, RunTyped DEF JobFits, Grants, PassJob, Unclaimed, PassInv
<1>3. CASE claimed = {}
  <2>1. EndsRun(w) /\ passRow' = passRow
    BY <1>3 DEF Claims
  <2>2. Back(w)
    BY <1>0, <2>1, EndsBack
  <2>3. PassShape'
    <3>1. passRun' \in [PassWorkers -> PassRun] /\ passJobs' \subseteq PassJob /\ passDead' \subseteq Orders
      BY <1>0, <2>2, BackShape
    <3> QED  BY <1>0, <1>1, <2>1, <3>1 DEF PassShape, LeftStays
  <2> QED  BY <1>1, <1>2, <2>1, <2>2, <2>3, BackKeeps
<1>4. CASE claimed # {}
  <2>1. /\ passRun' = [passRun EXCEPT ![w] = x] /\ passJobs' = passJobs /\ passDead' = passDead
        /\ passRow' = [passRow EXCEPT ![o] = [d \in PassDoors |->
                         IF d \in claimed THEN [st |-> "pending", link |-> 0] ELSE passRow[o][d]]]
    BY <1>4 DEF Claims
  <2>2. /\ x \in PassRun /\ x.job = passRun[w].job /\ x.step = "link" /\ x.claims = claimed /\ x.todo = claimed
        /\ x.got = passRun[w].got
    BY <1>2 DEF PassRun
  <2>3. \A d \in claimed : passRow[o][d].st = "none"
    BY DEF Unclaimed
  <2> HIDE DEF x, claimed
  <2>4. passRun'[w] = x /\ OnlyAt(w)
    BY <1>0, <1>1, <2>1 DEF PassShape, OnlyAt
  <2>5. /\ \A p \in Orders, d \in PassDoors : passRow'[p][d] = IF p = o /\ d \in claimed THEN [st |-> "pending", link |-> 0]
                                                                                      ELSE passRow[p][d]
        /\ passRow' \in [Orders -> [PassDoors -> PassRowT]]
    BY <1>0, <1>2, <2>1 DEF PassShape, PassRowT
  <2>6. PassShape'
    BY <1>0, <1>1, <2>1, <2>2, <2>5 DEF PassShape, LeftStays
  <2>7. NewCodes(w)
    BY <1>1, NoNewCodes
  <2>8. \A p \in Orders, d \in PassDoors : p = o /\ d \in claimed => passRow[p][d].link = 0
    BY <2>3 DEF PassInv, RowsFit
  <2>9. \A d \in claimed : ~Told(o, d)
    BY <1>2, <2>3 DEF PassInv, ToldFits, Told
  <2>10. JobRuns(w)'
    BY <1>1, <1>2, <2>2, <2>4 DEF JobRuns, Grants, JobFits, LeftStays
  <2>11. x.got = {}
    BY <1>1, <1>2, <2>2 DEF JobRuns
  <2>12. GrantFits(w)' /\ TakeFits(w)'
    <3>1. \A d \in claimed : ~Told(o, d)'
      BY <1>1, <2>2, <2>4, <2>9 DEF Told
    <3>2. OrderAt(w)' = o
      BY <2>2, <2>4 DEF OrderAt
    <3> QED  BY <2>2, <2>4, <2>11, <3>1, <3>2 DEF GrantFits, TakeFits, HasGot
  <2>13. /\ RefundsAlone(passLeft)' /\ JobsWait' /\ InTurn'
         /\ \A v \in PassWorkers : JobRuns(v)' /\ GrantFits(v)' /\ TakeFits(v)'
    BY <1>1, <1>2, <2>1, <2>4, <2>7, <2>10, <2>12, OthersRun
  <2>14. LinksFit' /\ OnePassPerDoor'
    BY <1>1 DEF PassInv, LinksFit, OnePassPerDoor
  <2>15. RowsFit'
    <3>1. ASSUME NEW p \in Orders, NEW d \in PassDoors
          PROVE  /\ passRow'[p][d].link = passRow[p][d].link
                 /\ passRow'[p][d].st = "active" <=> passRow[p][d].st = "active"
      BY <2>3, <2>5, <2>8
    <3> QED  BY <1>1, <3>1 DEF PassInv, RowsFit
  <2>16. Apart'
    <3>1. ASSUME NEW v \in PassWorkers, NEW d \in PassDoors, Holds(v, d)
          PROVE  passRow[OrderAt(v)][d].st = "pending"
      BY <3>1 DEF PassInv, Apart
    <3>2. \A v \in PassWorkers, d \in PassDoors : Holds(v, d) => OrderAt(v) \in Orders
      <4> SUFFICES ASSUME NEW v \in PassWorkers, NEW d \in PassDoors, Holds(v, d) PROVE OrderAt(v) \in Orders
        OBVIOUS
      <4>1. passRun[v].step # "idle"
        BY DEF Holds
      <4> QED  BY <4>1, NotIdle DEF PassJob, OrderAt
    <3>3. ASSUME NEW d \in PassDoors, Holds(w, d)'
          PROVE  /\ OrderAt(w)' = OrderAt(w) /\ passRow'[OrderAt(w)][d].st = "pending"
                 /\ \A v \in PassWorkers : v # w /\ OrderAt(v) = OrderAt(w) => ~Holds(v, d)
      <4>1. d \in claimed
        BY <2>2, <2>4, <3>3 DEF Holds
      <4> QED  BY <1>2, <2>2, <2>3, <2>4, <2>5, <3>1, <4>1 DEF OrderAt
    <3>4. \A v \in PassWorkers, d \in PassDoors : v # w /\ Holds(v, d) => passRow'[OrderAt(v)][d].st = "pending"
      BY <2>3, <2>5, <3>1, <3>2
    <3> QED  BY <2>4, <3>3, <3>4, ApartStep
  <2>17. ToldFits'
    <3> SUFFICES ASSUME NEW l \in links, l.told, l.order \notin over
                 PROVE  /\ passRow'[l.order][l.door].st # "none"
                        /\ passLeft.refunds => passRow'[l.order][l.door].link = l.id \/ HasWriter(l)'
      BY <1>1 DEF ToldFits, LeftStays
    <3>1. l.order \in Orders /\ l.door \in PassDoors
      BY <1>0 DEF PassShape, PassLink
    <3>2. /\ passRow[l.order][l.door].st # "none"
          /\ passLeft.refunds => passRow[l.order][l.door].link = l.id \/ HasWriter(l)
      BY DEF PassInv, ToldFits
    <3>3. passRow'[l.order][l.door] = passRow[l.order][l.door]
      BY <2>3, <2>5, <3>1, <3>2
    <3>4. HasWriter(l) => HasWriter(l)'
      BY <1>1, <2>4, WriterStays
    <3> QED  BY <3>2, <3>3, <3>4
  <2> QED  BY <2>6, <2>13, <2>14, <2>15, <2>16, <2>17 DEF PassInv
<1> QED  BY <1>3, <1>4

LEMMA GrantOf ==
  ASSUME PassInv, NEW w \in PassWorkers, Grants(w)
  PROVE  /\ passRun[w] # IdleAt /\ passRun[w].job \in PassJob /\ passRun[w] \in PassRun
         /\ OrderAt(w) \in Orders /\ OrderAt(w) \notin over /\ order[OrderAt(w)] # "none"
<1>1. passRun[w].job.kind # "none"
  BY DEF Grants
<1>2. passRun[w] # IdleAt /\ passRun[w].job \in PassJob /\ JobFits(passRun[w].job)
  BY <1>1, GrantBusy
<1> QED  BY <1>2, RunTyped DEF JobFits, Grants, OrderAt, PassJob, PassInv

LEMMA HoldsRow ==
  ASSUME PassInv, NEW w \in PassWorkers, NEW d \in PassDoors, Holds(w, d)
  PROVE  /\ Grants(w) /\ OrderAt(w) \in Orders /\ passRow[OrderAt(w)][d].st = "pending"
         /\ passRow[OrderAt(w)][d].link = 0
<1>1. Grants(w) /\ passRow[OrderAt(w)][d].st = "pending"
  BY DEF Holds, PassInv, Apart
<1>2. OrderAt(w) \in Orders
  BY <1>1, GrantOf
<1> QED  BY <1>1, <1>2 DEF PassInv, RowsFit

(* A code is made, or Kisi was asked in vain.                              *)
LEMMA LinksKeeps ==
  ASSUME PassInv, NEW w \in PassWorkers, NEW d \in PassDoors, NEW how \in {"ok", "kisi", "late"}, Links(w, d, how)
  PROVE  PassInv'
<1> DEFINE o == passRun[w].job.order
           n == [id |-> made + 1, order |-> o, door |-> d, told |-> how = "ok"]
           g == [door |-> d, link |-> made + 1]
           new == IF how = "ok" THEN passRun[w].got \cup {g} ELSE passRun[w].got
           x == [passRun[w] EXCEPT !.todo = passRun[w].todo \ {d}, !.got = new]
<1>0. PassShape /\ passLeft \in PassScenario /\ made \in Nat
  BY DEF PassInv, PassShape
<1>1. /\ UNCHANGED <<order, over, longest, passRow, passJobs, passDead, served, page>>
      /\ Grants(w) /\ passRun[w].step = "link" /\ d \in passRun[w].todo
      /\ passRun' = [passRun EXCEPT ![w] = x]
      /\ links' = (IF how = "kisi" THEN links ELSE links \cup {n}) /\ made' = (IF how = "kisi" THEN made ELSE made + 1)
  BY DEF Links, sold, kisi, notes
<1>2. LeftStays
  BY <1>0, WellStays, GoesStays DEF Links
<1>3. /\ passRun[w] # IdleAt /\ passRun[w].job \in PassJob /\ passRun[w] \in PassRun
      /\ o \in Orders /\ o \notin over /\ order[o] # "none" /\ JobRuns(w) /\ GrantFits(w)
  BY <1>1, GrantOf DEF OrderAt, PassInv
<1>4. /\ x \in PassRun /\ x.job = passRun[w].job /\ x.step = "link" /\ x.claims = passRun[w].claims
      /\ x.todo = passRun[w].todo \ {d} /\ x.got = new
  <2>1. g \in GotPass
    BY <1>0 DEF GotPass
  <2> HIDE DEF g
  <2> QED  BY <1>1, <1>3, <2>1 DEF PassRun
<1>5. n \in PassLink /\ n.id = made + 1 /\ n.order = o /\ n.door = d /\ n.told = (how = "ok")
  BY <1>0, <1>3 DEF PassLink
<1>6. g \in GotPass /\ g.door = d /\ g.link = made + 1
  BY <1>0 DEF GotPass
<1>7. how = "ok" => new = passRun[w].got \cup {g}
  OBVIOUS
<1>8. how # "ok" => new = passRun[w].got
  OBVIOUS
<1>9. Holds(w, d) /\ ~HasGot(w, d) /\ ~Told(o, d) /\ d \in passRun[w].claims
  BY <1>1, <1>3 DEF GrantFits, Holds, OrderAt
<1> HIDE DEF x, n, g, new
<1>10. passRun'[w] = x /\ OnlyAt(w)
  BY <1>0, <1>1 DEF PassShape, OnlyAt
<1>11. PassShape'
  BY <1>0, <1>1, <1>2, <1>4, <1>5 DEF PassShape, LeftStays
<1>12. NewCodes(w)
  <2>1. \A v \in PassWorkers : v # w /\ OrderAt(v) = o => ~Holds(v, d)
    BY <1>9 DEF PassInv, Apart, OrderAt
  <2> QED  BY <1>0, <1>1, <1>5, <2>1 DEF NewCodes
<1>13. JobRuns(w)'
  BY <1>1, <1>2, <1>3, <1>4, <1>10 DEF JobRuns, Grants, JobFits, LeftStays
<1>14. TakeFits(w)'
  BY <1>4, <1>10 DEF TakeFits
<1>15. GrantFits(w)'
  <2> USE <1>0, <1>1, <1>3, <1>4
  <2>1. x.got \subseteq GotPass
    BY <1>6, <1>7, <1>8 DEF GrantFits
  <2>2. \A h \in x.got : h \in passRun[w].got \/ (how = "ok" /\ h = g)
    BY <1>7, <1>8
  <2>3. \A h \in passRun[w].got : h.door # d /\ h.door \in passRun[w].claims /\ h.link \in 1 .. made
    BY <1>9 DEF GrantFits, HasGot
  <2>4. \A h \in x.got : h.door \in x.claims /\ h.link \in 1 .. made'
    BY <1>6, <1>9, <2>2, <2>3
  <2>5. \A h, i \in x.got : h.door = i.door => h = i
    BY <1>6, <2>2, <2>3 DEF GrantFits
  <2>6. ASSUME NEW h \in x.got, NEW l \in links', l.id = h.link PROVE l.order = o /\ l.door = h.door
    <3>1. CASE l \in links
      <4>1. l.id \in 1 .. made
        BY <3>1 DEF PassInv, LinksFit
      <4>2. h \in passRun[w].got
        BY <2>2, <2>6, <4>1, <1>6
      <4> QED  BY <2>6, <3>1, <4>2 DEF GrantFits, OrderAt
    <3>2. CASE l \notin links
      <4>1. l = n /\ l.id = made + 1 /\ how # "kisi"
        BY <3>2, <1>5
      <4>2. h = g
        BY <2>2, <2>3, <2>6, <4>1
      <4> QED  BY <4>1, <4>2, <1>5, <1>6
    <3> QED  BY <3>1, <3>2
  <2>7. \A e \in x.todo : ~\E h \in x.got : h.door = e
    BY <1>6, <2>2 DEF GrantFits, HasGot
  <2>8. ASSUME NEW e \in x.claims, ~\E h \in x.got : h.door = e
        PROVE  ~\E l \in links' : l.told /\ l.order = o /\ l.door = e
    <3>1. ~HasGot(w, e)
      BY <2>8, <1>7, <1>8 DEF HasGot
    <3>2. ~Told(o, e)
      BY <3>1 DEF GrantFits, OrderAt
    <3>3. how = "ok" => e # d
      BY <2>8, <1>6, <1>7
    <3> QED  BY <3>2, <3>3, <1>5 DEF Told
  <2>9. OrderAt(w)' = o /\ HasGot(w, d)' = (\E h \in x.got : h.door = d)
    BY <1>10 DEF OrderAt, HasGot
  <2>10. \A e : Told(o, e)' <=> \E l \in links' : l.told /\ l.order = o /\ l.door = e
    BY <1>10 DEF Told
  <2>11. \A e : HasGot(w, e)' <=> \E h \in x.got : h.door = e
    BY <1>10 DEF HasGot
  <2>12. x.todo \subseteq x.claims
    BY DEF GrantFits
  <2> QED  BY <1>10, <2>1, <2>4, <2>5, <2>6, <2>7, <2>8, <2>9, <2>10, <2>11, <2>12 DEF GrantFits
<1>16. /\ RefundsAlone(passLeft)' /\ JobsWait' /\ InTurn'
       /\ \A v \in PassWorkers : JobRuns(v)' /\ GrantFits(v)' /\ TakeFits(v)'
  BY <1>1, <1>2, <1>3, <1>10, <1>12, <1>13, <1>14, <1>15, OthersRun
<1>17. LinksFit'
  BY <1>0, <1>1, <1>3, <1>5 DEF PassInv, LinksFit
<1>18. RowsFit'
  BY <1>0, <1>1, <1>5 DEF PassInv, RowsFit
<1>19. OnePassPerDoor'
  BY <1>1, <1>5, <1>9 DEF PassInv, OnePassPerDoor, Told
<1>20. Apart'
  <2>1. \A e \in PassDoors : Holds(w, e)' => Holds(w, e)
    BY <1>1, <1>4, <1>10 DEF Holds
  <2>2. OrderAt(w)' = OrderAt(w)
    BY <1>4, <1>10 DEF OrderAt
  <2> QED  BY <1>1, <1>10, <2>1, <2>2, ApartStep DEF PassInv, Apart
<1>21. ToldFits'
  <2> SUFFICES ASSUME NEW l \in links', l.told, l.order \notin over
               PROVE  /\ passRow[l.order][l.door].st # "none"
                      /\ passLeft.refunds => passRow[l.order][l.door].link = l.id \/ HasWriter(l)'
    BY <1>1, <1>2 DEF ToldFits, LeftStays
  <2>1. CASE l \in links
    <3>1. /\ passRow[l.order][l.door].st # "none"
          /\ passLeft.refunds => passRow[l.order][l.door].link = l.id \/ HasWriter(l)
      BY <2>1 DEF PassInv, ToldFits
    <3>2. passRun[w].got \subseteq x.got
      BY <1>4, <1>7, <1>8
    <3>3. HasWriter(l) => HasWriter(l)'
      BY <1>4, <1>10, <3>2, WriterStays
    <3> QED  BY <3>1, <3>3
  <2>2. CASE l \notin links
    <3>1. l = n /\ how = "ok"
      BY <2>2, <1>1, <1>5
    <3>2. passRow[o][d].st = "pending"
      BY <1>9, HoldsRow DEF OrderAt
    <3>3. [door |-> l.door, link |-> l.id] = g
      BY <3>1, <1>5 DEF g
    <3>4. g \in x.got /\ x.step = "link" /\ x.job.kind = "grant" /\ x.job.order = o
      BY <3>1, <1>1, <1>4, <1>7 DEF Grants
    <3>5. HasWriter(l)'
      BY <3>1, <3>3, <3>4, <1>5, <1>10 DEF HasWriter, Grants, OrderAt
    <3> QED  BY <3>1, <3>2, <3>5, <1>5
  <2> QED  BY <2>1, <2>2
<1> QED  BY <1>11, <1>16, <1>17, <1>18, <1>19, <1>20, <1>21 DEF PassInv

(* The doors without a code are let go.                                    *)
LEMMA ReleasesKeeps ==
  ASSUME PassInv, NEW w \in PassWorkers, NEW ok \in BOOLEAN, Releases(w, ok)
  PROVE  PassInv'
<1> DEFINE o == passRun[w].job.order
           got == {g.door : g \in passRun[w].got}
           failed == passRun[w].claims \ got
           x == [passRun[w] EXCEPT !.step = "record"]
<1>0. PassShape /\ passLeft \in PassScenario /\ made \in Nat
  BY DEF PassInv, PassShape
<1>1. /\ UNCHANGED <<order, over, longest, links, made, served, page>>
      /\ Grants(w) /\ passRun[w].step = "link" /\ passRun[w].todo = {}
      /\ passRow' = (IF ok THEN [passRow EXCEPT ![o] = Freed(passRow[o], failed)] ELSE passRow)
      /\ IF got = {} THEN FailsRun(w)
                     ELSE passRun' = [passRun EXCEPT ![w] = x] /\ UNCHANGED <<passJobs, passDead>>
  BY DEF Releases, sold, kisi
<1>2. LeftStays
  BY <1>0, WellStays, GoesStays DEF Releases
<1>3. /\ passRun[w] # IdleAt /\ passRun[w].job \in PassJob /\ passRun[w] \in PassRun
      /\ o \in Orders /\ o \notin over /\ JobRuns(w) /\ GrantFits(w)
  BY <1>1, GrantOf DEF OrderAt, PassInv
<1>4. /\ x \in PassRun /\ x.job = passRun[w].job /\ x.step = "record" /\ x.claims = passRun[w].claims
      /\ x.todo = passRun[w].todo /\ x.got = passRun[w].got
  BY <1>3 DEF PassRun
<1>5. \A d : d \in failed <=> d \in passRun[w].claims /\ ~HasGot(w, d)
  BY DEF HasGot
<1>6. \A d \in failed : Holds(w, d) /\ ~Told(o, d) /\ d \in PassDoors
  BY <1>1, <1>3, <1>5 DEF GrantFits, Holds, OrderAt, PassRun
<1>7. got = {} <=> passRun[w].got = {}
  OBVIOUS
<1> HIDE DEF x, got, failed
<1>8. /\ \A p \in Orders, d \in PassDoors :
           \/ passRow'[p][d] = passRow[p][d]
           \/ p = o /\ d \in failed /\ passRow'[p][d] = NoRow
      /\ passRow' \in [Orders -> [PassDoors -> PassRowT]]
  <2>1. CASE ok
    <3>1. passRow' = [passRow EXCEPT ![o] = Freed(passRow[o], failed)]
      BY <2>1, <1>1
    <3>2. NoRow \in PassRowT
      BY DEF NoRow, PassRowT
    <3>3. Freed(passRow[o], failed) \in [PassDoors -> PassRowT]
      BY <1>0, <1>3, <3>2 DEF Freed, PassShape
    <3>4. \A d \in PassDoors : \/ Freed(passRow[o], failed)[d] = passRow[o][d]
                               \/ d \in failed /\ Freed(passRow[o], failed)[d] = NoRow
      BY DEF Freed
    <3> QED  BY <1>0, <1>3, <3>1, <3>3, <3>4 DEF PassShape
  <2>2. CASE ~ok
    BY <2>2, <1>0, <1>1 DEF PassShape
  <2> QED  BY <2>1, <2>2
<1>9. \A d \in failed : passRow[o][d].st = "pending" /\ passRow[o][d].link = 0
  BY <1>6, HoldsRow DEF OrderAt
<1>10. OnlyAt(w) /\ passRun'[w] = (IF got = {} THEN IdleAt ELSE x)
  BY <1>0, <1>1 DEF PassShape, OnlyAt, FailsRun
<1>11. NewCodes(w)
  BY <1>1, NoNewCodes
<1>12. /\ passRun' \in [PassWorkers -> PassRun] /\ passJobs' \subseteq PassJob /\ passDead' \subseteq Orders
       /\ JobRuns(w)' /\ GrantFits(w)' /\ TakeFits(w)'
       /\ \A k \in passJobs' \ passJobs : k.kind = passRun[w].job.kind /\ k.order = OrderAt(w)
       /\ \A d \in PassDoors : Holds(w, d)' => HasGot(w, d) /\ Holds(w, d) /\ OrderAt(w)' = OrderAt(w)
  <2>1. CASE got = {}
    <3>1. FailsRun(w)
      BY <2>1, <1>1
    <3>2. Back(w)
      BY <1>0, <1>3, <3>1, FailsBack
    <3>3. passRun' \in [PassWorkers -> PassRun] /\ passJobs' \subseteq PassJob /\ passDead' \subseteq Orders
      BY <1>0, <3>2, BackShape
    <3>4. /\ JobRuns(w)' /\ GrantFits(w)' /\ TakeFits(w)' /\ \A d \in PassDoors : ~Holds(w, d)'
          /\ \A k \in passJobs' \ passJobs : k.kind = passRun[w].job.kind /\ k.order = OrderAt(w)
      BY <1>0, <3>2, BackFits
    <3> QED  BY <3>3, <3>4
  <2>2. CASE got # {}
    <3>1. passRun' = [passRun EXCEPT ![w] = x] /\ passJobs' = passJobs /\ passDead' = passDead /\ passRun'[w] = x
      BY <1>1, <1>10, <2>2
    <3>2. passRun' \in [PassWorkers -> PassRun] /\ passJobs' \subseteq PassJob /\ passDead' \subseteq Orders
      BY <1>0, <1>4, <3>1 DEF PassShape
    <3>3. JobRuns(w)'
      BY <1>1, <1>2, <1>3, <1>4, <3>1 DEF JobRuns, Grants, JobFits, LeftStays
    <3>4. GrantFits(w)' /\ TakeFits(w)'
      BY <1>1, <1>3, <1>4, <1>7, <2>2, <3>1 DEF GrantFits, TakeFits, OrderAt
    <3>5. \A d \in PassDoors : Holds(w, d)' => HasGot(w, d) /\ Holds(w, d) /\ OrderAt(w)' = OrderAt(w)
      BY <1>1, <1>3, <1>4, <3>1 DEF Holds, HasGot, OrderAt, GrantFits
    <3> QED  BY <3>1, <3>2, <3>3, <3>4, <3>5
  <2> QED  BY <2>1, <2>2
<1>13. PassShape'
  BY <1>0, <1>1, <1>2, <1>8, <1>12 DEF PassShape, LeftStays
<1>14. /\ RefundsAlone(passLeft)' /\ JobsWait' /\ InTurn'
       /\ \A v \in PassWorkers : JobRuns(v)' /\ GrantFits(v)' /\ TakeFits(v)'
  BY <1>2, <1>3, <1>10, <1>11, <1>12, OthersRun
<1>15. LinksFit' /\ OnePassPerDoor'
  BY <1>1 DEF PassInv, LinksFit, OnePassPerDoor
<1>16. RowsFit'
  <2>1. NoRow.st = "none" /\ NoRow.link = 0
    BY DEF NoRow
  <2> QED  BY <1>0, <1>1, <1>8, <2>1 DEF PassInv, RowsFit, LinksFit
<1>17. Apart'
  <2>1. \A v \in PassWorkers, d \in PassDoors : Holds(v, d) /\ ~(OrderAt(v) = o /\ d \in failed) =>
           passRow'[OrderAt(v)][d].st = "pending"
    BY <1>8, HoldsRow
  <2>2. \A v \in PassWorkers, d \in PassDoors : v # w /\ Holds(v, d) => ~(OrderAt(v) = o /\ d \in failed)
    BY <1>6 DEF PassInv, Apart, OrderAt
  <2>3. \A d \in PassDoors : HasGot(w, d) => d \notin failed
    BY <1>5
  <2>4. ASSUME NEW d \in PassDoors, Holds(w, d)'
        PROVE  /\ OrderAt(w)' = OrderAt(w) /\ passRow'[OrderAt(w)][d].st = "pending"
               /\ \A v \in PassWorkers : v # w /\ OrderAt(v) = OrderAt(w) => ~Holds(v, d)
    <3>1. HasGot(w, d) /\ Holds(w, d) /\ OrderAt(w)' = OrderAt(w)
      BY <1>12, <2>4
    <3>2. passRow'[OrderAt(w)][d].st = "pending"
      BY <2>1, <2>3, <3>1
    <3> QED  BY <3>1, <3>2 DEF PassInv, Apart
  <2>5. \A v \in PassWorkers, d \in PassDoors : v # w /\ Holds(v, d) => passRow'[OrderAt(v)][d].st = "pending"
    BY <2>1, <2>2
  <2> QED  BY <1>10, <2>4, <2>5, ApartStep
<1>18. ToldFits'
  <2> SUFFICES ASSUME NEW l \in links, l.told, l.order \notin over
               PROVE  /\ passRow'[l.order][l.door].st # "none"
                      /\ passLeft.refunds => passRow'[l.order][l.door].link = l.id \/ HasWriter(l)'
    BY <1>1, <1>2 DEF ToldFits, LeftStays
  <2>1. l.order \in Orders /\ l.door \in PassDoors
    BY <1>0 DEF PassShape, PassLink
  <2>2. /\ passRow[l.order][l.door].st # "none"
        /\ passLeft.refunds => passRow[l.order][l.door].link = l.id \/ HasWriter(l)
    BY DEF PassInv, ToldFits
  <2>3. passRow'[l.order][l.door] = passRow[l.order][l.door]
    BY <1>6, <1>8, <2>1 DEF Told
  <2>4. HasWriter(l) => HasWriter(l)'
    <3>1. passRun[w].got # {} => got # {} /\ passRun'[w] = x
      BY <1>7, <1>10
    <3> QED  BY <1>4, <1>10, <3>1, WriterStays
  <2> QED  BY <2>2, <2>3, <2>4
<1> QED  BY <1>13, <1>14, <1>15, <1>16, <1>17, <1>18 DEF PassInv

(* A code is recorded, in the row the worker held.                         *)
LEMMA RecordsKeeps ==
  ASSUME PassInv, NEW w \in PassWorkers, NEW g \in passRun[w].got, RecordsPass(w, g)
  PROVE  PassInv'
<1> DEFINE o == passRun[w].job.order
           x == [passRun[w] EXCEPT !.got = passRun[w].got \ {g}]
<1>0. PassShape /\ passLeft \in PassScenario /\ made \in Nat
  BY DEF PassInv, PassShape
<1>1. /\ UNCHANGED <<order, over, longest, links, made, page>>
      /\ Grants(w) /\ passRun[w].step = "record" /\ served' = served \cup {o}
      /\ passRow' = [passRow EXCEPT ![o][g.door] = Recorded(g.link)]
      /\ IF passRun[w].got = {g} THEN EndsRun(w)
                                 ELSE passRun' = [passRun EXCEPT ![w] = x] /\ UNCHANGED <<passJobs, passDead>>
  BY DEF RecordsPass, sold, kisi
<1>2. LeftStays
  BY <1>0, WellStays DEF RecordsPass
<1>3. /\ passRun[w] # IdleAt /\ passRun[w].job \in PassJob /\ passRun[w] \in PassRun
      /\ o \in Orders /\ o \notin over /\ JobRuns(w) /\ GrantFits(w)
  BY <1>1, GrantOf DEF OrderAt, PassInv
<1>4. /\ x \in PassRun /\ x.job = passRun[w].job /\ x.step = "record" /\ x.claims = passRun[w].claims
      /\ x.todo = passRun[w].todo /\ x.got = passRun[w].got \ {g}
  BY <1>1, <1>3 DEF PassRun
<1>5. /\ g.door \in PassDoors /\ g.link \in 1 .. made /\ g.link # 0
      /\ \A l \in links : l.id = g.link => l.order = o /\ l.door = g.door
      /\ \A h \in passRun[w].got : h.door = g.door => h = g
  BY <1>0, <1>1, <1>3 DEF GrantFits, GotPass, OrderAt
<1>6. Holds(w, g.door) /\ passRow[o][g.door].st = "pending" /\ passRow[o][g.door].link = 0
  <2>1. Holds(w, g.door)
    BY <1>1 DEF Holds, HasGot
  <2> QED  BY <1>5, <2>1, HoldsRow DEF OrderAt
<1>7. /\ \A p \in Orders, d \in PassDoors :
           passRow'[p][d] = IF p = o /\ d = g.door THEN Recorded(g.link) ELSE passRow[p][d]
      /\ passRow' \in [Orders -> [PassDoors -> PassRowT]]
      /\ Recorded(g.link).st = "active" /\ Recorded(g.link).link = g.link
  <2>1. Recorded(g.link) \in PassRowT
    BY <1>0, <1>5 DEF Recorded, PassRowT
  <2>2. Recorded(g.link).st = "active" /\ Recorded(g.link).link = g.link
    BY DEF Recorded
  <2> QED  BY <1>0, <1>1, <1>3, <1>5, <2>1, <2>2 DEF PassShape
<1> HIDE DEF x
<1>8. OnlyAt(w) /\ passRun'[w] = (IF passRun[w].got = {g} THEN IdleAt ELSE x)
  BY <1>0, <1>1 DEF PassShape, OnlyAt, EndsRun
<1>9. NewCodes(w)
  BY <1>1, NoNewCodes
<1>10. /\ passRun' \in [PassWorkers -> PassRun] /\ passJobs' \subseteq PassJob /\ passDead' \subseteq Orders
       /\ JobRuns(w)' /\ GrantFits(w)' /\ TakeFits(w)'
       /\ \A k \in passJobs' \ passJobs : k.kind = passRun[w].job.kind /\ k.order = OrderAt(w)
       /\ \A d \in PassDoors : Holds(w, d)' => d # g.door /\ Holds(w, d) /\ OrderAt(w)' = OrderAt(w)
  <2>1. CASE passRun[w].got = {g}
    <3>1. EndsRun(w)
      BY <2>1, <1>1
    <3>2. Back(w)
      BY <1>0, <3>1, EndsBack
    <3>3. passRun' \in [PassWorkers -> PassRun] /\ passJobs' \subseteq PassJob /\ passDead' \subseteq Orders
      BY <1>0, <3>2, BackShape
    <3>4. /\ JobRuns(w)' /\ GrantFits(w)' /\ TakeFits(w)' /\ \A d \in PassDoors : ~Holds(w, d)'
          /\ \A k \in passJobs' \ passJobs : k.kind = passRun[w].job.kind /\ k.order = OrderAt(w)
      BY <1>0, <3>2, BackFits
    <3> QED  BY <3>3, <3>4
  <2>2. CASE passRun[w].got # {g}
    <3>1. passRun' = [passRun EXCEPT ![w] = x] /\ passJobs' = passJobs /\ passDead' = passDead /\ passRun'[w] = x
      BY <1>1, <1>8, <2>2
    <3>2. passRun' \in [PassWorkers -> PassRun] /\ passJobs' \subseteq PassJob /\ passDead' \subseteq Orders
      BY <1>0, <1>4, <3>1 DEF PassShape
    <3>3. JobRuns(w)'
      BY <1>1, <1>2, <1>3, <1>4, <3>1 DEF JobRuns, Grants, JobFits, LeftStays
    <3>4. x.got # {}
      BY <1>4, <2>2
    <3>5. GrantFits(w)' /\ TakeFits(w)'
      BY <1>1, <1>3, <1>4, <3>1, <3>4 DEF GrantFits, TakeFits, OrderAt
    <3>6. \A d \in PassDoors : Holds(w, d)' => d # g.door /\ Holds(w, d) /\ OrderAt(w)' = OrderAt(w)
      BY <1>1, <1>4, <1>5, <3>1 DEF Holds, HasGot, OrderAt, Grants
    <3> QED  BY <3>1, <3>2, <3>3, <3>5, <3>6
  <2> QED  BY <2>1, <2>2
<1>11. PassShape'
  BY <1>0, <1>1, <1>2, <1>3, <1>7, <1>10 DEF PassShape, LeftStays
<1>12. /\ RefundsAlone(passLeft)' /\ JobsWait' /\ InTurn'
       /\ \A v \in PassWorkers : JobRuns(v)' /\ GrantFits(v)' /\ TakeFits(v)'
  BY <1>2, <1>3, <1>8, <1>9, <1>10, OthersRun
<1>13. LinksFit' /\ OnePassPerDoor'
  BY <1>1 DEF PassInv, LinksFit, OnePassPerDoor
<1>14. RowsFit'
  <2> SUFFICES ASSUME NEW p \in Orders, NEW d \in PassDoors
               PROVE  /\ passRow'[p][d].link \in 0 .. made
                      /\ passRow'[p][d].st = "active" <=> passRow'[p][d].link # 0
                      /\ \A l \in links : l.id = passRow'[p][d].link => l.order = p /\ l.door = d
    BY <1>1 DEF RowsFit
  <2>1. CASE p = o /\ d = g.door
    BY <1>0, <1>5, <1>7, <2>1
  <2>2. CASE ~(p = o /\ d = g.door)
    BY <1>7, <2>2 DEF PassInv, RowsFit
  <2> QED  BY <2>1, <2>2
<1>15. Apart'
  <2>1. \A v \in PassWorkers, d \in PassDoors : Holds(v, d) /\ ~(OrderAt(v) = o /\ d = g.door) =>
           passRow'[OrderAt(v)][d].st = "pending"
    BY <1>7, HoldsRow
  <2>2. \A v \in PassWorkers, d \in PassDoors : v # w /\ Holds(v, d) => ~(OrderAt(v) = o /\ d = g.door)
    BY <1>6 DEF PassInv, Apart, OrderAt
  <2>3. ASSUME NEW d \in PassDoors, Holds(w, d)'
        PROVE  /\ OrderAt(w)' = OrderAt(w) /\ passRow'[OrderAt(w)][d].st = "pending"
               /\ \A v \in PassWorkers : v # w /\ OrderAt(v) = OrderAt(w) => ~Holds(v, d)
    <3>1. d # g.door /\ Holds(w, d) /\ OrderAt(w)' = OrderAt(w)
      BY <1>10, <2>3
    <3>2. passRow'[OrderAt(w)][d].st = "pending"
      BY <2>1, <3>1
    <3> QED  BY <3>1, <3>2 DEF PassInv, Apart
  <2>4. \A v \in PassWorkers, d \in PassDoors : v # w /\ Holds(v, d) => passRow'[OrderAt(v)][d].st = "pending"
    BY <2>1, <2>2
  <2> QED  BY <1>8, <2>3, <2>4, ApartStep
<1>16. ToldFits'
  <2> SUFFICES ASSUME NEW l \in links, l.told, l.order \notin over
               PROVE  /\ passRow'[l.order][l.door].st # "none"
                      /\ passLeft.refunds => passRow'[l.order][l.door].link = l.id \/ HasWriter(l)'
    BY <1>1, <1>2 DEF ToldFits, LeftStays
  <2>1. l.order \in Orders /\ l.door \in PassDoors /\ l.id \in 1 .. made
    BY <1>0 DEF PassShape, PassLink, PassInv, LinksFit
  <2>2. /\ passRow[l.order][l.door].st # "none"
        /\ passLeft.refunds => passRow[l.order][l.door].link = l.id \/ HasWriter(l)
    BY DEF PassInv, ToldFits
  <2>3. passRow'[l.order][l.door].st # "none"
    BY <1>7, <2>1, <2>2
  <2>4. ASSUME passLeft.refunds PROVE passRow'[l.order][l.door].link = l.id \/ HasWriter(l)'
    <3>1. CASE HasWriter(l)
      <4>1. PICK v \in PassWorkers : /\ Grants(v) /\ passRun[v].step \in {"link", "record"} /\ OrderAt(v) = l.order
                                     /\ [door |-> l.door, link |-> l.id] \in passRun[v].got
        BY <3>1 DEF HasWriter
      <4>2. v = w
        <5>1. passRun[v] # IdleAt
          BY <4>1, GrantOf
        <5> QED  BY <5>1, <1>3, <2>4, OneBusy
      <4>3. l.order = o
        BY <4>1, <4>2 DEF OrderAt
      <4>4. CASE [door |-> l.door, link |-> l.id] = g
        <5>1. l.door = g.door /\ l.id = g.link
          BY <4>4
        <5> QED  BY <4>3, <5>1, <1>7, <2>1
      <4>5. CASE [door |-> l.door, link |-> l.id] # g
        <5>1. passRun'[w] = x /\ [door |-> l.door, link |-> l.id] \in x.got
          BY <1>4, <1>8, <4>1, <4>2, <4>5
        <5> QED  BY <5>1, <1>1, <1>4, <4>3 DEF HasWriter, Grants, OrderAt
      <4> QED  BY <4>4, <4>5
    <3>2. CASE passRow[l.order][l.door].link = l.id
      BY <1>6, <1>7, <2>1, <3>2
    <3> QED  BY <2>2, <2>4, <3>1, <3>2
  <2> QED  BY <2>3, <2>4
<1> QED  BY <1>11, <1>12, <1>13, <1>14, <1>15, <1>16 DEF PassInv

LEMMA RevokeOf ==
  ASSUME PassInv, NEW w \in PassWorkers, passRun[w].job.kind \in {"refund", "expire"}
  PROVE  /\ passRun[w] # IdleAt /\ passRun[w].job \in PassJob /\ passRun[w] \in PassRun
         /\ ~Grants(w) /\ OrderAt(w) \in Orders /\ JobFits(passRun[w].job)
<1>1. passRun[w] # IdleAt /\ passRun[w].job \in PassJob /\ JobFits(passRun[w].job)
  BY GrantBusy
<1> QED  BY <1>1, RunTyped DEF Grants, OrderAt, PassJob, PassInv

(* A revoke's slot after a step of it that changes no row: ready, taking   *)
(* or dropping.                                                            *)
LEMMA RevokeKeeps ==
  ASSUME PassInv, LeftStays, NEW w \in PassWorkers, passRun[w].job.kind \in {"refund", "expire"},
         NEW x \in PassRun, x.job = passRun[w].job, x.step \in {"take", "drop"},
         passRun' = [passRun EXCEPT ![w] = x], passJobs' = passJobs, passDead' = passDead, served' = served,
         UNCHANGED <<order, over, longest, passRow, made>>, links' \subseteq links, TakeFits(w)'
  PROVE  PassInv'
<1>0. PassShape
  BY DEF PassInv
<1>1. /\ passRun[w] # IdleAt /\ passRun[w].job \in PassJob /\ ~Grants(w) /\ JobFits(passRun[w].job)
  BY RevokeOf
<1>2. OnlyAt(w) /\ passRun'[w] = x
  BY <1>0 DEF PassShape, OnlyAt
<1>3. PassShape'
  BY <1>0 DEF PassShape, LeftStays, PassLink
<1>4. NewCodes(w)
  BY NoNewCodes
<1>5. JobRuns(w)'
  BY <1>1, <1>2 DEF JobRuns, Grants, JobFits, LeftStays
<1>6. GrantFits(w)'
  BY <1>2 DEF GrantFits
<1>7. /\ RefundsAlone(passLeft)' /\ JobsWait' /\ InTurn'
      /\ \A v \in PassWorkers : JobRuns(v)' /\ GrantFits(v)' /\ TakeFits(v)'
  BY <1>1, <1>2, <1>4, <1>5, <1>6, OthersRun
<1>8. LinksFit' /\ RowsFit' /\ OnePassPerDoor'
  BY RowsStay
<1>9. Apart'
  <2>1. \A d \in PassDoors : ~Holds(w, d)'
    BY <1>1, <1>2 DEF Holds, Grants
  <2>2. \A v \in PassWorkers, d \in PassDoors : v # w /\ Holds(v, d) => passRow'[OrderAt(v)][d].st = "pending"
    BY DEF PassInv, Apart
  <2> QED  BY <1>2, <2>1, <2>2, ApartStep
<1>10. ToldFits'
  BY <1>1, <1>2, ToldRows
<1> QED  BY <1>3, <1>7, <1>8, <1>9, <1>10 DEF PassInv

LEMMA ReadsKeeps ==
  ASSUME PassInv, NEW w \in PassWorkers, Reads(w)
  PROVE  PassInv'
<1> DEFINE rows == RowsOf(passRun[w].job)
           x == [passRun[w] EXCEPT !.step = "take", !.todo = rows]
<1>0. PassShape /\ passLeft \in PassScenario /\ made \in Nat
  BY DEF PassInv, PassShape
<1>1. /\ UNCHANGED <<order, over, longest, passRow, links, made, served, page>> /\ LeftStays
      /\ passRun[w].job.kind \in {"refund", "expire"} /\ passRun[w].step = "begin"
      /\ IF rows = {} THEN EndsRun(w) ELSE passRun' = [passRun EXCEPT ![w] = x] /\ UNCHANGED <<passJobs, passDead>>
  BY <1>0, WellStays DEF Reads, sold, kisi
<1>2. passRun[w] # IdleAt /\ passRun[w].job \in PassJob /\ passRun[w] \in PassRun /\ ~Grants(w)
  BY <1>1, RevokeOf
<1>3. CASE rows = {}
  <2>1. Back(w)
    BY <1>0, <1>1, <1>3, EndsBack
  <2>2. PassShape'
    <3>1. passRun' \in [PassWorkers -> PassRun] /\ passJobs' \subseteq PassJob /\ passDead' \subseteq Orders
      BY <1>0, <2>1, BackShape
    <3> QED  BY <1>0, <1>1, <3>1 DEF PassShape, LeftStays
  <2> QED  BY <1>1, <1>2, <2>1, <2>2, BackKeeps
<1>4. CASE rows # {}
  <2>1. passRun' = [passRun EXCEPT ![w] = x] /\ passJobs' = passJobs /\ passDead' = passDead
    BY <1>1, <1>4
  <2>2. ASSUME NEW t \in rows
        PROVE  /\ t \in RowRead /\ t.order = passRun[w].job.order /\ t.link \in 0 .. made
               /\ passRow[t.order][t.door].link = t.link
               /\ \A l \in links : l.id = t.link => l.order = t.order
    <3>1. PICK o \in {y \in Orders : Matches(passRun[w].job, y)}, d \in PassDoors :
             t = [order |-> o, door |-> d, link |-> passRow[o][d].link]
      BY DEF RowsOf
    <3>2. o \in Orders /\ o = passRun[w].job.order /\ t.order = o /\ t.door = d /\ t.link = passRow[o][d].link
      BY <3>1 DEF Matches
    <3>3. /\ passRow[o][d].link \in 0 .. made /\ passRow[o][d].link \in Nat
          /\ \A l \in links : l.id = passRow[o][d].link => l.order = o
      BY <1>0, <3>2 DEF PassInv, RowsFit
    <3> QED  BY <3>1, <3>2, <3>3 DEF RowRead
  <2> HIDE DEF rows
  <2>3. /\ x \in PassRun /\ x.job = passRun[w].job /\ x.step = "take" /\ x.todo = rows
    <3>1. rows \subseteq RowRead
      BY <2>2
    <3> QED  BY <1>2, <3>1 DEF PassRun
  <2> HIDE DEF x
  <2>4. passRun'[w] = x
    BY <1>0, <2>1 DEF PassShape
  <2>5. TakeFits(w)'
    BY <1>1, <1>4, <2>2, <2>3, <2>4 DEF TakeFits, OrderAt
  <2> QED  BY <1>1, <2>1, <2>3, <2>5, RevokeKeeps
<1> QED  BY <1>3, <1>4

LEMMA TakesKeeps ==
  ASSUME PassInv, NEW w \in PassWorkers, NEW r \in passRun[w].todo, TakesLink(w, r)
  PROVE  PassInv' /\ \A l \in links \ links' : l.order \in over \/ order[l.order] = "refunded"
<1> DEFINE x == [passRun[w] EXCEPT !.step = "drop", !.got = {r}]
<1>0. PassShape /\ passLeft \in PassScenario /\ made \in Nat
  BY DEF PassInv, PassShape
<1>1. /\ UNCHANGED <<order, over, longest, passRow, made, passJobs, passDead, served, page>> /\ LeftStays
      /\ passRun[w].step = "take" /\ links' = {l \in links : l.id # r.link}
      /\ passRun' = [passRun EXCEPT ![w] = x]
  BY <1>0, WellStays DEF TakesLink, sold, notes
<1>2. passRun[w].job.kind \in {"refund", "expire"} /\ JobFits(passRun[w].job) /\ TakeFits(w)
  BY <1>1, NotIdle DEF PassInv
<1>3. r \in RowRead /\ r.order = OrderAt(w) /\ \A l \in links : l.id = r.link => l.order = r.order
  BY <1>1, <1>2 DEF TakeFits
<1>4. x \in PassRun /\ x.job = passRun[w].job /\ x.step = "drop" /\ x.todo = passRun[w].todo /\ x.got = {r}
  BY <1>0, <1>3, RunTyped DEF PassRun
<1> HIDE DEF x
<1>5. passRun'[w] = x
  BY <1>0, <1>1 DEF PassShape
<1>6. TakeFits(w)'
  BY <1>1, <1>2, <1>4, <1>5 DEF TakeFits, OrderAt
<1>7. PassInv'
  BY <1>1, <1>2, <1>4, <1>6, RevokeKeeps
<1>8. \A l \in links \ links' : l.order = OrderAt(w)
  BY <1>1, <1>3
<1> QED  BY <1>2, <1>7, <1>8 DEF JobFits, OrderAt

(* A row is dropped: no code it names is left, and no grant is under way   *)
(* for its order, unless it is another order's.                            *)
LEMMA DropsKeeps ==
  ASSUME PassInv, NEW w \in PassWorkers, DropsRow(w)
  PROVE  PassInv'
<1>0. PassShape /\ passLeft \in PassScenario /\ made \in Nat
  BY DEF PassInv, PassShape
<1>1. PICK r \in passRun[w].got :
        /\ passRow' = [passRow EXCEPT ![r.order][r.door] = NoRow]
        /\ IF passRun[w].todo = {r}
           THEN EndsRun(w)
           ELSE passRun' = [passRun EXCEPT ![w].step = "take", ![w].todo = @ \ {r}, ![w].got = {}] /\ UNCHANGED <<passJobs, passDead>>
  BY DEF DropsRow
<1> DEFINE x == [passRun[w] EXCEPT !.step = "take", !.todo = passRun[w].todo \ {r}, !.got = {}]
<1>2. /\ UNCHANGED <<order, over, longest, links, made, served, page>> /\ LeftStays
      /\ passRun[w].step = "drop"
      /\ IF passRun[w].todo = {r} THEN EndsRun(w)
         ELSE passRun' = [passRun EXCEPT ![w] = x] /\ UNCHANGED <<passJobs, passDead>>
  BY <1>0, <1>1, WellStays DEF DropsRow, sold, kisi
<1>3. passRun[w].job.kind \in {"refund", "expire"} /\ JobFits(passRun[w].job) /\ TakeFits(w)
  BY <1>2, NotIdle DEF PassInv
<1>4. /\ passRun[w] # IdleAt /\ passRun[w].job \in PassJob /\ passRun[w] \in PassRun /\ ~Grants(w)
      /\ OrderAt(w) \in Orders
  BY <1>3, RevokeOf
<1>5. /\ r \in passRun[w].todo /\ r \in RowRead /\ r.order = OrderAt(w) /\ \A l \in links : l.id # r.link
      /\ passRun[w].job.kind = "refund" => passRow[r.order][r.door].link = r.link
  BY <1>2, <1>3 DEF TakeFits
<1>6. x \in PassRun /\ x.job = passRun[w].job /\ x.step = "take" /\ x.todo = passRun[w].todo \ {r} /\ x.got = {}
  BY <1>4 DEF PassRun
<1> HIDE DEF x
<1>7. r.order \in Orders /\ r.door \in PassDoors
  BY <1>5 DEF RowRead
<1>8. /\ \A p \in Orders, d \in PassDoors :
           passRow'[p][d] = IF p = r.order /\ d = r.door THEN NoRow ELSE passRow[p][d]
      /\ passRow' \in [Orders -> [PassDoors -> PassRowT]]
      /\ NoRow.st = "none" /\ NoRow.link = 0
  <2>1. NoRow \in PassRowT /\ NoRow.st = "none" /\ NoRow.link = 0
    BY DEF NoRow, PassRowT
  <2> QED  BY <1>0, <1>1, <1>7, <2>1 DEF PassShape
<1>9. OnlyAt(w) /\ passRun'[w] = (IF passRun[w].todo = {r} THEN IdleAt ELSE x)
  BY <1>0, <1>2 DEF PassShape, OnlyAt, EndsRun
<1>10. NewCodes(w)
  BY <1>2, NoNewCodes
(* Who else holds a door of this order: nobody.                            *)
<1>11. \A v \in PassWorkers, d \in PassDoors : Holds(v, d) => ~(OrderAt(v) = r.order)
  <2> SUFFICES ASSUME NEW v \in PassWorkers, NEW d \in PassDoors, Holds(v, d), OrderAt(v) = r.order PROVE FALSE
    OBVIOUS
  <2>1. Grants(v) /\ passRun[v] # IdleAt /\ OrderAt(v) \notin over
    BY HoldsRow, GrantOf
  <2>2. v # w
    BY <1>4, <2>1
  <2>3. passRun[w].job.kind = "expire"
    BY <1>3, <1>4, <2>1, <2>2, OneBusy DEF JobFits
  <2> QED  BY <1>3, <1>5, <2>1, <2>3 DEF JobFits, OrderAt
<1>12. /\ passRun' \in [PassWorkers -> PassRun] /\ passJobs' \subseteq PassJob /\ passDead' \subseteq Orders
       /\ JobRuns(w)' /\ GrantFits(w)' /\ TakeFits(w)'
       /\ \A k \in passJobs' \ passJobs : k.kind = passRun[w].job.kind /\ k.order = OrderAt(w)
       /\ \A d \in PassDoors : ~Holds(w, d)'
  <2>1. CASE passRun[w].todo = {r}
    <3>1. EndsRun(w)
      BY <2>1, <1>2
    <3>2. Back(w)
      BY <1>0, <3>1, EndsBack
    <3>3. passRun' \in [PassWorkers -> PassRun] /\ passJobs' \subseteq PassJob /\ passDead' \subseteq Orders
      BY <1>0, <3>2, BackShape
    <3>4. /\ JobRuns(w)' /\ GrantFits(w)' /\ TakeFits(w)' /\ \A d \in PassDoors : ~Holds(w, d)'
          /\ \A k \in passJobs' \ passJobs : k.kind = passRun[w].job.kind /\ k.order = OrderAt(w)
      BY <1>0, <3>2, BackFits
    <3> QED  BY <3>3, <3>4
  <2>2. CASE passRun[w].todo # {r}
    <3>1. passRun' = [passRun EXCEPT ![w] = x] /\ passJobs' = passJobs /\ passDead' = passDead /\ passRun'[w] = x
      BY <1>2, <1>9, <2>2
    <3>2. passRun' \in [PassWorkers -> PassRun] /\ passJobs' \subseteq PassJob /\ passDead' \subseteq Orders
      BY <1>0, <1>6, <3>1 DEF PassShape
    <3>3. JobRuns(w)'
      BY <1>2, <1>3, <1>4, <1>6, <3>1 DEF JobRuns, Grants, JobFits, LeftStays
    <3>4. GrantFits(w)'
      BY <1>6, <3>1 DEF GrantFits
    <3>5. TakeFits(w)'
      <4>1. x.todo \subseteq RowRead /\ x.todo # {}
        BY <1>2, <1>3, <1>5, <1>6, <2>2 DEF TakeFits
      <4>2. ASSUME NEW t \in x.todo
            PROVE  /\ t.order = OrderAt(w) /\ t.link \in 0 .. made
                   /\ \A l \in links : l.id = t.link => l.order = t.order
                   /\ passRun[w].job.kind = "refund" => passRow'[t.order][t.door].link = t.link
        <5>1. /\ t \in passRun[w].todo /\ t # r /\ t \in RowRead /\ t.order = OrderAt(w) /\ t.link \in 0 .. made
              /\ \A l \in links : l.id = t.link => l.order = t.order
              /\ passRun[w].job.kind = "refund" => passRow[t.order][t.door].link = t.link
          BY <1>2, <1>3, <1>6 DEF TakeFits
        <5>2. ASSUME passRun[w].job.kind = "refund" PROVE t.door # r.door
          <6>1. t.door = r.door => t.link = r.link
            BY <1>5, <5>1, <5>2
          <6>2. t = [order |-> t.order, door |-> t.door, link |-> t.link]
                /\ r = [order |-> r.order, door |-> r.door, link |-> r.link]
            BY <1>5, <5>1 DEF RowRead
          <6> QED  BY <1>5, <5>1, <6>1, <6>2
        <5>3. t.order \in Orders /\ t.door \in PassDoors
          BY <5>1 DEF RowRead
        <5> QED  BY <1>8, <5>1, <5>2, <5>3
      <4>3. OrderAt(w)' = OrderAt(w)
        BY <1>6, <3>1 DEF OrderAt
      <4> QED  BY <1>2, <1>6, <3>1, <4>1, <4>2, <4>3 DEF TakeFits
    <3>6. \A d \in PassDoors : ~Holds(w, d)'
      BY <1>6, <3>1 DEF Holds
    <3> QED  BY <3>1, <3>2, <3>3, <3>4, <3>5, <3>6
  <2> QED  BY <2>1, <2>2
<1>13. PassShape'
  BY <1>0, <1>2, <1>8, <1>12 DEF PassShape, LeftStays
<1>14. /\ RefundsAlone(passLeft)' /\ JobsWait' /\ InTurn'
       /\ \A v \in PassWorkers : JobRuns(v)' /\ GrantFits(v)' /\ TakeFits(v)'
  BY <1>2, <1>4, <1>9, <1>10, <1>12, OthersRun
<1>15. LinksFit' /\ OnePassPerDoor'
  BY <1>2 DEF PassInv, LinksFit, OnePassPerDoor
<1>16. RowsFit'
  <2> SUFFICES ASSUME NEW p \in Orders, NEW d \in PassDoors
               PROVE  /\ passRow'[p][d].link \in 0 .. made
                      /\ passRow'[p][d].st = "active" <=> passRow'[p][d].link # 0
                      /\ \A l \in links : l.id = passRow'[p][d].link => l.order = p /\ l.door = d
    BY <1>2 DEF RowsFit
  <2>1. CASE p = r.order /\ d = r.door
    BY <1>0, <1>8, <2>1 DEF PassInv, LinksFit
  <2>2. CASE ~(p = r.order /\ d = r.door)
    BY <1>8, <2>2 DEF PassInv, RowsFit
  <2> QED  BY <2>1, <2>2
<1>17. Apart'
  <2>1. \A v \in PassWorkers, d \in PassDoors : v # w /\ Holds(v, d) => passRow'[OrderAt(v)][d].st = "pending"
    BY <1>8, <1>11, HoldsRow
  <2> QED  BY <1>9, <1>12, <2>1, ApartStep
<1>18. ToldFits'
  <2> SUFFICES ASSUME NEW l \in links, l.told, l.order \notin over
               PROVE  /\ passRow'[l.order][l.door].st # "none"
                      /\ passLeft.refunds => passRow'[l.order][l.door].link = l.id \/ HasWriter(l)'
    BY <1>2 DEF ToldFits, LeftStays
  <2>1. l.order \in Orders /\ l.door \in PassDoors
    BY <1>0 DEF PassShape, PassLink
  <2>2. /\ passRow[l.order][l.door].st # "none"
        /\ passLeft.refunds => passRow[l.order][l.door].link = l.id \/ HasWriter(l)
    BY DEF PassInv, ToldFits
  <2>3. ASSUME HasWriter(l) PROVE ~passLeft.refunds
    <3>1. PICK v \in PassWorkers : Grants(v)
      BY <2>3 DEF HasWriter
    <3>2. passRun[v] # IdleAt /\ v # w
      BY <1>4, <3>1, GrantOf
    <3> QED  BY <1>4, <3>2, OneBusy
  <2>4. ~(l.order = r.order /\ l.door = r.door)
    <3> SUFFICES ASSUME l.order = r.order /\ l.door = r.door PROVE FALSE
      OBVIOUS
    <3>1. passRun[w].job.kind = "refund"
      BY <1>3, <1>5 DEF JobFits, OrderAt
    <3>2. passRow[l.order][l.door].link = l.id
      BY <1>3, <2>2, <2>3, <3>1 DEF JobFits
    <3> QED  BY <1>5, <3>1, <3>2
  <2>5. passRow'[l.order][l.door] = passRow[l.order][l.door]
    BY <1>8, <2>1, <2>4
  <2> QED  BY <2>2, <2>3, <2>5
<1> QED  BY <1>13, <1>14, <1>15, <1>16, <1>17, <1>18 DEF PassInv

-----------------------------------------------------------------------------
(* The theorem.                                                            *)

LEMMA PassInitInv ==
  ASSUME PassInit, \A s \in PassScenarios : RefundsAlone(s)
  PROVE  PassInv
<1>1. IdleAt.step = "idle" /\ IdleAt.job = NoJob /\ NoJob.kind = "none"
  BY DEF IdleAt, NoJob
<1>2. passRun = [w \in PassWorkers |-> IdleAt] /\ links = {} /\ passJobs = {} /\ over = {} /\ made = 0
  BY DEF PassInit
<1>3. PassShape
  <2>1. NoRow \in PassRowT
    BY DEF NoRow, PassRowT
  <2> QED  BY <1>2, <2>1, IdleTyped, DayPassAssumption DEF PassInit, PassShape
<1>4. JobsWait /\ LinksFit /\ ToldFits /\ OnePassPerDoor /\ RefundsAlone(passLeft)
  BY <1>2 DEF PassInit, JobsWait, LinksFit, ToldFits, OnePassPerDoor
<1>5. \A w \in PassWorkers : JobRuns(w) /\ GrantFits(w) /\ TakeFits(w)
  BY <1>1, <1>2 DEF JobRuns, GrantFits, TakeFits
<1>6. RowsFit
  BY <1>2 DEF PassInit, RowsFit, NoRow
<1>7. Apart /\ InTurn
  BY <1>1, <1>2 DEF Apart, Holds, Grants, InTurn
<1> QED  BY <1>3, <1>4, <1>5, <1>6, <1>7 DEF PassInv

LEMMA PassStep ==
  ASSUME PassInv, [PassNext]_passVars
  PROVE  PassInv' /\ \A l \in links \ links' : l.order \in over \/ order[l.order] = "refunded"
<1> DEFINE Ended == \A l \in links \ links' : l.order \in over \/ order[l.order] = "refunded"
<1>1. ASSUME NEW o \in Orders, Buys(o) \/ Echoes(o) \/ Refunds(o) \/ Ends(o) \/ SweepsRow(o)
      PROVE  PassInv' /\ Ended
  BY <1>1, WorldKeeps, WorldTyped DEF World
<1>2. ASSUME NEW w \in PassWorkers, NEW j \in passJobs, Starts(w, j) PROVE PassInv' /\ Ended
  BY <1>2, StartsKeeps DEF Starts, kisi
<1>3. ASSUME NEW w \in PassWorkers, PassGrantStep(w) PROVE PassInv' /\ Ended
  <2>1. CASE Claims(w)
    BY <2>1, ClaimsKeeps DEF Claims, kisi
  <2>2. CASE Releases(w, TRUE)
    BY <2>2, ReleasesKeeps DEF Releases, kisi
  <2>3. ASSUME NEW d \in PassDoors, Links(w, d, "ok") PROVE PassInv' /\ Ended
    BY <2>3, LinksKeeps DEF Links, kisi
  <2>4. ASSUME NEW g \in passRun[w].got, RecordsPass(w, g) PROVE PassInv' /\ Ended
    BY <2>4, RecordsKeeps DEF RecordsPass, kisi
  <2> QED  BY <1>3, <2>1, <2>2, <2>3, <2>4 DEF PassGrantStep
<1>4. ASSUME NEW w \in PassWorkers, PassRevokeStep(w) PROVE PassInv' /\ Ended
  <2>1. CASE Reads(w)
    BY <2>1, ReadsKeeps DEF Reads, kisi
  <2>2. ASSUME NEW r \in passRun[w].todo, TakesLink(w, r) PROVE PassInv' /\ Ended
    BY <2>2, TakesKeeps
  <2>3. CASE DropsRow(w)
    BY <2>3, DropsKeeps DEF DropsRow, kisi
  <2> QED  BY <1>4, <2>1, <2>2, <2>3 DEF PassRevokeStep
<1>5. ASSUME NEW w \in PassWorkers, PassFault(w) PROVE PassInv' /\ Ended
  <2>1. CASE PassCrash(w) \/ RecordFails(w) \/ TakeFails(w)
    <3>1. PassInv'
      BY <2>1, FaultsKeep
    <3>2. links' = links
      BY <2>1 DEF PassCrash, RecordFails, TakeFails, kisi
    <3> QED  BY <3>1, <3>2
  <2>2. CASE Releases(w, FALSE)
    BY <2>2, ReleasesKeeps DEF Releases, kisi
  <2>3. ASSUME NEW d \in PassDoors, NEW how \in {"kisi", "late"}, Links(w, d, how) PROVE PassInv' /\ Ended
    <3>1. PassInv'
      BY <2>3, LinksKeeps
    <3>2. links \subseteq links'
      BY <2>3 DEF Links, kisi
    <3> QED  BY <3>1, <3>2
  <2> QED  BY <1>5, <2>1, <2>2, <2>3 DEF PassFault
<1>6. ASSUME NEW l \in links, SweepsLink(l) PROVE PassInv' /\ Ended
  BY <1>6, CalmKeeps DEF SweepsLink, Orphan
<1>7. CASE Looks \/ Polls \/ ShowsCode \/ UNCHANGED passVars
  <2>1. PassInv'
    BY <1>7, CalmKeeps
  <2>2. links' = links
    BY <1>7 DEF Looks, Polls, ShowsCode, kisi, passVars
  <2> QED  BY <2>1, <2>2
<1> QED  BY <1>1, <1>2, <1>3, <1>4, <1>5, <1>6, <1>7 DEF PassNext

LEMMA PassInvType ==
  ASSUME PassInv
  PROVE  PassTypeOK /\ OnePassPerDoor
<1>1. \A o \in Orders, d \in PassDoors :
        /\ passRow[o][d].st \in {"none", "pending", "active"}
        /\ passRow[o][d].st = "active" <=> passRow[o][d].link \in 1 .. made
  BY DEF PassInv, PassShape, PassRowT, RowsFit
<1>2. links \subseteq [id : 1 .. made, order : Orders, door : PassDoors, told : BOOLEAN]
  BY DEF PassInv, PassShape, PassLink, LinksFit
<1>3. \A w \in PassWorkers : passRun[w].job \in PassJob \cup {NoJob}
                             /\ passRun[w].step \in {"idle", "begin", "link", "record", "take", "drop"}
  BY RunTyped DEF PassRun, PassInv
<1>4. PassTypeOK
  BY <1>1, <1>2, <1>3 DEF PassInv, PassShape, PassTypeOK
<1> QED  BY <1>4 DEF PassInv

(* However many webhooks an order has, and with Kisi failing, runs lost    *)
(* and the member lock gone, a door of it has one code Kisi confirmed, and *)
(* what is taken is over or refunded: the claim on the source row          *)
(* (standard-adapter.js claimDayPassSources), the release of what got no   *)
(* code and the order of the revoke's two deletes are enough.  Refunds are *)
(* in the theorem as long as no run of the grant is lost between its claim *)
(* and its record.                                                         *)
THEOREM CodesOfADoor ==
  ASSUME \A s \in PassScenarios : RefundsAlone(s)
  PROVE  PassSpec => PassesHold
<1>1. PassInit => PassInv
  BY PassInitInv
<1>2. PassInv /\ [PassNext]_passVars => PassInv'
  BY PassStep
<1>3. PassInv => PassTypeOK /\ OnePassPerDoor
  BY PassInvType
<1>4. PassInv /\ [PassNext]_passVars =>
        [\A l \in links \ links' : l.order \in over \/ order[l.order] = "refunded"]_passVars
  BY PassStep
<1> QED  BY <1>1, <1>2, <1>3, <1>4, PTL DEF PassSpec, PassesHold, TakesOnlyEnded
-----------------------------------------------------------------------------
(* OrderEvents: who never paid stays out, and events told in order keep    *)
(* the door right.  The first needs what an event and a job may ask for:   *)
(* a grant is of an order that was paid, or is parked.  The second follows *)
(* the one order from event to event: "view" is the order as the events    *)
(* delivered so far tell it, and the door is as that says.                 *)

OrderRec   == [status : Statuses, pay : Payments, future : BOOLEAN]
RawEvents  == {"orderPurchased", "orderUpdated", "orderStarted", "orderAutoRenewCanceled",
               "orderCanceled", "orderEnded", "orderPaused", "orderResumed"}
OrderEvent == [n : Nat, raw : RawEvents, of : PlanOrders, order : OrderRec, short : BOOLEAN]
OrderJob   == [type : {"plan.purchased", "plan.started", "plan.cancelled", "payment.failed", "payment.recovered"},
               of : PlanOrders, future : BOOLEAN]

OrdersShape ==
  /\ OrdersTypeOK
  /\ transit \subseteq OrderEvent /\ jobs \subseteq OrderJob
  /\ \A e \in transit : e.n <= sent /\ e.of \in history.orders
  /\ everPaid \subseteq history.orders

(* A start ahead is paid for and was not begun, not even where cancelled.  *)
OrderFits(o) ==
  /\ planOrder[o].pay = "PAID" => planOrder[o].future \/ o \in everPaid
  /\ planOrder[o].future => planOrder[o].pay = "PAID" /\ planOrder[o].status \in {"PENDING", "CANCELED"}
  /\ planOrder[o].status = "NONE" => planOrder[o] = NoOrder
  /\ o \in everPaid => ~planOrder[o].future /\ planOrder[o].status # "NONE"

IsGrant(type) == type \in {"plan.purchased", "plan.started"}

EventFits(e) ==
  /\ e.order.pay = "PAID" => e.of \in everPaid \/ (e.order.future /\ planOrder[e.of].future)
  /\ e.order.future => e.raw # "orderStarted"
AskFits(j) == IsGrant(j.type) => j.of \in everPaid \/ (j.type = "plan.purchased" /\ Ahead(j))

UnpaidFits ==
  /\ \A o \in PlanOrders : OrderFits(o)
  /\ \A e \in transit : EventFits(e)
  /\ \A j \in jobs : AskFits(j)
  /\ everPaid = {} => ~role /\ row # "active"

(* What an event says has become of its order.                             *)
Change(v, raw, w) ==
  \/ /\ raw = "orderPurchased" /\ v.status = "NONE"
     /\ w \in {Placed("ACTIVE", "PAID", FALSE), Placed("ACTIVE", "UNPAID", FALSE), Placed("ACTIVE", "FAILED", FALSE),
               Placed("DRAFT", "UNPAID", FALSE), Placed("PENDING", "PAID", TRUE)}
  \/ raw = "orderUpdated" /\ v.status \in {"DRAFT", "ACTIVE"} /\ w = Placed("ACTIVE", "PAID", FALSE)
  \/ raw = "orderUpdated" /\ v = Placed("ACTIVE", "PAID", FALSE) /\ w = Placed("ACTIVE", "FAILED", FALSE)
  \/ raw = "orderStarted" /\ v = Placed("PENDING", "PAID", TRUE) /\ w = Placed("ACTIVE", "PAID", FALSE)
  \/ raw = "orderPaused" /\ v.status = "ACTIVE" /\ w = Placed("PAUSED", v.pay, FALSE)
  \/ raw = "orderResumed" /\ v.status = "PAUSED" /\ w = Placed("ACTIVE", v.pay, FALSE)
  \/ raw = "orderAutoRenewCanceled" /\ v.status = "ACTIVE" /\ w = v
  \/ raw = "orderCanceled" /\ v.status \in {"ACTIVE", "PAUSED", "PENDING"} /\ w = Placed("CANCELED", v.pay, v.future)
  \/ raw = "orderEnded" /\ v.status = "ACTIVE" /\ w = Placed("ENDED", v.pay, v.future)

(* The door of a member whose one order is as v says.                      *)
Shut      == row = "none" /\ user = "none" /\ ~role /\ ~parked
Waiting   == row = "none" /\ user = "on" /\ ~role /\ parked
Wide      == row = "active" /\ user = "on" /\ role
Suspended == row = "failed" /\ user = "off" /\ role
Kept      == row = "none" /\ role /\ parked

DoorSays(o, v) ==
  /\ v.status \in {"NONE", "DRAFT"} => Shut
  /\ v.status = "PENDING" => Shut \/ Waiting \/ (Wide /\ o \in everPaid)
  /\ v.status = "ACTIVE" => Wide \/ (Shut /\ v.pay # "PAID")
  /\ v.status = "PAUSED" => Suspended \/ (Shut /\ v.pay # "PAID")
  /\ v.status \in {"ENDED", "CANCELED"} => Shut \/ Waiting \/ Kept

(* The events after the q-th are on their way, and lead from v to today.   *)
OnTheWay(o, q, v) ==
  /\ \A e \in transit : e.n > q
  /\ \A k \in q + 1 .. sent : \E e \in transit : e.n = k
  /\ q = sent => v = planOrder[o]
  /\ \A e \in transit :
       /\ e.n = q + 1 => Change(v, e.raw, e.order)
       /\ e.n = sent => e.order = planOrder[o]
       /\ \A f \in transit : f.n = e.n + 1 => Change(e.order, f.raw, f.order)

(* The last event's job is done, or is the one to run.                     *)
JobIsRun(o, v) == jobs = {} /\ DoorSays(o, v)
JobToRun(o, v) ==
  \E u \in OrderRec, raw \in RawEvents :
    /\ Change(u, raw, v) /\ DoorSays(o, u)
    /\ jobs = {Job(Normalized(raw), o, v.future)}
    /\ IsGrant(Normalized(raw)) => v.pay = "PAID"

OneTold == history.inOrder /\ ~history.swept /\ Cardinality(history.orders) = 1
ToldInOrder ==
  OneTold => \A o \in history.orders : \E q \in 0 .. sent, v \in OrderRec :
    OnTheWay(o, q, v) /\ (JobIsRun(o, v) \/ JobToRun(o, v))

OrdersInv == OrdersShape /\ UnpaidFits /\ ToldInOrder

(* Wix.  Whatever changes an order is one event of it.                     *)
LEMMA OrderValues ==
  /\ NoOrder \in OrderRec /\ \A r \in OrderRec : r = Placed(r.status, r.pay, r.future)
  /\ \A s \in Statuses, p \in Payments, f \in BOOLEAN :
       Placed(s, p, f) \in OrderRec /\ Placed(s, p, f).status = s /\ Placed(s, p, f).pay = p /\ Placed(s, p, f).future = f
BY DEF OrderRec, NoOrder, Placed, Statuses, Payments

LEMMA OtherStatus ==
  ASSUME NEW r \in OrderRec, NEW s \in Statuses
  PROVE  [r EXCEPT !.status = s] = Placed(s, r.pay, r.future)
BY DEF OrderRec, Placed

LEMMA OtherPayment ==
  ASSUME NEW r \in OrderRec, NEW p \in Payments
  PROVE  [r EXCEPT !.pay = p] = Placed(r.status, p, r.future)
BY DEF OrderRec, Placed

LEMMA EachIsAnEvent ==
  ASSUME OrdersShape, \A o \in PlanOrders : OrderFits(o), OrderChanges
  PROVE  \E o \in PlanOrders, new \in OrderRec, raw \in RawEvents :
           /\ Becomes(o, new, raw) /\ Change(planOrder[o], raw, new)
           /\ raw = "orderPurchased" => planOrder[o].status = "NONE"
<1>0. PICK o \in PlanOrders : \/ Buy(o) \/ Pays(o) \/ Declines(o) \/ PlanStarts(o) \/ Pauses(o)
                              \/ Resumes(o) \/ StopsRenewing(o) \/ OrderEnds(o)
  BY DEF OrderChanges
<1> DEFINE v == planOrder[o]
<1>1. v \in OrderRec /\ v.status \in Statuses /\ v.pay \in Payments /\ v.future \in BOOLEAN
      /\ v = Placed(v.status, v.pay, v.future) /\ OrderFits(o)
  BY OrderValues DEF OrdersShape, OrdersTypeOK, OrderRec
<1>f. v.future => v.pay = "PAID" /\ v.status \in {"PENDING", "CANCELED"}
  BY <1>1 DEF OrderFits
<1>n. /\ {"ACTIVE", "DRAFT", "PENDING", "PAUSED", "CANCELED", "ENDED"} \subseteq Statuses
      /\ {"PAID", "UNPAID", "FAILED"} = Payments
      /\ {"orderPurchased", "orderUpdated", "orderStarted", "orderAutoRenewCanceled",
          "orderCanceled", "orderEnded", "orderPaused", "orderResumed"} = RawEvents
  BY DEF Statuses, Payments, RawEvents
<1> HIDE DEF v
<1> SUFFICES ASSUME TRUE PROVE \E new \in OrderRec, raw \in RawEvents :
           /\ Becomes(o, new, raw) /\ Change(v, raw, new)
           /\ raw = "orderPurchased" => v.status = "NONE"
  BY DEF v
<1>2. CASE Buy(o)
  <2>1. PICK new \in {Placed("ACTIVE", "PAID", FALSE), Placed("ACTIVE", "UNPAID", FALSE), Placed("ACTIVE", "FAILED", FALSE),
                      Placed("DRAFT", "UNPAID", FALSE), Placed("PENDING", "PAID", TRUE)} : Becomes(o, new, "orderPurchased")
    BY <1>2 DEF Buy
  <2>2. new \in OrderRec
    <3>1. \A f \in BOOLEAN, p \in Payments, s \in {"ACTIVE", "DRAFT", "PENDING"} : Placed(s, p, f) \in OrderRec
      BY DEF OrderRec, Placed, Statuses
    <3>2. \E f \in BOOLEAN, p \in Payments, s \in {"ACTIVE", "DRAFT", "PENDING"} : new = Placed(s, p, f)
      BY <2>1, <1>n
    <3> QED BY <3>1, <3>2
  <2>3. Change(v, "orderPurchased", new)
    BY <1>2, <2>1 DEF Change, Buy, v
  <2>4. v.status = "NONE"
    BY <1>2 DEF Buy, v
  <2> QED BY <2>1, <2>2, <2>3, <2>4, <1>n
<1>3. CASE Pays(o)
  <2>1. Becomes(o, Placed("ACTIVE", "PAID", FALSE), "orderUpdated") /\ v.status \in {"DRAFT", "ACTIVE"}
    BY <1>1, <1>3, <1>f DEF Pays, v
  <2>2. Change(v, "orderUpdated", Placed("ACTIVE", "PAID", FALSE))
    BY <2>1 DEF Change
  <2> QED BY <2>1, <2>2, <1>n, OrderValues
<1>4. CASE Declines(o)
  <2>0. /\ [planOrder[o] EXCEPT !.pay = "FAILED"] = Placed(v.status, "FAILED", v.future)
        /\ v.status = "ACTIVE" /\ v.pay = "PAID" /\ ~v.future
    BY <1>1, <1>4, <1>n, OtherPayment DEF Declines, IsPaying, v
  <2>1. Becomes(o, Placed("ACTIVE", "FAILED", FALSE), "orderUpdated") /\ v = Placed("ACTIVE", "PAID", FALSE)
    BY <1>1, <1>4, <2>0 DEF Declines
  <2>2. Change(v, "orderUpdated", Placed("ACTIVE", "FAILED", FALSE))
    BY <2>1 DEF Change
  <2> QED BY <2>1, <2>2, <1>n, OrderValues
<1>5. CASE PlanStarts(o)
  <2>1. Becomes(o, Placed("ACTIVE", "PAID", FALSE), "orderStarted") /\ v = Placed("PENDING", "PAID", TRUE)
    BY <1>1, <1>5, <1>f DEF PlanStarts, v
  <2>2. Change(v, "orderStarted", Placed("ACTIVE", "PAID", FALSE))
    BY <2>1 DEF Change
  <2> QED BY <2>1, <2>2, <1>n, OrderValues
<1>6. CASE Pauses(o)
  <2>0. [planOrder[o] EXCEPT !.status = "PAUSED"] = Placed("PAUSED", v.pay, v.future) /\ v.status = "ACTIVE" /\ ~v.future
    BY <1>1, <1>6, <1>n, OtherStatus DEF Pauses, v
  <2>1. Becomes(o, Placed("PAUSED", v.pay, FALSE), "orderPaused") /\ v.status = "ACTIVE"
    BY <1>1, <1>6, <2>0 DEF Pauses
  <2>2. Change(v, "orderPaused", Placed("PAUSED", v.pay, FALSE))
    BY <2>1 DEF Change
  <2>3. Placed("PAUSED", v.pay, FALSE) \in OrderRec
    BY <1>1 DEF OrderRec, Placed, Statuses
  <2> QED BY <2>1, <2>2, <2>3, <1>n
<1>7. CASE Resumes(o)
  <2>0. [planOrder[o] EXCEPT !.status = "ACTIVE"] = Placed("ACTIVE", v.pay, v.future) /\ v.status = "PAUSED" /\ ~v.future
    BY <1>1, <1>7, <1>n, <1>f, OtherStatus DEF Resumes, v
  <2>1. Becomes(o, Placed("ACTIVE", v.pay, FALSE), "orderResumed") /\ v.status = "PAUSED"
    BY <1>1, <1>7, <2>0 DEF Resumes
  <2>2. Change(v, "orderResumed", Placed("ACTIVE", v.pay, FALSE))
    BY <2>1 DEF Change
  <2>3. Placed("ACTIVE", v.pay, FALSE) \in OrderRec
    BY <1>1 DEF OrderRec, Placed, Statuses
  <2> QED BY <2>1, <2>2, <2>3, <1>n
<1>8. CASE StopsRenewing(o)
  <2>1. Becomes(o, v, "orderAutoRenewCanceled") /\ v.status = "ACTIVE"
    BY <1>8 DEF StopsRenewing, v
  <2>2. Change(v, "orderAutoRenewCanceled", v)
    BY <2>1 DEF Change
  <2> QED BY <2>1, <2>2, <1>n, <1>1
<1>9. CASE OrderEnds(o)
  <2>0. /\ [planOrder[o] EXCEPT !.status = "CANCELED"] = Placed("CANCELED", v.pay, v.future)
        /\ [planOrder[o] EXCEPT !.status = "ENDED"] = Placed("ENDED", v.pay, v.future)
    BY <1>1, <1>n, OtherStatus DEF v
  <2>1. PICK s \in {"CANCELED", "ENDED"}, raw \in {"orderCanceled", "orderEnded"} :
          /\ Becomes(o, Placed(s, v.pay, v.future), raw)
          /\ \/ raw = "orderCanceled" /\ s = "CANCELED" /\ v.status \in {"ACTIVE", "PAUSED", "PENDING"}
             \/ raw = "orderEnded" /\ s = "ENDED" /\ v.status = "ACTIVE"
    BY <1>9, <2>0 DEF OrderEnds, v
  <2>2. Change(v, raw, Placed(s, v.pay, v.future))
    BY <2>1 DEF Change
  <2>3. Placed(s, v.pay, v.future) \in OrderRec
    BY <1>1, <2>1 DEF OrderRec, Placed, Statuses
  <2> QED BY <2>1, <2>2, <2>3, <1>n
<1> QED BY <1>0, <1>2, <1>3, <1>4, <1>5, <1>6, <1>7, <1>8, <1>9

LEMMA OrdersBegin == OrdersInit => OrdersInv
<1> SUFFICES ASSUME OrdersInit PROVE OrdersInv
  OBVIOUS
<1>1. OrdersShape
  <2>1. history \in Histories /\ history.events \in Nat /\ sent \in 0 .. history.events
    BY OrdersAssumption DEF OrdersInit
  <2>2. planOrder \in [PlanOrders -> OrderRec]
    BY OrderValues DEF OrdersInit
  <2>3. transit = {} /\ jobs = {} /\ row = "none" /\ parked = FALSE /\ user = "none" /\ role = FALSE /\ seen = 0 /\ everPaid = {}
    BY DEF OrdersInit
  <2>4. OrdersTypeOK
    <3>1. planOrder \in [PlanOrders -> [status : Statuses, pay : Payments, future : BOOLEAN]]
      BY <2>2 DEF OrderRec
    <3>2. seen \in 0 .. 1 /\ role \in BOOLEAN /\ parked \in BOOLEAN /\ row \in {"none", "active", "failed"}
          /\ user \in {"none", "on", "off"} /\ everPaid \subseteq PlanOrders
      <4>1. role \in BOOLEAN /\ parked \in BOOLEAN
        BY <2>3, Zenon
      <4>2. seen \in 0 .. 1
        BY <2>3
      <4>3. row \in {"none", "active", "failed"} /\ user \in {"none", "on", "off"}
        BY <2>3
      <4>4. everPaid \subseteq PlanOrders
        BY <2>3
      <4> QED BY <4>1, <4>2, <4>3, <4>4
    <3>3. \A e, f \in transit : e.n = f.n => e = f
      BY <2>3
    <3> QED BY <2>1, <3>1, <3>2, <3>3 DEF OrdersTypeOK
  <2> QED BY <2>3, <2>4 DEF OrdersShape
<1>2. UnpaidFits
  BY DEF OrdersInit, UnpaidFits, OrderFits, NoOrder
<1>3. ToldInOrder
  <2> SUFFICES ASSUME NEW o \in history.orders
               PROVE  OnTheWay(o, 0, NoOrder) /\ JobIsRun(o, NoOrder)
    BY OrderValues DEF OrdersInit, ToldInOrder
  <2>1. planOrder[o] = NoOrder
    BY OrdersAssumption DEF OrdersInit
  <2>2. JobIsRun(o, NoOrder)
    BY DEF OrdersInit, JobIsRun, DoorSays, NoOrder, Shut
  <2> QED BY <2>1, <2>2 DEF OrdersInit, OnTheWay
<1> QED BY <1>1, <1>2, <1>3 DEF OrdersInv

(* An order changes: the event sent last says what it has become.          *)
LEMMA BecomesKeeps ==
  ASSUME OrdersInv, NEW o \in PlanOrders, NEW new \in OrderRec, NEW raw \in RawEvents,
         Becomes(o, new, raw), Change(planOrder[o], raw, new)
  PROVE  OrdersInv'
<1>t. OrdersShape /\ UnpaidFits /\ ToldInOrder
  BY DEF OrdersInv
<1>0. PICK short \in BOOLEAN :
        transit' = transit \cup {[n |-> sent + 1, raw |-> raw, of |-> o, order |-> new, short |-> short]}
  BY DEF Becomes
<1> DEFINE e0 == [n |-> sent + 1, raw |-> raw, of |-> o, order |-> new, short |-> short]
<1>1. /\ sent \in Nat /\ sent' = sent + 1 /\ sent' \in 0 .. history.events
      /\ UNCHANGED <<history, jobs, row, parked, user, role, seen>> /\ o \in history.orders
      /\ planOrder' = [planOrder EXCEPT ![o] = new] /\ everPaid' = IF IsPaying(new) THEN everPaid \cup {o} ELSE everPaid
  BY <1>t, OrdersAssumption DEF Becomes, OrdersShape, OrdersTypeOK, db
<1>2. /\ transit' = transit \cup {e0} /\ e0 \in OrderEvent /\ e0.n = sent + 1 /\ e0.of = o /\ e0.order = new /\ e0.raw = raw
      /\ \A e \in transit : e \in OrderEvent /\ e.n <= sent /\ e.n \in Nat /\ e.of \in PlanOrders
  BY <1>0, <1>1, <1>t DEF OrderEvent, OrdersShape
<1> HIDE DEF e0
<1>3. OrdersShape'
  <2>1. /\ history' \in Histories /\ planOrder' \in [PlanOrders -> OrderRec]
        /\ row' \in {"none", "active", "failed"} /\ user' \in {"none", "on", "off"} /\ role' \in BOOLEAN /\ parked' \in BOOLEAN
        /\ seen' \in 0 .. 1 /\ everPaid' \subseteq PlanOrders /\ everPaid' \subseteq history'.orders
    BY <1>1, <1>t DEF OrdersShape, OrdersTypeOK, OrderRec
  <2>2. sent' \in 0 .. history'.events /\ \A e \in transit' : e.n <= sent' /\ e.of \in history'.orders
    BY <1>1, <1>2, <1>t DEF OrdersShape
  <2>3. \A e, f \in transit' : e.n = f.n => e = f
    BY <1>1, <1>2, <1>t DEF OrdersShape, OrdersTypeOK
  <2>4. transit' \subseteq OrderEvent /\ jobs' \subseteq OrderJob
    BY <1>1, <1>2, <1>t DEF OrdersShape
  <2> QED BY <2>1, <2>2, <2>3, <2>4 DEF OrdersShape, OrdersTypeOK, OrderRec
<1> DEFINE v == planOrder[o]
<1>4. /\ OrderFits(o) /\ v \in OrderRec /\ planOrder'[o] = new
      /\ \A p \in PlanOrders : p # o => planOrder'[p] = planOrder[p] /\ (p \in everPaid' <=> p \in everPaid)
      /\ o \in everPaid' <=> o \in everPaid \/ IsPaying(new)
  BY <1>1, <1>t DEF OrdersShape, OrdersTypeOK, OrderRec, UnpaidFits
<1>5. /\ new.pay = "PAID" => new.future \/ o \in everPaid'
      /\ new.future => v.future \/ v.status = "NONE"
      /\ new.future => new.pay = "PAID" /\ new.status \in {"PENDING", "CANCELED"}
      /\ new.status # "NONE" /\ (o \in everPaid' => ~new.future)
      /\ v.future => new.future \/ o \in everPaid'
      /\ new.future => raw # "orderStarted"
  <2>1. /\ v.status \in Statuses /\ v.pay \in Payments /\ v.future \in BOOLEAN
        /\ v.pay = "PAID" => v.future \/ o \in everPaid
        /\ v.future => v.pay = "PAID" /\ v.status \in {"PENDING", "CANCELED"}
        /\ o \in everPaid => ~v.future /\ v.status # "NONE"
    BY <1>4 DEF OrderFits, OrderRec
  <2>2. CASE raw = "orderPurchased" /\ v.status = "NONE"
     /\ new \in {Placed("ACTIVE", "PAID", FALSE), Placed("ACTIVE", "UNPAID", FALSE), Placed("ACTIVE", "FAILED", FALSE),
                 Placed("DRAFT", "UNPAID", FALSE), Placed("PENDING", "PAID", TRUE)}
    BY <2>1, <2>2, <1>4 DEF Placed, IsPaying
  <2>3. CASE raw = "orderUpdated" /\ v.status \in {"DRAFT", "ACTIVE"} /\ new = Placed("ACTIVE", "PAID", FALSE)
    BY <2>1, <2>3, <1>4 DEF Placed, IsPaying
  <2>4. CASE raw = "orderUpdated" /\ v = Placed("ACTIVE", "PAID", FALSE) /\ new = Placed("ACTIVE", "FAILED", FALSE)
    BY <2>1, <2>4, <1>4 DEF Placed, IsPaying
  <2>5. CASE raw = "orderStarted" /\ v = Placed("PENDING", "PAID", TRUE) /\ new = Placed("ACTIVE", "PAID", FALSE)
    BY <2>1, <2>5, <1>4 DEF Placed, IsPaying
  <2>6. CASE raw = "orderPaused" /\ v.status = "ACTIVE" /\ new = Placed("PAUSED", v.pay, FALSE)
    BY <2>1, <2>6, <1>4 DEF Placed, IsPaying
  <2>7. CASE raw = "orderResumed" /\ v.status = "PAUSED" /\ new = Placed("ACTIVE", v.pay, FALSE)
    BY <2>1, <2>7, <1>4 DEF Placed, IsPaying
  <2>8. CASE raw = "orderAutoRenewCanceled" /\ v.status = "ACTIVE" /\ new = v
    BY <2>1, <2>8, <1>4 DEF IsPaying
  <2>9. CASE raw = "orderCanceled" /\ v.status \in {"ACTIVE", "PAUSED", "PENDING"} /\ new = Placed("CANCELED", v.pay, v.future)
    BY <2>1, <2>9, <1>4 DEF Placed, IsPaying
  <2>10. CASE raw = "orderEnded" /\ v.status = "ACTIVE" /\ new = Placed("ENDED", v.pay, v.future)
    BY <2>1, <2>10, <1>4 DEF Placed, IsPaying
  <2> QED BY <2>2, <2>3, <2>4, <2>5, <2>6, <2>7, <2>8, <2>9, <2>10 DEF Change
<1>6. UnpaidFits'
  <2>1. \A p \in PlanOrders : OrderFits(p)'
    BY <1>4, <1>5, <1>t DEF UnpaidFits, OrderFits
  <2>2. \A p \in PlanOrders : p \in everPaid => p \in everPaid'
    BY <1>4
  <2>3. \A p \in PlanOrders : planOrder[p].future => planOrder'[p].future \/ p \in everPaid'
    BY <1>4, <1>5
  <2>4. ASSUME NEW e \in transit' PROVE EventFits(e)'
    <3>1. CASE e = e0
      BY <3>1, <1>2, <1>4, <1>5 DEF EventFits
    <3>2. CASE e \in transit
      BY <3>2, <2>2, <2>3, <1>2, <1>t DEF UnpaidFits, EventFits
    <3> QED BY <3>1, <3>2, <1>2
  <2>5. ASSUME NEW j \in jobs' PROVE AskFits(j)'
    BY <2>2, <2>3, <1>1, <1>t DEF UnpaidFits, AskFits, Ahead, OrdersShape, OrderJob
  <2>6. everPaid' = {} => ~role' /\ row' # "active"
    BY <1>1, <1>t DEF UnpaidFits
  <2> QED BY <2>1, <2>4, <2>5, <2>6 DEF UnpaidFits
<1>7. ToldInOrder'
  <2> SUFFICES ASSUME OneTold', NEW p \in history'.orders
               PROVE  \E q \in 0 .. sent', w \in OrderRec : (OnTheWay(p, q, w) /\ (JobIsRun(p, w) \/ JobToRun(p, w)))'
    BY DEF ToldInOrder
  <2>1. OneTold /\ p = o
    <3>1. OneTold /\ p \in history.orders
      BY <1>1 DEF OneTold
    <3>2. IsFiniteSet(history.orders) /\ history.orders \subseteq PlanOrders
      BY OrdersAssumption, <1>t DEF OrdersShape, OrdersTypeOK
    <3> QED BY <3>1, <3>2, <1>1, FS_Singleton DEF OneTold
  <2>2. PICK q \in 0 .. sent, w \in OrderRec : OnTheWay(o, q, w) /\ (JobIsRun(o, w) \/ JobToRun(o, w))
    BY <2>1, <1>1, <1>t DEF ToldInOrder
  <2>3. OnTheWay(o, q, w)'
    <3>1. \A e \in transit' : e.n > q
      BY <1>1, <1>2, <2>2 DEF OnTheWay
    <3>2. \A k \in q + 1 .. sent' : \E e \in transit' : e.n = k
      BY <1>1, <1>2, <2>2 DEF OnTheWay
    <3>3. q # sent'
      BY <1>1
    <3>4. \A e \in transit' : e.n = q + 1 => Change(w, e.raw, e.order)
      BY <1>1, <1>2, <2>2 DEF OnTheWay
    <3>5. \A e \in transit' : e.n = sent' => e.order = planOrder'[o]
      BY <1>1, <1>2, <1>4
    <3>6. \A e, f \in transit' : f.n = e.n + 1 => Change(e.order, f.raw, f.order)
      BY <1>1, <1>2, <2>2 DEF OnTheWay
    <3> QED BY <3>1, <3>2, <3>3, <3>4, <3>5, <3>6 DEF OnTheWay
  <2>4. \A x : DoorSays(o, x) => DoorSays(o, x)'
    BY <1>1 DEF DoorSays, Shut, Waiting, Wide, Suspended, Kept
  <2>5. (JobIsRun(o, w) \/ JobToRun(o, w))'
    BY <2>2, <2>4, <1>1 DEF JobIsRun, JobToRun
  <2> QED BY <2>1, <2>3, <2>5, <1>1
<1> QED BY <1>3, <1>6, <1>7 DEF OrdersInv

(* The answer of a job: what it leaves of the door.                        *)
LEMMA GrantAnswers ==
  ASSUME Give, row \in {"none", "active", "failed"}, user \in {"none", "on", "off"}, role \in BOOLEAN, parked \in BOOLEAN
  PROVE  /\ Shut \/ Waiting \/ Wide => Wide'
         /\ row' \in {"none", "active", "failed"} /\ user' \in {"none", "on", "off"} /\ role' \in BOOLEAN /\ parked' \in BOOLEAN
BY DEF Give, Shut, Waiting, Wide

LEMMA RunKeeps ==
  ASSUME OrdersInv, NEW j \in jobs, RunJob(j)
  PROVE  OrdersInv'
<1>t. OrdersShape /\ UnpaidFits /\ ToldInOrder
  BY DEF OrdersInv
<1>1. /\ UNCHANGED <<history, planOrder, sent, transit, seen, everPaid>> /\ jobs' = jobs \ {j}
      /\ j \in OrderJob /\ j.of \in PlanOrders
      /\ row \in {"none", "active", "failed"} /\ user \in {"none", "on", "off"} /\ role \in BOOLEAN /\ parked \in BOOLEAN
  BY <1>t DEF RunJob, wix, OrdersShape, OrdersTypeOK, OrderJob
<1>2. /\ row' \in {"none", "active", "failed"} /\ user' \in {"none", "on", "off"} /\ role' \in BOOLEAN /\ parked' \in BOOLEAN
      /\ everPaid = {} => ~role' /\ row' # "active"
  <2>a. everPaid = {} => ~role /\ row # "active"
    BY <1>t DEF UnpaidFits
  <2>1. CASE GrantsRow(j)
    <3>1. ~MustWait(j) => everPaid # {}
      BY <2>1, <1>t DEF UnpaidFits, AskFits, IsGrant, GrantsRow, MustWait
    <3>2. CASE MustWait(j)
      BY <2>1, <2>a, <3>2, <1>1 DEF GrantsRow, Park
    <3>3. CASE ~MustWait(j)
      BY <2>1, <3>1, <3>3, <1>1 DEF GrantsRow, Give
    <3> QED BY <3>2, <3>3
  <2>2. CASE Revokes(j)
    BY <2>2, <2>a, <1>1 DEF Revokes, TakeAway
  <2>3. CASE Suspends(j)
    BY <2>3, <2>a, <1>1 DEF Suspends, Suspend
  <2>4. CASE Restores(j)
    BY <2>4, <2>a, <1>1 DEF Restores, Restore, Known
  <2>5. CASE NobodyFound(j)
    BY <2>5, <2>a, <1>1 DEF NobodyFound, db
  <2> QED BY <2>1, <2>2, <2>3, <2>4, <2>5 DEF RunJob
<1>3. OrdersShape'
  BY <1>1, <1>2, <1>t DEF OrdersShape, OrdersTypeOK
<1>4. UnpaidFits'
  BY <1>1, <1>2, <1>t DEF UnpaidFits, OrderFits, EventFits, AskFits, Ahead
<1>5. ToldInOrder'
  <2> SUFFICES ASSUME OneTold, NEW o \in history.orders
               PROVE  \E q \in 0 .. sent, v \in OrderRec : (OnTheWay(o, q, v) /\ (JobIsRun(o, v) \/ JobToRun(o, v)))'
    BY <1>1 DEF ToldInOrder, OneTold
  <2>1. PICK q \in 0 .. sent, v \in OrderRec : OnTheWay(o, q, v) /\ (JobIsRun(o, v) \/ JobToRun(o, v))
    BY <1>t DEF ToldInOrder
  <2>2. OnTheWay(o, q, v)'
    BY <2>1, <1>1 DEF OnTheWay
  <2>3. JobToRun(o, v)
    BY <2>1 DEF JobIsRun
  <2>4. PICK u \in OrderRec, raw \in RawEvents :
    /\ Change(u, raw, v) /\ DoorSays(o, u)
    /\ jobs = {Job(Normalized(raw), o, v.future)}
    /\ IsGrant(Normalized(raw)) => v.pay = "PAID"
    BY <2>3 DEF JobToRun
  <2>5. j.type = Normalized(raw) /\ j.of = o /\ j.future = v.future /\ jobs' = {}
    BY <2>4, <1>1 DEF Job
  <2>6. IsGrant(j.type) => o \in everPaid \/ (j.type = "plan.purchased" /\ Ahead(j))
    BY <2>5, <1>t DEF UnpaidFits, AskFits
  <2>7. DoorSays(o, v)'
    <3>1. CASE raw \in {"orderPurchased", "orderUpdated", "orderStarted"}
      <4>1. j.type \in {"plan.purchased", "plan.started"} /\ v.pay = "PAID" /\ GrantsRow(j)
        BY <2>4, <2>5, <3>1 DEF Normalized, IsGrant, RunJob, Revokes, Suspends, Restores, NobodyFound
      <4>2. Shut \/ Waiting \/ Wide
        BY <2>4, <3>1, OrderValues DEF Change, DoorSays, Placed
      <4>3. v.status = "ACTIVE" \/ v = Placed("PENDING", "PAID", TRUE)
        BY <2>4, <3>1, <4>1, OrderValues DEF Change, Placed
      <4>4. CASE MustWait(j)
        <5>1. v = Placed("PENDING", "PAID", TRUE) /\ u.status = "NONE"
          BY <4>4, <4>3, <4>1, <2>4, <2>5, <3>1, OrderValues DEF MustWait, Ahead, Change, Placed, Normalized
        <5>2. Waiting'
          BY <5>1, <4>1, <4>4, <2>4 DEF DoorSays, Shut, Waiting, GrantsRow, Park
        <5> QED BY <5>1, <5>2 DEF DoorSays, Placed
      <4>5. CASE ~MustWait(j)
        <5>1. Wide' /\ o \in everPaid
          BY <4>5, <4>1, <4>2, <2>6, <1>1, GrantAnswers DEF GrantsRow, IsGrant, MustWait
        <5> QED BY <5>1, <4>3, <1>1 DEF DoorSays, Placed
      <4> QED BY <4>4, <4>5
    <3>2. CASE raw \in {"orderCanceled", "orderEnded"}
      <4>1. j.type = "plan.cancelled"
        BY <2>5, <3>2 DEF Normalized
      <4>2. v.status \in {"CANCELED", "ENDED"}
        BY <2>4, <3>2 DEF Change, Placed
      <4>3. Shut \/ Waiting \/ Wide \/ Suspended
        BY <2>4, <3>2 DEF Change, DoorSays
      <4>4. (Shut \/ Waiting \/ Kept)'
        BY <4>1, <4>3, <1>1 DEF RunJob, GrantsRow, Revokes, Suspends, Restores, NobodyFound, TakeAway, Known, db,
                           Shut, Waiting, Wide, Suspended, Kept
      <4> QED BY <4>2, <4>4 DEF DoorSays
    <3>3. CASE raw = "orderPaused"
      <4>1. j.type = "payment.failed"
        BY <2>5, <3>3 DEF Normalized
      <4>2. v.status = "PAUSED" /\ v.pay = u.pay /\ u.status = "ACTIVE"
        BY <2>4, <3>3 DEF Change, Placed
      <4>3. Wide \/ (Shut /\ v.pay # "PAID")
        BY <2>4, <4>2 DEF DoorSays
      <4>4. (Suspended \/ (Shut /\ v.pay # "PAID"))'
        BY <4>1, <4>3, <1>1 DEF RunJob, GrantsRow, Revokes, Suspends, Restores, NobodyFound, Suspend, Known, db,
                           Shut, Wide, Suspended
      <4> QED BY <4>2, <4>4 DEF DoorSays
    <3>4. CASE raw = "orderResumed"
      <4>1. j.type = "payment.recovered"
        BY <2>5, <3>4 DEF Normalized
      <4>2. v.status = "ACTIVE" /\ v.pay = u.pay /\ u.status = "PAUSED"
        BY <2>4, <3>4 DEF Change, Placed
      <4>3. Suspended \/ (Shut /\ v.pay # "PAID")
        BY <2>4, <4>2 DEF DoorSays
      <4>4. (Wide \/ (Shut /\ v.pay # "PAID"))'
        BY <4>1, <4>3, <1>1 DEF RunJob, GrantsRow, Revokes, Suspends, Restores, NobodyFound, Restore, Known, db,
                           Shut, Wide, Suspended
      <4> QED BY <4>2, <4>4 DEF DoorSays
    <3>5. raw # "orderAutoRenewCanceled"
      BY <2>5, <1>1 DEF Normalized, OrderJob
    <3> QED BY <3>1, <3>2, <3>3, <3>4, <3>5 DEF RawEvents
  <2> QED BY <2>2, <2>5, <2>7, <1>1 DEF JobIsRun
<1> QED BY <1>3, <1>4, <1>5 DEF OrdersInv

(* A delivery: the event's job, if it has one, is the one to run.          *)
LEMMA ParsedTypes ==
  ASSUME NEW e \in OrderEvent
  PROVE  /\ JobOf(Parsed(e)) # "none" => Job(Parsed(e), e.of, e.order.future) \in OrderJob
                                         /\ Parsed(e) = Normalized(e.raw)
         /\ IsGrant(Parsed(e)) => /\ MayGrant(e)
                                  /\ Parsed(e) = "plan.started" => e.raw = "orderStarted"
         /\ JobOf(Parsed(e)) = "none" =>
              \/ e.raw = "orderAutoRenewCanceled"
              \/ e.raw \in {"orderPurchased", "orderUpdated", "orderStarted"} /\ ~MayGrant(e)
<1>1. e.raw \in RawEvents /\ e.of \in PlanOrders /\ e.order.future \in BOOLEAN
  BY DEF OrderEvent, OrderRec
<1>2. CASE e.raw \in {"orderPurchased", "orderUpdated", "orderStarted"}
  <2>1. CASE MayGrant(e)
    BY <1>1, <1>2, <2>1 DEF Parsed, Normalized, JobOf, Job, OrderJob, IsGrant
  <2>2. CASE ~MayGrant(e)
    BY <1>2, <2>2 DEF Parsed, Normalized, JobOf, IsGrant
  <2> QED BY <2>1, <2>2
<1>3. CASE e.raw = "orderAutoRenewCanceled"
  BY <1>3 DEF Parsed, Normalized, JobOf, IsGrant
<1>4. CASE e.raw \in {"orderCanceled", "orderEnded"}
  BY <1>1, <1>4 DEF Parsed, Normalized, JobOf, Job, OrderJob, IsGrant
<1>5. CASE e.raw \in {"orderPaused", "orderResumed"}
  BY <1>1, <1>5 DEF Parsed, Normalized, JobOf, Job, OrderJob, IsGrant
<1> QED BY <1>1, <1>2, <1>3, <1>4, <1>5 DEF RawEvents

LEMMA DeliverKeeps ==
  ASSUME OrdersInv, NEW e \in transit, Deliver(e)
  PROVE  OrdersInv'
<1>t. OrdersShape /\ UnpaidFits /\ ToldInOrder
  BY DEF OrdersInv
<1> DEFINE j0 == Job(Parsed(e), e.of, e.order.future)
<1>1. /\ UNCHANGED <<history, planOrder, sent, row, parked, user, role, seen, everPaid>> /\ transit' = transit \ {e}
      /\ jobs' = IF JobOf(Parsed(e)) = "none" THEN jobs ELSE jobs \cup {j0}
      /\ e \in OrderEvent /\ e.n \in Nat /\ e.n <= sent /\ e.of \in history.orders /\ e.of \in PlanOrders
      /\ sent \in Nat
  BY <1>t, OrdersAssumption DEF Deliver, wix, db, OrdersShape, OrdersTypeOK, OrderEvent
<1>2. j0.type = Parsed(e) /\ j0.of = e.of /\ j0.future = e.order.future
  BY DEF Job
<1> HIDE DEF j0
<1>3. OrdersShape'
  <2>1. jobs' \subseteq OrderJob
    BY <1>1, <1>t, ParsedTypes DEF OrdersShape, j0
  <2> QED BY <2>1, <1>1, <1>t DEF OrdersShape, OrdersTypeOK
<1>4. UnpaidFits'
  <2>1. ASSUME NEW j \in jobs' PROVE AskFits(j)'
    <3>1. CASE j \in jobs
      BY <3>1, <1>1, <1>t DEF UnpaidFits, AskFits, Ahead
    <3>2. CASE j = j0 /\ IsGrant(j0.type)
      <4>1. e.order.pay = "PAID" /\ EventFits(e)
        BY <3>2, <1>2, <1>1, <1>t, ParsedTypes DEF UnpaidFits, MayGrant
      <4>2. CASE e.of \in everPaid
        BY <4>2, <3>2, <1>1, <1>2 DEF AskFits
      <4>3. CASE e.order.future /\ planOrder[e.of].future
        <5>1. j0.type = "plan.purchased"
          BY <4>1, <4>3, <3>2, <1>1, <1>2, ParsedTypes DEF EventFits, IsGrant
        <5> QED BY <5>1, <4>3, <3>2, <1>1, <1>2 DEF AskFits, Ahead
      <4> QED BY <4>1, <4>2, <4>3 DEF EventFits
    <3> QED BY <3>1, <3>2, <1>1 DEF AskFits
  <2> QED BY <2>1, <1>1, <1>t DEF UnpaidFits, OrderFits, EventFits
<1>5. ToldInOrder'
  <2> SUFFICES ASSUME OneTold, NEW o \in history.orders
               PROVE  \E q \in 0 .. sent, v \in OrderRec : (OnTheWay(o, q, v) /\ (JobIsRun(o, v) \/ JobToRun(o, v)))'
    BY <1>1 DEF ToldInOrder, OneTold
  <2>1. PICK q \in 0 .. sent, v \in OrderRec : OnTheWay(o, q, v) /\ (JobIsRun(o, v) \/ JobToRun(o, v))
    BY <1>t DEF ToldInOrder
  <2>2. jobs = {} /\ DoorSays(o, v) /\ Next1(e)
    BY <2>1 DEF Deliver, OneTold, JobIsRun, JobToRun
  <2>3. e.of = o
    <3>1. IsFiniteSet(history.orders)
      BY OrdersAssumption, <1>t DEF OrdersShape, OrdersTypeOK
    <3> QED BY <3>1, <1>1, FS_Singleton DEF OneTold
  <2>4. e.n = q + 1
    <3>1. e.n > q
      BY <2>1 DEF OnTheWay
    <3>2. PICK f \in transit : f.n = q + 1
      BY <3>1, <2>1, <1>1 DEF OnTheWay
    <3> QED BY <3>1, <3>2, <2>2, <1>1 DEF Next1
  <2>5. Change(v, e.raw, e.order) /\ e.order \in OrderRec /\ e.raw \in RawEvents
    BY <2>1, <2>4, <1>1 DEF OnTheWay, OrderEvent
  <2>6. OnTheWay(o, q + 1, e.order)'
    <3>0. \A f \in transit : f.n \in Nat /\ f.n > q /\ (f # e => f.n # q + 1)
      BY <2>1, <2>4, <1>t DEF OnTheWay, OrdersShape, OrdersTypeOK, OrderEvent
    <3>1. \A f \in transit' : f.n > q + 1
      BY <3>0, <1>1
    <3>2. \A k \in (q + 1) + 1 .. sent' : \E f \in transit' : f.n = k
      <4> SUFFICES ASSUME NEW k \in q + 2 .. sent PROVE \E f \in transit' : f.n = k
        BY <1>1
      <4>1. PICK f \in transit : f.n = k
        BY <2>1 DEF OnTheWay
      <4> QED BY <4>1, <2>4, <1>1
    <3>3. q + 1 = sent' => e.order = planOrder'[o]
      BY <2>1, <2>4, <1>1 DEF OnTheWay
    <3>4. \A f \in transit' : /\ f.n = (q + 1) + 1 => Change(e.order, f.raw, f.order)
                              /\ f.n = sent' => f.order = planOrder'[o]
                              /\ \A g \in transit' : g.n = f.n + 1 => Change(f.order, g.raw, g.order)
      BY <2>1, <2>4, <1>1 DEF OnTheWay
    <3> QED BY <3>1, <3>2, <3>3, <3>4 DEF OnTheWay
  <2>7. (JobIsRun(o, e.order) \/ JobToRun(o, e.order))'
    <3>1. CASE JobOf(Parsed(e)) = "none"
      <4>1. DoorSays(o, e.order)
        <5>1. CASE e.raw = "orderAutoRenewCanceled"
          BY <5>1, <2>5, <2>2 DEF Change
        <5>2. CASE e.raw \in {"orderPurchased", "orderUpdated", "orderStarted"} /\ ~MayGrant(e)
          <6>1. e.order # Placed("ACTIVE", "PAID", FALSE)
            BY <5>2 DEF MayGrant, Placed
          <6>2. \/ /\ v.status = "NONE"
                   /\ e.order \in {Placed("ACTIVE", "UNPAID", FALSE), Placed("ACTIVE", "FAILED", FALSE),
                                   Placed("DRAFT", "UNPAID", FALSE), Placed("PENDING", "PAID", TRUE)}
                \/ v = Placed("ACTIVE", "PAID", FALSE) /\ e.order = Placed("ACTIVE", "FAILED", FALSE)
            BY <5>2, <6>1, <2>5 DEF Change
          <6>3. CASE v.status = "NONE"
            <7>1. Shut
              BY <6>3, <2>2 DEF DoorSays
            <7> QED BY <7>1, <6>2, <6>3 DEF DoorSays, Placed
          <6>4. CASE v = Placed("ACTIVE", "PAID", FALSE) /\ e.order = Placed("ACTIVE", "FAILED", FALSE)
            <7>1. Wide
              BY <6>4, <2>2 DEF DoorSays, Placed
            <7> QED BY <7>1, <6>4 DEF DoorSays, Placed
          <6> QED BY <6>2, <6>3, <6>4
        <5> QED BY <5>1, <5>2, <3>1, <1>1, ParsedTypes
      <4> QED BY <4>1, <3>1, <2>2, <1>1 DEF JobIsRun, DoorSays, Shut, Waiting, Wide, Suspended, Kept
    <3>2. CASE JobOf(Parsed(e)) # "none"
      <4>1. jobs' = {Job(Normalized(e.raw), o, e.order.future)} /\ Parsed(e) = Normalized(e.raw)
        BY <3>2, <2>2, <2>3, <1>1, ParsedTypes DEF j0
      <4>2. IsGrant(Normalized(e.raw)) => e.order.pay = "PAID"
        BY <4>1, <1>1, ParsedTypes DEF MayGrant
      <4>3. DoorSays(o, v)'
        BY <2>2, <1>1 DEF DoorSays, Shut, Waiting, Wide, Suspended, Kept
      <4> QED BY <4>1, <4>2, <4>3, <2>5 DEF JobToRun
    <3> QED BY <3>1, <3>2
  <2> QED BY <2>4, <2>5, <2>6, <2>7, <1>1
<1> QED BY <1>3, <1>4, <1>5 DEF OrdersInv

(* The sweep grants only for an order that is active and paid.             *)
LEMMA OrderSweepKeeps ==
  ASSUME OrdersInv, Sweep
  PROVE  OrdersInv'
<1>t. OrdersShape /\ UnpaidFits
  BY DEF OrdersInv
<1>1. /\ UNCHANGED <<history, planOrder, sent, transit, row, parked, user, role, everPaid>> /\ history.swept
      /\ seen \in 0 .. 1 /\ history.orders \subseteq PlanOrders
  BY <1>t, OrdersAssumption DEF Sweep, wix, db, OrdersShape, OrdersTypeOK
<1>2. \A j \in jobs' : j \in jobs \/ (\E o \in Bought : /\ j = Job("plan.purchased", o, FALSE) /\ IsPaying(planOrder[o]))
                                 \/ (\E o \in Bought : j = Job("plan.cancelled", o, FALSE))
  BY DEF Sweep
<1>3. Bought \subseteq PlanOrders
  BY <1>1 DEF Bought
<1>4. seen' \in 0 .. 1
  BY <1>1 DEF Sweep, Strike
<1>5. OrdersShape'
  <2>1. jobs' \subseteq OrderJob
    <3>1. \A o \in PlanOrders, type \in {"plan.purchased", "plan.cancelled"} : Job(type, o, FALSE) \in OrderJob
      BY DEF OrderJob, Job
    <3> QED BY <3>1, <1>2, <1>3, <1>t DEF OrdersShape
  <2> QED BY <2>1, <1>1, <1>4, <1>t DEF OrdersShape, OrdersTypeOK
<1>6. \A j \in jobs' : AskFits(j)'
  <2> SUFFICES ASSUME NEW j \in jobs' PROVE AskFits(j)'
    OBVIOUS
  <2>1. CASE j \in jobs
    BY <2>1, <1>1, <1>t DEF UnpaidFits, AskFits, Ahead
  <2>2. ASSUME NEW o \in Bought, j = Job("plan.purchased", o, FALSE), IsPaying(planOrder[o]) PROVE AskFits(j)'
    <3>1. o \in everPaid
      BY <2>2, <1>3, <1>t DEF UnpaidFits, OrderFits, IsPaying
    <3> QED BY <3>1, <2>2, <1>1 DEF AskFits, Job
  <2>3. ASSUME NEW o \in Bought, j = Job("plan.cancelled", o, FALSE) PROVE AskFits(j)'
    BY <2>3 DEF AskFits, Job, IsGrant
  <2> QED BY <2>1, <2>2, <2>3, <1>2
<1>7. UnpaidFits'
  BY <1>1, <1>6, <1>t DEF UnpaidFits, OrderFits, EventFits
<1>8. ToldInOrder'
  BY <1>1 DEF ToldInOrder, OneTold
<1> QED BY <1>5, <1>7, <1>8 DEF OrdersInv

LEMMA OrdersStep == OrdersInv /\ [OrdersNext]_vars => OrdersInv'
<1> SUFFICES ASSUME OrdersInv, [OrdersNext]_vars PROVE OrdersInv'
  OBVIOUS
<1>1. CASE OrderChanges
  <2>1. PICK o \in PlanOrders, new \in OrderRec, raw \in RawEvents :
           Becomes(o, new, raw) /\ Change(planOrder[o], raw, new)
    BY <1>1, EachIsAnEvent DEF OrdersInv, UnpaidFits
  <2> QED BY <2>1, BecomesKeeps
<1>2. CASE \E e \in transit : Deliver(e)
  BY <1>2, DeliverKeeps
<1>3. CASE \E j \in jobs : RunJob(j)
  BY <1>3, RunKeeps
<1>4. CASE Sweep
  BY <1>4, OrderSweepKeeps
<1>5. CASE UNCHANGED vars
  <2>1. OrdersShape' /\ UnpaidFits'
    BY <1>5 DEF OrdersInv, OrdersShape, OrdersTypeOK, UnpaidFits, OrderFits, EventFits, AskFits, Ahead, vars
  <2>2. ToldInOrder'
    BY <1>5 DEF OrdersInv, ToldInOrder, OneTold, OnTheWay, JobIsRun, JobToRun, DoorSays, Shut, Waiting, Wide, Suspended, Kept, vars
  <2> QED BY <2>1, <2>2 DEF OrdersInv
<1> QED BY <1>1, <1>2, <1>3, <1>4, <1>5 DEF OrdersNext

LEMMA DoorIsTold == OrdersInv => InOrderFollows
<1> SUFFICES ASSUME OrdersInv, OneTold, transit = {}, jobs = {}, NEW o \in Bought
             PROVE  /\ IsPaying(planOrder[o]) /\ ~planOrder[o].future => In
                    /\ planOrder[o].status = "PAUSED" => ~In
                    /\ HasEnded(planOrder[o]) /\ ~parked => ~In
                    /\ planOrder[o].future => ~In
  BY DEF InOrderFollows, OneTold
<1>1. o \in history.orders /\ o \in PlanOrders
  BY OrdersAssumption DEF Bought, OrdersInv, OrdersShape, OrdersTypeOK
<1>2. PICK q \in 0 .. sent, v \in OrderRec : OnTheWay(o, q, v) /\ (JobIsRun(o, v) \/ JobToRun(o, v))
  BY <1>1 DEF OrdersInv, ToldInOrder
<1>3. sent \in Nat
  BY OrdersAssumption DEF OrdersInv, OrdersShape, OrdersTypeOK
<1>4. v = planOrder[o]
  BY <1>2, <1>3 DEF OnTheWay
<1>5. DoorSays(o, planOrder[o])
  BY <1>2, <1>4 DEF JobIsRun, JobToRun
<1>6. OrderFits(o)
  BY <1>1 DEF OrdersInv, UnpaidFits
<1>7. role => ~planOrder[o].future
  <2>1. IsFiniteSet(history.orders)
    BY OrdersAssumption DEF OrdersInv, OrdersShape, OrdersTypeOK
  <2>2. role => o \in everPaid
    BY <2>1, <1>1, FS_Singleton DEF OneTold, OrdersInv, OrdersShape, UnpaidFits
  <2> QED BY <2>2, <1>6 DEF OrderFits
<1> QED BY <1>5, <1>6, <1>7 DEF DoorSays, OrderFits, IsPaying, HasEnded, In, Shut, Waiting, Wide, Suspended, Kept

(* OrderEvents: nobody is let in on orders that were never active and paid *)
(* whatever order events and jobs come in, and the events of one order,    *)
(* told in order, leave the door as the order stands (wix-adapter.js's     *)
(* guard, event-routing.js, the jobs of queue-worker.js).                  *)
THEOREM OrdersAreFollowed == OrdersSpec => []OrdersHold
<1>1. OrdersInv => OrdersHold
  BY DoorIsTold DEF OrdersInv, OrdersShape, UnpaidFits, UnpaidStaysOut, OrdersHold
<1> QED BY <1>1, OrdersBegin, OrdersStep, PTL DEF OrdersSpec
-----------------------------------------------------------------------------
(* KisiUsers: what AccessSync never does to the people of an organisation. *)
(* Who made a user (by) never changes, and no marker ever names another;   *)
(* where the jobs take turns, what a guard has read is still so when the   *)
(* user is deleted.                                                        *)

InGrant    == {"resolve", "find", "create", "refind", "save", "label", "patch", "confirm", "assign", "record"}
Labelling  == {"label", "patch", "confirm"}
Named      == Labelling \cup {"save", "assign", "record"}
Guarded    == {"others", "mine", "bosses", "delete"}
Finalizing == Guarded \cup {"sharers", "purge"}

KisiWork == [step : InGrant \cup Finalizing \cup {"idle", "take"}, user : {0} \cup People, again : BOOLEAN,
             mark : Owner, kept : BOOLEAN]
PeopleScenario ==
  [gym : [Accounts -> Gyms], jobs : [Accounts -> Seq({"grant", "revoke"})], apart : BOOLEAN,
   way : MetaWays, older : {"absent", "unmarked"} \cup Gyms, faults : Nat, kinds : SUBSET KisiTrouble,
   staff : Nat, does : SUBSET StaffDoes, script : BOOLEAN]

PeopleShape ==
  /\ KisiTypeOK /\ born \in Older .. MaxPeople /\ peopleLeft \in PeopleScenario
  /\ owed \in [Accounts -> Seq({"grant", "revoke"})] /\ work \in [Actors -> KisiWork]
  /\ \A i \in People : i > born => kisiUser[i] = Nobody

(* The markers of a user name whoever made it, or nobody.                  *)
MarkersFit == \A i \in People : {kisiUser[i].meta, kisiUser[i].notes} \subseteq {"none", kisiUser[i].by}

(* The job of an account, and what the account says meanwhile.             *)
AccountFits(a) ==
  LET s == work[a].step  u == work[a].user IN
  /\ account[a].st = "in_flight" <=> s \in InGrant
  /\ s \in Finalizing => account[a].st = "inactive"
  /\ s = "take" => account[a].st \in {"active", "inactive"}
  /\ account[a].st \in {"active", "inactive"} \/ s = "assign" => account[a].user # 0
  /\ s \in Named \cup Finalizing \cup {"take"} => u # 0
  /\ s \in Named => kisiUser[u].mail = "own"
  /\ account[a].user # 0 => kisiUser[account[a].user].mail = "own"
  /\ s \in {"bosses", "delete"} => kisiUser[u].by = GymOf(a)

(* Who stamps a user stamps whoever made it.                               *)
LabelFits(x) ==
  /\ work[x].step \in Labelling =>
       work[x].user # 0 /\ kisiUser[work[x].user].by = Marker(x) /\ Marker(x) # "none"
  /\ x = Script => work[x].step \in Labelling \cup {"idle"}

(* Where the jobs take turns: what the job at work has read.               *)
HasDoor(a, i) == kisiUser[i].there /\ [user |-> i, door |-> a] \in kisiRole
KeepsDoor(a) ==
  "delete" \notin peopleLeft.does =>
    /\ account[a].st = "active" => HasDoor(a, account[a].user)
    /\ work[a].step = "record" => HasDoor(a, work[a].user)
GuardsHold(a) ==
  /\ work[a].step \in Guarded => Sharers(a) = {}
  /\ work[a].step = "delete" /\ kisiUser[work[a].user].there => ~kisiUser[work[a].user].boss
ReadFits(x) == work[x].step = "patch" /\ kisiUser[work[x].user].extra => work[x].kept
OneAtWork == \A x, y \in Actors : work[x].step # "idle" /\ work[y].step # "idle" => x = y
TurnsFit ==
  peopleLeft.apart =>
    /\ OneAtWork /\ BossesAreKept
    /\ \A a \in Accounts : KeepsDoor(a) /\ GuardsHold(a)
    /\ \A x \in Actors : ReadFits(x)

PeopleInv ==
  /\ PeopleShape /\ MarkersFit /\ OnlyOursDeleted /\ LabelledOrTold /\ TurnsFit
  /\ \A a \in Accounts : AccountFits(a)
  /\ \A x \in Actors : LabelFits(x)

LEMMA PeopleFacts ==
  /\ Stranger \in People /\ Older \in People /\ 0 \notin People /\ People \subseteq Nat /\ Older = 2 /\ Stranger = 1
  /\ "none" \notin Gyms /\ Script \notin Accounts /\ Actors = Accounts \cup {Script} /\ MaxPeople \in Nat
BY KisiUsersAssumption DEF People, Stranger, Older, Actors

LEMMA RestIsWork == AtRest \in KisiWork
BY DEF AtRest, KisiWork, Owner

(* What a behaviour is about does not change.                              *)
CaseStays ==
  /\ peopleLeft' \in PeopleScenario
  /\ peopleLeft'.gym = peopleLeft.gym /\ peopleLeft'.apart = peopleLeft.apart /\ peopleLeft'.way = peopleLeft.way
  /\ peopleLeft'.kinds = peopleLeft.kinds /\ peopleLeft'.does = peopleLeft.does

LEMMA TroubleStays ==
  ASSUME peopleLeft \in PeopleScenario, NEW k, Fault(k)
  PROVE  CaseStays /\ k \in peopleLeft.kinds
<1>1. peopleLeft.faults - 1 \in Nat
  BY DEF Fault, PeopleScenario
<1> QED BY <1>1 DEF Fault, CaseStays, PeopleScenario

LEMMA NoTroubleStays ==
  ASSUME peopleLeft \in PeopleScenario, UNCHANGED peopleLeft
  PROVE  CaseStays
BY DEF CaseStays

(* A step of one actor: its turn, and what it leaves alone.                *)
MyTurn(x) == peopleLeft.apart => work[x].step # "idle" \/ \A y \in Actors : work[y].step = "idle"
Only(x)   == /\ \A y \in Actors : y # x => work'[y] = work[y]
             /\ \A b \in Accounts : b # x => account'[b] = account[b]
UsersKeep == \A i \in People : /\ kisiUser[i].by # "none" => kisiUser'[i].by = kisiUser[i].by
                               /\ kisiUser[i].mail # "" => kisiUser'[i].mail = kisiUser[i].mail
DoorsKeep(x) == peopleLeft.apart /\ "delete" \notin peopleLeft.does =>
  \A b \in Accounts : b # x /\ account[b].st = "active" => HasDoor(b, account[b].user)'

LEMMA StepKeeps ==
  ASSUME PeopleInv, PeopleShape', CaseStays, NEW x \in Actors, Only(x), MyTurn(x), UsersKeep, DoorsKeep(x),
         MarkersFit', OnlyOursDeleted', LabelledOrTold', peopleLeft.apart => BossesAreKept',
         x \in Accounts => AccountFits(x)', LabelFits(x)',
         peopleLeft.apart /\ x \in Accounts => KeepsDoor(x)' /\ GuardsHold(x)', peopleLeft.apart => ReadFits(x)'
  PROVE  PeopleInv'
<1>0. PeopleShape /\ TurnsFit /\ (\A a \in Accounts : AccountFits(a)) /\ (\A y \in Actors : LabelFits(y))
  BY DEF PeopleInv
<1>a. Accounts \subseteq Actors /\ "none" \notin Gyms
  BY PeopleFacts
<1>1. ASSUME NEW b \in Accounts, b # x PROVE AccountFits(b)'
  <2>1. work'[b] = work[b] /\ account'[b] = account[b] /\ peopleLeft'.gym = peopleLeft.gym
    BY <1>1, <1>a DEF Only, CaseStays
  <2>2. work[b].user \in {0} \cup People /\ account[b].user \in {0} \cup People /\ peopleLeft.gym[b] \in Gyms
    BY <1>0, <1>1, <1>a DEF PeopleShape, KisiTypeOK, PeopleScenario
  <2> DEFINE s == work[b].step  u == work[b].user  v == account[b].user
  <2>3. (s \in Named => u # 0 /\ kisiUser[u].mail = "own") /\ (v # 0 => kisiUser[v].mail = "own")
    BY <1>0 DEF AccountFits
  <2>4. s \in {"bosses", "delete"} => u # 0 /\ kisiUser[u].by = peopleLeft.gym[b]
    BY <1>0 DEF AccountFits, Finalizing, Guarded, GymOf
  <2>5. (s \in Named => kisiUser'[u].mail = "own") /\ (v # 0 => kisiUser'[v].mail = "own")
    BY <2>2, <2>3 DEF UsersKeep
  <2>6. s \in {"bosses", "delete"} => kisiUser'[u].by = peopleLeft.gym[b]
    BY <2>2, <2>4, <1>a DEF UsersKeep
  <2>7. AccountFits(b)
    BY <1>0
  <2> QED BY <2>1, <2>5, <2>6, <2>7 DEF AccountFits, GymOf
<1>2. ASSUME NEW y \in Actors, y # x PROVE LabelFits(y)'
  <2>1. work'[y] = work[y] /\ peopleLeft'.gym = peopleLeft.gym
    BY <1>2 DEF Only, CaseStays
  <2>2. work[y].user \in {0} \cup People
    BY <1>0, <1>2 DEF PeopleShape, KisiTypeOK
  <2> QED BY <2>1, <2>2, <1>0 DEF LabelFits, UsersKeep, Marker, GymOf
<1>3. TurnsFit'
  <2> SUFFICES ASSUME peopleLeft.apart
               PROVE  OneAtWork' /\ BossesAreKept' /\ (\A a \in Accounts : KeepsDoor(a)' /\ GuardsHold(a)')
                      /\ \A y \in Actors : ReadFits(y)'
    BY DEF TurnsFit, CaseStays
  <2>1. \A y \in Actors : y # x => work[y].step = "idle" /\ work'[y].step = "idle"
    BY <1>0 DEF TurnsFit, OneAtWork, MyTurn, Only
  <2>2. OneAtWork'
    BY <2>1 DEF OneAtWork
  <2>3. ASSUME NEW b \in Accounts, b # x PROVE KeepsDoor(b)' /\ GuardsHold(b)'
    <3>1. work'[b].step = "idle"
      BY <2>1, <2>3, <1>a
    <3>2. GuardsHold(b)'
      BY <3>1 DEF GuardsHold, Guarded
    <3>3. KeepsDoor(b)'
      <4>1. peopleLeft'.does = peopleLeft.does /\ account'[b] = account[b]
        BY <2>3 DEF CaseStays, Only
      <4> QED BY <3>1, <4>1, <2>3 DEF KeepsDoor, DoorsKeep, HasDoor
    <3> QED BY <3>2, <3>3
  <2>4. ASSUME NEW y \in Actors, y # x PROVE ReadFits(y)'
    BY <2>1, <2>4 DEF ReadFits
  <2> QED BY <2>2, <2>3, <2>4
<1> QED BY <1>1, <1>2, <1>3, <1>a DEF PeopleInv

(* A step that reads Kisi or writes a row.                                 *)
LabelEnds(x) ==
  x \in Accounts /\ work[x].step \in Labelling =>
    LET u == work[x].user IN
    \/ work'[x].step \in Labelling /\ work'[x].user = u
    \/ u \in told' \/ kisiUser[u].meta = kisiUser[u].by \/ ~kisiUser[u].there

LEMMA QuietKeeps ==
  ASSUME PeopleInv, CaseStays, NEW x \in Actors, MyTurn(x), UNCHANGED <<kisiUser, kisiRole, born, killed>>,
         work' \in [Actors -> KisiWork], \A y \in Actors : y # x => work'[y] = work[y],
         account' \in [Accounts -> [user : {0} \cup People, st : {"none", "in_flight", "active", "inactive", "deleted"},
                                    role : BOOLEAN]],
         \A b \in Accounts : b # x => account'[b] = account[b],
         owed' \in [Accounts -> Seq({"grant", "revoke"})], told \subseteq told', told' \subseteq People,
         refused' \subseteq Accounts, LabelEnds(x), x \in Accounts => AccountFits(x)', LabelFits(x)',
         peopleLeft.apart /\ x \in Accounts => KeepsDoor(x)' /\ GuardsHold(x)', peopleLeft.apart => ReadFits(x)'
  PROVE  PeopleInv'
<1>0. PeopleShape /\ TurnsFit /\ MarkersFit /\ OnlyOursDeleted /\ LabelledOrTold
  BY DEF PeopleInv
<1>1. PeopleShape'
  <2>1. \A y \in Actors : work'[y].user \in {0} \cup People
    BY DEF KisiWork
  <2> QED BY <2>1, <1>0 DEF PeopleShape, KisiTypeOK, CaseStays
<1>2. Only(x) /\ UsersKeep
  BY DEF Only, UsersKeep
<1>3. DoorsKeep(x)
  BY <1>0 DEF DoorsKeep, TurnsFit, KeepsDoor, HasDoor
<1>4. MarkersFit' /\ OnlyOursDeleted' /\ (peopleLeft.apart => BossesAreKept')
  BY <1>0 DEF MarkersFit, OnlyOursDeleted, BossesAreKept, TurnsFit
<1>5. LabelledOrTold'
  <2> SUFFICES ASSUME {"late"} \cap peopleLeft.kinds = {}, NEW i \in People, kisiUser[i].there, kisiUser[i].by \in Gyms,
                      i > Older
               PROVE  \/ kisiUser[i].meta = kisiUser[i].by \/ i \in told'
                      \/ \E y \in Accounts : work'[y].user = i /\ work'[y].step \in {"label", "patch", "confirm"}
    BY DEF LabelledOrTold, CaseStays
  <2>1. CASE kisiUser[i].meta = kisiUser[i].by \/ i \in told
    BY <2>1
  <2>2. CASE \E y \in Accounts : work[y].user = i /\ work[y].step \in {"label", "patch", "confirm"}
    <3>1. PICK y \in Accounts : work[y].user = i /\ work[y].step \in {"label", "patch", "confirm"}
      BY <2>2
    <3>2. CASE y # x
      <4>1. work'[y] = work[y]
        BY <3>2, PeopleFacts
      <4> QED BY <3>1, <4>1
    <3>3. CASE y = x
      BY <3>1, <3>3 DEF LabelEnds, Labelling
    <3> QED BY <3>2, <3>3
  <2> QED BY <1>0, <2>1, <2>2 DEF LabelledOrTold
<1> QED BY <1>1, <1>2, <1>3, <1>4, <1>5, StepKeeps

AccountRec == [user : {0} \cup People, st : {"none", "in_flight", "active", "inactive", "deleted"}, role : BOOLEAN]

LEMMA OfAccount ==
  ASSUME PeopleInv, NEW a \in Accounts
  PROVE  /\ a \in Actors /\ a # Script /\ work[a] \in KisiWork /\ account[a] \in AccountRec /\ GymOf(a) \in Gyms
         /\ AccountFits(a) /\ LabelFits(a) /\ Marker(a) = GymOf(a) /\ peopleLeft \in PeopleScenario
         /\ work \in [Actors -> KisiWork] /\ account \in [Accounts -> AccountRec] /\ told \subseteq People
         /\ refused \subseteq Accounts /\ owed \in [Accounts -> Seq({"grant", "revoke"})]
BY PeopleFacts DEF PeopleInv, PeopleShape, KisiTypeOK, AccountRec, GymOf, PeopleScenario, Marker

(* The actor takes up its work again, or rests.                            *)
LEMMA TakesUp ==
  ASSUME PeopleInv, NEW x \in Actors, NEW w \in KisiWork, work' = [work EXCEPT ![x] = w]
  PROVE  work' \in [Actors -> KisiWork] /\ work'[x] = w /\ \A y \in Actors : y # x => work'[y] = work[y]
BY DEF PeopleInv, PeopleShape

LEMMA GrantGoes ==
  ASSUME PeopleInv, CaseStays, NEW a \in Accounts, NEW w \in KisiWork, work' = [work EXCEPT ![a] = w],
         w.step \in {"resolve", "find", "create", "refind"}, work[a].step \in InGrant \ Labelling,
         UNCHANGED <<Kisi, account, owed, told, refused, killed>>
  PROVE  PeopleInv'
<1>0. a \in Actors /\ a # Script /\ AccountFits(a) /\ account \in [Accounts -> AccountRec] /\ told \subseteq People
      /\ refused \subseteq Accounts /\ owed \in [Accounts -> Seq({"grant", "revoke"})]
  BY OfAccount
<1>1. work' \in [Actors -> KisiWork] /\ work'[a] = w /\ \A y \in Actors : y # a => work'[y] = work[y]
  BY <1>0, TakesUp
<1>2. account[a].st = "in_flight"
  BY <1>0 DEF AccountFits
<1>3. AccountFits(a)' /\ LabelFits(a)'
  BY <1>0, <1>1, <1>2 DEF AccountFits, LabelFits, InGrant, Named, Labelling, Finalizing, Guarded, Kisi
<1>4. KeepsDoor(a)' /\ GuardsHold(a)' /\ ReadFits(a)'
  BY <1>1, <1>2 DEF KeepsDoor, GuardsHold, ReadFits, Guarded
<1>5. LabelEnds(a) /\ MyTurn(a)
  BY DEF LabelEnds, MyTurn, InGrant
<1> QED BY <1>0, <1>1, <1>3, <1>4, <1>5, QuietKeeps DEF Kisi, AccountRec

LEMMA GrantNames ==
  ASSUME PeopleInv, CaseStays, NEW a \in Accounts, NEW w \in KisiWork, work' = [work EXCEPT ![a] = w],
         w.step \in {"save", "assign"}, work[a].step \in InGrant, LabelEnds(a),
         w.user \in People, kisiUser[w.user].mail = "own", w.step = "assign" => account[a].user # 0,
         UNCHANGED <<Kisi, account, owed, refused, killed>>, told \subseteq told', told' \subseteq People
  PROVE  PeopleInv'
<1>0. a \in Actors /\ a # Script /\ AccountFits(a) /\ account \in [Accounts -> AccountRec]
      /\ refused \subseteq Accounts /\ owed \in [Accounts -> Seq({"grant", "revoke"})]
  BY OfAccount
<1>1. work' \in [Actors -> KisiWork] /\ work'[a] = w /\ \A y \in Actors : y # a => work'[y] = work[y]
  BY <1>0, TakesUp
<1>2. account[a].st = "in_flight" /\ w.user # 0
  BY <1>0, PeopleFacts DEF AccountFits
<1>3. AccountFits(a)' /\ LabelFits(a)'
  BY <1>0, <1>1, <1>2 DEF AccountFits, LabelFits, InGrant, Labelling, Finalizing, Guarded, Kisi
<1>4. KeepsDoor(a)' /\ GuardsHold(a)' /\ ReadFits(a)'
  BY <1>1, <1>2 DEF KeepsDoor, GuardsHold, ReadFits, Guarded
<1>5. MyTurn(a)
  BY DEF MyTurn, InGrant
<1> QED BY <1>0, <1>1, <1>3, <1>4, <1>5, QuietKeeps DEF Kisi, AccountRec

LEMMA RevokeGoes ==
  ASSUME PeopleInv, CaseStays, NEW a \in Accounts, NEW w \in KisiWork, work' = [work EXCEPT ![a] = w],
         w.step \in Finalizing, work[a].step \in Finalizing, w.user = work[a].user,
         w.step \in {"bosses", "delete"} => kisiUser[w.user].by = GymOf(a),
         peopleLeft.apart /\ w.step \in Guarded => Sharers(a) = {},
         w.step = "delete" => ~Elevated(w.user),
         UNCHANGED <<Kisi, account, owed, told, refused, killed>>
  PROVE  PeopleInv'
<1>0. a \in Actors /\ a # Script /\ AccountFits(a) /\ account \in [Accounts -> AccountRec] /\ told \subseteq People
      /\ refused \subseteq Accounts /\ owed \in [Accounts -> Seq({"grant", "revoke"})]
  BY OfAccount
<1>1. work' \in [Actors -> KisiWork] /\ work'[a] = w /\ \A y \in Actors : y # a => work'[y] = work[y]
  BY <1>0, TakesUp
<1>2. account[a].st = "inactive" /\ w.user # 0
  BY <1>0 DEF AccountFits
<1>3. w.step \notin InGrant /\ w.step \notin Named /\ w.step \notin Labelling
  BY DEF Finalizing, Guarded, InGrant, Named, Labelling
<1>4. AccountFits(a)' /\ LabelFits(a)'
  BY <1>0, <1>1, <1>2, <1>3 DEF AccountFits, LabelFits, Kisi, GymOf, CaseStays
<1>5. peopleLeft.apart => KeepsDoor(a)' /\ GuardsHold(a)' /\ ReadFits(a)'
  <2>1. Sharers(a)' = Sharers(a)
    BY <1>1 DEF Sharers
  <2>2. w.step # "record" /\ w.step # "patch"
    BY DEF Finalizing, Guarded
  <2> QED BY <1>1, <1>2, <2>1, <2>2 DEF KeepsDoor, GuardsHold, ReadFits, Elevated, Kisi
<1>6. LabelEnds(a) /\ MyTurn(a)
  BY DEF LabelEnds, MyTurn, Finalizing, Guarded, Labelling
<1> QED BY <1>0, <1>1, <1>4, <1>5, <1>6, QuietKeeps DEF Kisi, AccountRec

LEMMA JobRests ==
  ASSUME PeopleInv, CaseStays, NEW a \in Accounts, NEW c \in AccountRec, work' = [work EXCEPT ![a] = AtRest],
         account' = [account EXCEPT ![a] = c], work[a].step \notin Labelling \cup {"idle"}, c.st # "in_flight",
         c.st \in {"active", "inactive"} => c.user # 0, c.user # 0 => kisiUser[c.user].mail = "own",
         peopleLeft.apart /\ "delete" \notin peopleLeft.does /\ c.st = "active" => HasDoor(a, c.user),
         UNCHANGED <<Kisi, owed, told, killed>>, refused' \subseteq Accounts
  PROVE  PeopleInv'
<1>0. a \in Actors /\ a # Script /\ AccountFits(a) /\ account \in [Accounts -> AccountRec] /\ told \subseteq People
      /\ owed \in [Accounts -> Seq({"grant", "revoke"})]
  BY OfAccount
<1>1. work' \in [Actors -> KisiWork] /\ work'[a] = AtRest /\ \A y \in Actors : y # a => work'[y] = work[y]
  BY <1>0, TakesUp, RestIsWork
<1>2. account'[a] = c /\ account' \in [Accounts -> AccountRec] /\ \A b \in Accounts : b # a => account'[b] = account[b]
  BY <1>0
<1>3. AtRest.step = "idle"
  BY DEF AtRest
<1>4. AccountFits(a)' /\ LabelFits(a)'
  BY <1>0, <1>1, <1>2, <1>3 DEF AccountFits, LabelFits, Kisi, InGrant, Named, Labelling, Finalizing, Guarded
<1>5. peopleLeft.apart => KeepsDoor(a)' /\ GuardsHold(a)' /\ ReadFits(a)'
  BY <1>1, <1>2, <1>3 DEF KeepsDoor, GuardsHold, ReadFits, Kisi, Guarded, CaseStays, HasDoor
<1>6. LabelEnds(a) /\ MyTurn(a)
  BY DEF LabelEnds, MyTurn
<1> QED BY <1>0, <1>1, <1>2, <1>4, <1>5, <1>6, QuietKeeps DEF Kisi, AccountRec

LEMMA BeginsKeeps ==
  ASSUME PeopleInv, NEW a \in Accounts, Begins(a)
  PROVE  PeopleInv'
<1>0. /\ a \in Actors /\ a # Script /\ AccountFits(a) /\ account \in [Accounts -> AccountRec] /\ told \subseteq People
      /\ refused \subseteq Accounts /\ owed \in [Accounts -> Seq({"grant", "revoke"})] /\ CaseStays
      /\ work[a] = AtRest /\ work[a].step = "idle" /\ work[a] \in KisiWork /\ AtRest.step = "idle"
      /\ UNCHANGED <<kisiUser, kisiRole, born, killed, told, refused>> /\ TurnsFit /\ work \in [Actors -> KisiWork]
  BY OfAccount, NoTroubleStays DEF Begins, AtRest, Kisi, PeopleInv
<1>1. MyTurn(a) /\ LabelEnds(a)
  BY <1>0 DEF Begins, MyTurn, LabelEnds, Labelling
<1>2. owed' \in [Accounts -> Seq({"grant", "revoke"})]
  BY <1>0 DEF Begins
<1>3. CASE Head(owed[a]) = "grant"
  <2> DEFINE w == [work[a] EXCEPT !.step = "resolve"]
             c == [account[a] EXCEPT !.st = "in_flight", !.user = IF account[a].st = "deleted" THEN 0 ELSE @]
  <2>1. w \in KisiWork /\ w.step = "resolve" /\ c \in AccountRec /\ c.st = "in_flight" /\ c.user \in {0, account[a].user}
    BY <1>0 DEF KisiWork, AccountRec, InGrant
  <2>2. work' = [work EXCEPT ![a] = w] /\ account' = [account EXCEPT ![a] = c]
    BY <1>0, <1>3 DEF Begins, Step
  <2> HIDE DEF w, c
  <2>3. work' \in [Actors -> KisiWork] /\ work'[a] = w /\ \A y \in Actors : y # a => work'[y] = work[y]
    BY <1>0, <2>1, <2>2, TakesUp
  <2>4. account'[a] = c /\ account' \in [Accounts -> AccountRec] /\ \A b \in Accounts : b # a => account'[b] = account[b]
    BY <1>0, <2>1, <2>2
  <2>5. AccountFits(a)' /\ LabelFits(a)'
    BY <1>0, <2>1, <2>3, <2>4 DEF AccountFits, LabelFits, InGrant, Named, Labelling, Finalizing, Guarded
  <2>6. KeepsDoor(a)' /\ GuardsHold(a)' /\ ReadFits(a)'
    BY <2>1, <2>3, <2>4 DEF KeepsDoor, GuardsHold, ReadFits, Guarded
  <2> QED BY <1>0, <1>1, <1>2, <2>3, <2>4, <2>5, <2>6, QuietKeeps DEF AccountRec
<1>4. CASE Head(owed[a]) # "grant" /\ account[a].st \in {"none", "deleted"}
  <2>1. UNCHANGED <<work, account>>
    BY <1>4 DEF Begins
  <2>2. AccountFits(a)' /\ LabelFits(a)'
    BY <1>0, <2>1 DEF AccountFits, LabelFits, InGrant, Named, Labelling, Finalizing, Guarded
  <2>3. KeepsDoor(a)' /\ GuardsHold(a)' /\ ReadFits(a)'
    BY <1>0, <1>4, <2>1 DEF KeepsDoor, GuardsHold, ReadFits, Guarded
  <2> QED BY <1>0, <1>1, <1>2, <2>1, <2>2, <2>3, QuietKeeps DEF AccountRec
<1>5. CASE Head(owed[a]) # "grant" /\ account[a].st \notin {"none", "deleted"}
  <2> DEFINE w == [work[a] EXCEPT !.step = "take", !.user = account[a].user]
  <2>1. w \in KisiWork /\ w.step = "take" /\ w.user = account[a].user
    BY <1>0 DEF KisiWork, AccountRec
  <2>2. work' = [work EXCEPT ![a] = w] /\ UNCHANGED account
    BY <1>0, <1>5 DEF Begins
  <2> HIDE DEF w
  <2>3. work' \in [Actors -> KisiWork] /\ work'[a] = w /\ \A y \in Actors : y # a => work'[y] = work[y]
    BY <1>0, <2>1, <2>2, TakesUp
  <2>4. account[a].st \in {"active", "inactive"} /\ account[a].user # 0
    BY <1>0, <1>5 DEF AccountFits, InGrant, AccountRec
  <2>5. AccountFits(a)' /\ LabelFits(a)'
    BY <1>0, <2>1, <2>2, <2>3, <2>4 DEF AccountFits, LabelFits, InGrant, Named, Labelling, Finalizing, Guarded
  <2>6. peopleLeft.apart => KeepsDoor(a)' /\ GuardsHold(a)' /\ ReadFits(a)'
    BY <1>0, <2>1, <2>2, <2>3 DEF KeepsDoor, GuardsHold, ReadFits, Guarded, TurnsFit, CaseStays, HasDoor
  <2> QED BY <1>0, <1>1, <1>2, <2>2, <2>3, <2>5, <2>6, QuietKeeps DEF AccountRec
<1> QED BY <1>3, <1>4, <1>5

LEMMA SearchKeeps ==
  ASSUME PeopleInv, NEW a \in Accounts,
         Cached(a) \/ FindsUser(a) \/ FindsNobody(a) \/ CreateConflicts(a) \/ RefindMisses(a) \/ GrantFails(a)
  PROVE  PeopleInv'
<1>0. AccountFits(a) /\ work[a] \in KisiWork /\ account[a] \in AccountRec /\ work \in [Actors -> KisiWork] /\ a \in Actors
      /\ peopleLeft \in PeopleScenario /\ told \subseteq People
  BY OfAccount
<1>a. ASSUME NEW s \in {"resolve", "find", "create", "refind"} PROVE [work[a] EXCEPT !.step = s] \in KisiWork
  BY <1>0 DEF KisiWork, InGrant
<1>b. ASSUME NEW s \in {"resolve", "find", "create", "refind"}, Step(a, s), CaseStays, work[a].step \in InGrant \ Labelling,
             UNCHANGED <<Kisi, account, owed, told, refused, killed>>
      PROVE  PeopleInv'
  <2> DEFINE w == [work[a] EXCEPT !.step = s]
  <2>1. w \in KisiWork /\ w.step = s
    BY <1>0, <1>a DEF KisiWork
  <2>2. work' = [work EXCEPT ![a] = w]
    BY <1>0, <1>b DEF Step
  <2> HIDE DEF w
  <2> QED BY <2>1, <2>2, <1>b, GrantGoes
<1>1. CASE Cached(a)
  <2>0. UNCHANGED <<Kisi, account, Others>> /\ CaseStays /\ work[a].step = "resolve"
    BY <1>1, <1>0, NoTroubleStays DEF Cached, Others
  <2>1. CASE account[a].user # 0 /\ ~work[a].again
    <3> DEFINE w == [work[a] EXCEPT !.step = "assign", !.user = account[a].user]
    <3>1. w \in KisiWork /\ w.step = "assign" /\ w.user = account[a].user
      BY <1>0 DEF KisiWork, InGrant, AccountRec
    <3>2. work' = [work EXCEPT ![a] = w]
      BY <1>1, <2>1, <1>0 DEF Cached
    <3> HIDE DEF w
    <3>3. account[a].user \in People /\ kisiUser[account[a].user].mail = "own"
      BY <2>1, <1>0 DEF AccountFits, AccountRec
    <3>4. LabelEnds(a) /\ work[a].step \in InGrant
      BY <2>0 DEF LabelEnds, Labelling, InGrant
    <3> QED BY <2>0, <2>1, <3>1, <3>2, <3>3, <3>4, <1>0, GrantNames DEF Others
  <2>2. CASE ~(account[a].user # 0 /\ ~work[a].again)
    <3>1. Step(a, "find")
      BY <1>1, <2>2, <1>0 DEF Cached, Step
    <3>2. work[a].step \in InGrant \ Labelling
      BY <2>0 DEF InGrant, Labelling
    <3> QED BY <2>0, <3>1, <3>2, <1>b DEF Others
  <2> QED BY <2>1, <2>2
<1>2. CASE FindsUser(a)
  <2>0. UNCHANGED <<Kisi, account, Others>> /\ CaseStays /\ work[a].step \in {"find", "refind"}
    BY <1>2, <1>0, NoTroubleStays DEF FindsUser, Others
  <2>1. PICK i \in Found : work' = [work EXCEPT ![a].step = "save", ![a].user = i]
    BY <1>2 DEF FindsUser
  <2> DEFINE w == [work[a] EXCEPT !.step = "save", !.user = i]
  <2>2. i \in People /\ kisiUser[i].mail = "own"
    BY DEF Found
  <2>3. w \in KisiWork /\ w.step = "save" /\ w.user = i
    BY <1>0, <2>2 DEF KisiWork, InGrant
  <2>4. work' = [work EXCEPT ![a] = w]
    BY <2>1, <1>0
  <2> HIDE DEF w
  <2>5. LabelEnds(a) /\ work[a].step \in InGrant
    BY <2>0 DEF LabelEnds, Labelling, InGrant
  <2> QED BY <2>0, <2>2, <2>3, <2>4, <2>5, <1>0, GrantNames DEF Others
<1>3. CASE FindsNobody(a)
  <2>1. CaseStays /\ work[a].step = "find"
    BY <1>3, <1>0, TroubleStays, NoTroubleStays DEF FindsNobody
  <2> QED BY <1>3, <2>1, <1>b DEF FindsNobody, InGrant, Labelling
<1>4. CASE CreateConflicts(a)
  <2>1. CaseStays /\ work[a].step = "create"
    BY <1>4, <1>0, NoTroubleStays DEF CreateConflicts, Others
  <2> QED BY <1>4, <2>1, <1>b DEF CreateConflicts, Others, InGrant, Labelling
<1>5. CASE RefindMisses(a)
  <2>1. CaseStays /\ work[a].step = "refind"
    BY <1>5, <1>0, TroubleStays, NoTroubleStays DEF RefindMisses
  <2> QED BY <1>5, <2>1, <1>b DEF RefindMisses, InGrant, Labelling
<1>6. CASE GrantFails(a)
  <2> DEFINE w == [AtRest EXCEPT !.step = "resolve"]
  <2>1. w \in KisiWork /\ w.step = "resolve"
    BY RestIsWork DEF KisiWork, InGrant
  <2>2. CaseStays /\ work[a].step \in InGrant \ Labelling /\ work' = [work EXCEPT ![a] = w]
    BY <1>6, <1>0, TroubleStays DEF GrantFails, InGrant, Labelling
  <2> HIDE DEF w
  <2> QED BY <1>6, <2>1, <2>2, GrantGoes DEF GrantFails
<1> QED BY <1>1, <1>2, <1>3, <1>4, <1>5, <1>6

LEMMA SavesKeeps ==
  ASSUME PeopleInv, NEW a \in Accounts, Saves(a)
  PROVE  PeopleInv'
<1>0. /\ a \in Actors /\ AccountFits(a) /\ account \in [Accounts -> AccountRec] /\ told \subseteq People /\ CaseStays
      /\ refused \subseteq Accounts /\ owed \in [Accounts -> Seq({"grant", "revoke"})] /\ work[a].step = "save"
      /\ work[a] \in KisiWork /\ work \in [Actors -> KisiWork] /\ UNCHANGED <<Kisi, Others>> /\ a # Script
  BY OfAccount, NoTroubleStays DEF Saves, Others
<1> DEFINE i == work[a].user
           c == Saved(a, i)
           w == IF work[a].again /\ account[a].user = i THEN [AtRest EXCEPT !.step = "resolve"]
                ELSE [work[a] EXCEPT !.step = "assign"]
<1>1. w \in KisiWork /\ w.step \in {"resolve", "assign"} /\ (w.step = "assign" => w.user = i)
  BY <1>0, RestIsWork DEF KisiWork, InGrant
<1>2. account[a].st = "in_flight" /\ i # 0 /\ i \in People /\ kisiUser[i].mail = "own"
  BY <1>0 DEF AccountFits, InGrant, Named, KisiWork
<1>3. c \in AccountRec /\ c.st = "in_flight" /\ c.user = i
  BY <1>0, <1>2 DEF Saved, AccountRec
<1>4. work' = [work EXCEPT ![a] = w] /\ account' = [account EXCEPT ![a] = c]
  BY <1>0 DEF Saves
<1> HIDE DEF w, c
<1>5. work' \in [Actors -> KisiWork] /\ work'[a] = w /\ \A y \in Actors : y # a => work'[y] = work[y]
  BY <1>0, <1>1, <1>4, TakesUp
<1>6. account'[a] = c /\ account' \in [Accounts -> AccountRec] /\ \A b \in Accounts : b # a => account'[b] = account[b]
  BY <1>0, <1>3, <1>4
<1>7. AccountFits(a)' /\ LabelFits(a)'
  BY <1>0, <1>1, <1>2, <1>3, <1>5, <1>6 DEF AccountFits, LabelFits, Kisi, InGrant, Labelling, Named, Finalizing, Guarded
<1>8. KeepsDoor(a)' /\ GuardsHold(a)' /\ ReadFits(a)'
  BY <1>1, <1>3, <1>5, <1>6 DEF KeepsDoor, GuardsHold, ReadFits, Guarded
<1>9. LabelEnds(a) /\ MyTurn(a)
  BY <1>0 DEF LabelEnds, MyTurn, Labelling
<1> QED BY <1>0, <1>5, <1>6, <1>7, <1>8, <1>9, QuietKeeps DEF Kisi, Others, AccountRec

LEMMA GoneKeeps ==
  ASSUME PeopleInv, NEW a \in Accounts, FindsUserGone(a)
  PROVE  PeopleInv'
<1>0. /\ a \in Actors /\ AccountFits(a) /\ account \in [Accounts -> AccountRec] /\ CaseStays
      /\ refused \subseteq Accounts /\ work[a].step = "assign" /\ work[a] \in KisiWork /\ work \in [Actors -> KisiWork]
      /\ UNCHANGED <<Kisi, owed, told, killed>>
  BY OfAccount, NoTroubleStays DEF FindsUserGone
<1>1. CASE ResolvesAnew(a)
  <2> DEFINE w == [work[a] EXCEPT !.step = "resolve", !.again = TRUE]
  <2>1. w \in KisiWork /\ w.step = "resolve"
    BY <1>0 DEF KisiWork, InGrant
  <2>2. work' = [work EXCEPT ![a] = w] /\ UNCHANGED <<account, refused>>
    BY <1>0, <1>1 DEF FindsUserGone
  <2> HIDE DEF w
  <2> QED BY <1>0, <2>1, <2>2, GrantGoes DEF InGrant, Labelling
<1>2. CASE ~ResolvesAnew(a)
  <2> DEFINE c == [account[a] EXCEPT !.st = "inactive"]
  <2>1. c \in AccountRec /\ c.st = "inactive" /\ c.user = account[a].user /\ c.user # 0 /\ kisiUser[c.user].mail = "own"
    BY <1>0 DEF AccountRec, AccountFits
  <2>2. work' = [work EXCEPT ![a] = AtRest] /\ account' = [account EXCEPT ![a] = c] /\ refused' \subseteq Accounts
    BY <1>0, <1>2 DEF FindsUserGone
  <2> HIDE DEF c
  <2> QED BY <1>0, <2>1, <2>2, JobRests DEF Labelling
<1> QED BY <1>1, <1>2

LEMMA RowKeeps ==
  ASSUME PeopleInv, NEW a \in Accounts, Records(a)
  PROVE  PeopleInv'
<1>0. /\ a \in Actors /\ AccountFits(a) /\ account \in [Accounts -> AccountRec] /\ CaseStays
      /\ refused \subseteq Accounts /\ work[a].step = "record" /\ work[a] \in KisiWork
      /\ UNCHANGED <<Kisi, Others>>
  BY OfAccount, NoTroubleStays DEF Records, Others
<1> DEFINE c == [user |-> work[a].user, st |-> "active", role |-> TRUE]
<1>1. c \in AccountRec /\ c.st = "active" /\ c.user = work[a].user /\ c.user # 0 /\ kisiUser[c.user].mail = "own"
  BY <1>0 DEF AccountRec, AccountFits, KisiWork, Named
<1>2. peopleLeft.apart /\ "delete" \notin peopleLeft.does => HasDoor(a, c.user)
  BY <1>0 DEF PeopleInv, TurnsFit, KeepsDoor
<1>3. work' = [work EXCEPT ![a] = AtRest] /\ account' = [account EXCEPT ![a] = c]
  BY DEF Records
<1> HIDE DEF c
<1> QED BY <1>0, <1>1, <1>2, <1>3, JobRests DEF Labelling, Others

(* A role is put on a user; nobody loses one.                              *)
LEMMA AssignsKeeps ==
  ASSUME PeopleInv, NEW a \in Accounts, Assigns(a)
  PROVE  PeopleInv'
<1>0. /\ a \in Actors /\ a # Script /\ AccountFits(a) /\ account \in [Accounts -> AccountRec] /\ CaseStays
      /\ work[a].step = "assign" /\ work[a] \in KisiWork /\ work \in [Actors -> KisiWork] /\ PeopleShape /\ TurnsFit
      /\ kisiUser[work[a].user].there /\ kisiRole' = kisiRole \cup {Role(a)}
      /\ UNCHANGED <<kisiUser, born, account, owed, told, refused, killed>>
      /\ MarkersFit /\ OnlyOursDeleted /\ LabelledOrTold
  BY OfAccount, TroubleStays, NoTroubleStays DEF Assigns, PeopleInv
<1>1. PICK s \in {"record", "resolve"} : work' = [work EXCEPT ![a] = [work[a] EXCEPT !.step = s]]
  BY <1>0 DEF Assigns, Step
<1> DEFINE w == [work[a] EXCEPT !.step = s]
<1>2. w \in KisiWork /\ w.step = s /\ w.user = work[a].user
  BY <1>0 DEF KisiWork, InGrant
<1>3. work' = [work EXCEPT ![a] = w]
  BY <1>1
<1> HIDE DEF w
<1>4. work' \in [Actors -> KisiWork] /\ work'[a] = w /\ \A y \in Actors : y # a => work'[y] = work[y]
  BY <1>0, <1>2, <1>3, TakesUp
<1>5. work[a].user # 0 /\ work[a].user \in People /\ kisiUser[work[a].user].mail = "own" /\ account[a].st = "in_flight"
  BY <1>0 DEF AccountFits, Named, KisiWork, InGrant
<1>6. AccountFits(a)' /\ LabelFits(a)'
  BY <1>0, <1>2, <1>4, <1>5 DEF AccountFits, LabelFits, InGrant, Labelling, Named, Finalizing, Guarded
<1>7. PeopleShape'
  <2>1. \A y \in Actors : work'[y].user \in {0} \cup People
    BY <1>4 DEF KisiWork
  <2>2. Role(a) \in [user : People, door : Accounts]
    BY <1>5 DEF Role
  <2>3. kisiRole' \subseteq [user : People, door : Accounts]
    BY <1>0, <2>2 DEF PeopleShape, KisiTypeOK
  <2> QED BY <1>0, <1>4, <2>1, <2>3 DEF PeopleShape, KisiTypeOK, CaseStays
<1>8. Only(a) /\ MyTurn(a) /\ UsersKeep
  BY <1>0, <1>4 DEF Only, MyTurn, UsersKeep
<1>9. DoorsKeep(a)
  BY <1>0 DEF DoorsKeep, TurnsFit, KeepsDoor, HasDoor
<1>10. MarkersFit' /\ OnlyOursDeleted' /\ (peopleLeft.apart => BossesAreKept')
  BY <1>0 DEF MarkersFit, OnlyOursDeleted, BossesAreKept, TurnsFit
<1>11. LabelledOrTold'
  <2>1. \A y \in Accounts : work[y].step \in {"label", "patch", "confirm"} => work'[y] = work[y]
    BY <1>0, <1>4, PeopleFacts
  <2> QED BY <1>0, <2>1 DEF LabelledOrTold, CaseStays
<1>12. KeepsDoor(a)' /\ GuardsHold(a)' /\ ReadFits(a)'
  BY <1>0, <1>2, <1>4, <1>5 DEF KeepsDoor, GuardsHold, ReadFits, Guarded, HasDoor, Role
<1> QED BY <1>0, <1>6, <1>7, <1>8, <1>9, <1>10, <1>11, <1>12, StepKeeps

LEMMA NobodyIs == ~Nobody.there /\ Nobody.by = "none" /\ Nobody.mail = "" /\ ~Nobody.extra
BY DEF Nobody

LEMMA CreatesKeeps ==
  ASSUME PeopleInv, NEW a \in Accounts, Creates(a)
  PROVE  PeopleInv'
<1>0. /\ a \in Actors /\ a # Script /\ AccountFits(a) /\ account \in [Accounts -> AccountRec] /\ CaseStays
      /\ work[a].step = "create" /\ work[a] \in KisiWork /\ work \in [Actors -> KisiWork] /\ PeopleShape /\ TurnsFit
      /\ Marker(a) = GymOf(a) /\ UNCHANGED <<kisiRole, account, owed, told, refused, killed>>
      /\ MarkersFit /\ OnlyOursDeleted /\ LabelledOrTold /\ \A b \in Accounts : AccountFits(b)
  BY OfAccount, TroubleStays, NoTroubleStays DEF Creates, PeopleInv
<1> DEFINE n == born + 1  u == NewUser(GymOf(a))
<1>1. n \in People /\ n > Older /\ born' = n /\ n \in Older .. MaxPeople /\ kisiUser[n] = Nobody /\ n # 0 /\ born \in Nat /\ n \in Nat /\ GymOf(a) \in Gyms
  <2>1. born \in Older .. MaxPeople /\ born < MaxPeople /\ MaxPeople \in Nat
    BY <1>0, PeopleFacts DEF Creates, PeopleShape
  <2> QED BY <2>1, <1>0, OfAccount, PeopleFacts DEF Creates, People, PeopleShape
<1>2. /\ u.there /\ u.mail = "own" /\ u.notes = GymOf(a) /\ u.by = GymOf(a) /\ u.meta \in {"none", GymOf(a)} /\ ~u.boss /\ ~u.extra
      /\ (peopleLeft.way = "kept" => u.meta = GymOf(a))
      /\ u \in [there : BOOLEAN, mail : {"", "own", "other"}, meta : Owner, notes : Owner,
                extra : BOOLEAN, boss : BOOLEAN, by : Owner \cup {"staff"}]
  BY <1>1 DEF NewUser, Nobody, Owner
<1>3. kisiUser' = [kisiUser EXCEPT ![n] = u]
  BY <1>1 DEF Creates
<1> HIDE DEF u
<1>4. PICK w \in KisiWork : /\ work' = [work EXCEPT ![a] = w]
                            /\ \/ w.step = (IF peopleLeft.way = "kept" THEN "save" ELSE "label") /\ w.user = n
                               \/ w.step = "resolve" /\ "late" \in peopleLeft.kinds
  <2>1. CASE work' = [work EXCEPT ![a].step = IF peopleLeft.way = "kept" THEN "save" ELSE "label", ![a].user = born']
    <3> DEFINE w == [work[a] EXCEPT !.step = IF peopleLeft.way = "kept" THEN "save" ELSE "label", !.user = n]
    <3>1. w \in KisiWork /\ w.user = n /\ w.step = IF peopleLeft.way = "kept" THEN "save" ELSE "label"
      BY <1>0, <1>1 DEF KisiWork, InGrant
    <3>2. work' = [work EXCEPT ![a] = w]
      BY <2>1, <1>0, <1>1
    <3> HIDE DEF w
    <3> QED BY <3>1, <3>2
  <2>2. CASE Fault("late") /\ Step(a, "resolve")
    <3> DEFINE w == [work[a] EXCEPT !.step = "resolve"]
    <3>1. w \in KisiWork /\ w.step = "resolve"
      BY <1>0 DEF KisiWork, InGrant
    <3>2. work' = [work EXCEPT ![a] = w] /\ "late" \in peopleLeft.kinds
      BY <2>2, <1>0 DEF Step, Fault
    <3> HIDE DEF w
    <3> QED BY <3>1, <3>2
  <2> QED BY <2>1, <2>2 DEF Creates
<1>5. work' \in [Actors -> KisiWork] /\ work'[a] = w /\ \A y \in Actors : y # a => work'[y] = work[y]
  BY <1>0, <1>4, TakesUp
<1>6. kisiUser'[n] = u /\ \A i \in People : i # n => kisiUser'[i] = kisiUser[i]
  BY <1>0, <1>1, <1>3 DEF PeopleShape, KisiTypeOK
<1>7. Only(a) /\ MyTurn(a) /\ UsersKeep
  <2>1. Only(a) /\ MyTurn(a)
    BY <1>0, <1>5 DEF Only, MyTurn
  <2>2. kisiUser[n].by = "none" /\ kisiUser[n].mail = ""
    BY <1>1, NobodyIs
  <2>3. UsersKeep
    BY <1>6, <2>2 DEF UsersKeep
  <2> QED BY <2>1, <2>3
<1>8. AccountFits(a)' /\ LabelFits(a)'
  <2>1. account[a].st = "in_flight" /\ account[a].user \in {0} \cup People
    BY <1>0 DEF AccountFits, AccountRec, InGrant
  <2>2. account[a].user # 0 => kisiUser'[account[a].user].mail = "own"
    BY <2>1, <1>0, <1>7 DEF AccountFits, UsersKeep
  <2>3. w.step \in {"save", "label", "resolve"} /\ (w.step # "resolve" => w.user = n /\ kisiUser'[w.user] = u)
    BY <1>4, <1>6
  <2>4. AccountFits(a)'
    BY <1>0, <1>1, <1>2, <1>5, <2>1, <2>2, <2>3 DEF AccountFits, InGrant, Labelling, Named, Finalizing, Guarded
  <2>5. LabelFits(a)'
    BY <1>0, <1>1, <1>2, <1>5, <2>3, PeopleFacts DEF LabelFits, Labelling, Marker, GymOf, CaseStays
  <2> QED BY <2>4, <2>5
<1>9. PeopleShape'
  <2>1. \A y \in Actors : work'[y].user \in {0} \cup People
    BY <1>5 DEF KisiWork
  <2>2. kisiUser' \in [People -> [there : BOOLEAN, mail : {"", "own", "other"}, meta : Owner, notes : Owner,
                                  extra : BOOLEAN, boss : BOOLEAN, by : Owner \cup {"staff"}]]
    BY <1>0, <1>2, <1>3 DEF PeopleShape, KisiTypeOK
  <2>3. \A i \in People : i > born' => kisiUser'[i] = Nobody
    BY <1>0, <1>1, <1>6 DEF PeopleShape, People
  <2>4. \A i \in People : kisiUser'[i].there => i \in 1 .. born'
    <3>1. Nobody.there = FALSE
      BY DEF Nobody
    <3>2. \A i \in People : ~(i > born') => i \in 1 .. born'
      BY <1>1 DEF People
    <3> QED BY <2>3, <3>1, <3>2
  <2> QED BY <1>0, <1>1, <1>5, <2>1, <2>2, <2>3, <2>4 DEF PeopleShape, KisiTypeOK, CaseStays
<1>10. DoorsKeep(a)
  <2>1. ~kisiUser[n].there
    BY <1>1, NobodyIs
  <2>2. ASSUME NEW b \in Accounts, account[b].st = "active", HasDoor(b, account[b].user) PROVE HasDoor(b, account[b].user)'
    <3>1. account[b].user \in People /\ account[b].user # n
      BY <2>1, <2>2, <1>0 DEF HasDoor, AccountFits, AccountRec
    <3> QED BY <2>2, <3>1, <1>0, <1>6 DEF HasDoor
  <2> QED BY <2>2, <1>0 DEF DoorsKeep, TurnsFit, KeepsDoor
<1>11. MarkersFit' /\ OnlyOursDeleted' /\ (peopleLeft.apart => BossesAreKept')
  <2>1. {u.meta, u.notes} \subseteq {"none", u.by}
    BY <1>2
  <2>2. MarkersFit'
    BY <1>0, <1>6, <2>1 DEF MarkersFit
  <2>3. OnlyOursDeleted' /\ (peopleLeft.apart => BossesAreKept')
    BY <1>0 DEF OnlyOursDeleted, BossesAreKept, TurnsFit
  <2> QED BY <2>2, <2>3
<1>12. LabelledOrTold'
  <2> SUFFICES ASSUME "late" \notin peopleLeft.kinds, NEW i \in People, kisiUser'[i].there, kisiUser'[i].by \in Gyms, i > Older
               PROVE  \/ kisiUser'[i].meta = kisiUser'[i].by \/ i \in told
                      \/ \E y \in Accounts : work'[y].user = i /\ work'[y].step \in {"label", "patch", "confirm"}
    BY <1>0 DEF LabelledOrTold, CaseStays
  <2>1. CASE i = n
    <3>1. CASE peopleLeft.way = "kept"
      BY <2>1, <3>1, <1>2, <1>6
    <3>2. CASE peopleLeft.way # "kept"
      BY <2>1, <3>2, <1>4, <1>5
    <3> QED BY <3>1, <3>2
  <2>2. CASE i # n
    <3>1. \A y \in Accounts : work[y].step \in {"label", "patch", "confirm"} => work'[y] = work[y]
      BY <1>0, <1>5, PeopleFacts
    <3> QED BY <2>2, <3>1, <1>0, <1>6 DEF LabelledOrTold
  <2> QED BY <2>1, <2>2
<1>13. KeepsDoor(a)' /\ GuardsHold(a)' /\ ReadFits(a)'
  <2>1. account[a].st = "in_flight"
    BY <1>0 DEF AccountFits, InGrant
  <2>2. w.step \in {"save", "label", "resolve"}
    BY <1>4
  <2> QED BY <1>0, <1>5, <2>1, <2>2 DEF KeepsDoor, GuardsHold, ReadFits, Guarded
<1> QED BY <1>0, <1>7, <1>8, <1>9, <1>10, <1>11, <1>12, <1>13, StepKeeps

LEMMA OfActor ==
  ASSUME PeopleInv, NEW x \in Actors
  PROVE  /\ work[x] \in KisiWork /\ work \in [Actors -> KisiWork] /\ LabelFits(x) /\ peopleLeft \in PeopleScenario
         /\ account \in [Accounts -> AccountRec] /\ told \subseteq People /\ refused \subseteq Accounts
         /\ owed \in [Accounts -> Seq({"grant", "revoke"})] /\ (x \in Accounts => AccountFits(x)) /\ x \in Accounts \cup {Script}
         /\ (work[x].step \in Labelling => work[x].user \in People)
<1>1. /\ work[x] \in KisiWork /\ work \in [Actors -> KisiWork] /\ LabelFits(x) /\ peopleLeft \in PeopleScenario
      /\ account \in [Accounts -> AccountRec] /\ told \subseteq People /\ refused \subseteq Accounts
      /\ owed \in [Accounts -> Seq({"grant", "revoke"})] /\ (x \in Accounts => AccountFits(x)) /\ x \in Accounts \cup {Script}
  BY PeopleFacts DEF PeopleInv, PeopleShape, KisiTypeOK, AccountRec
<1>2. work[x].step \in Labelling => work[x].user \in People
  BY <1>1 DEF LabelFits, KisiWork
<1> QED BY <1>1, <1>2

LEMMA LabelDone ==
  ASSUME PeopleInv, CaseStays, NEW x \in Actors, work[x].step \in Labelling, work' = [work EXCEPT ![x] = AfterLabel(x)],
         LabelEnds(x), told \subseteq told', told' \subseteq People, UNCHANGED <<Kisi, account, owed, refused, killed>>
  PROVE  PeopleInv'
<1>0. /\ work[x] \in KisiWork /\ work \in [Actors -> KisiWork] /\ (x \in Accounts => AccountFits(x)) /\ x \in Accounts \cup {Script}
      /\ work[x].user \in People /\ account \in [Accounts -> AccountRec] /\ refused \subseteq Accounts
      /\ owed \in [Accounts -> Seq({"grant", "revoke"})]
  BY OfActor
<1>1. CASE x = Script
  <2>1. work' = [work EXCEPT ![x] = AtRest] /\ x \notin Accounts /\ AtRest.step = "idle"
    BY <1>1, PeopleFacts DEF AfterLabel, AtRest
  <2>2. work' \in [Actors -> KisiWork] /\ work'[x] = AtRest /\ \A y \in Actors : y # x => work'[y] = work[y]
    BY <2>1, TakesUp, RestIsWork
  <2>3. LabelFits(x)' /\ ReadFits(x)' /\ MyTurn(x)
    BY <2>1, <2>2 DEF LabelFits, ReadFits, MyTurn, Labelling
  <2> QED BY <1>0, <2>1, <2>2, <2>3, QuietKeeps DEF Kisi, AccountRec
<1>2. CASE x # Script
  <2> DEFINE w == [work[x] EXCEPT !.step = "save", !.kept = FALSE]
  <2>1. w \in KisiWork /\ w.step = "save" /\ w.user = work[x].user /\ work' = [work EXCEPT ![x] = w] /\ x \in Accounts
    BY <1>0, <1>2 DEF KisiWork, AfterLabel, InGrant
  <2> HIDE DEF w
  <2>2. kisiUser[work[x].user].mail = "own" /\ work[x].step \in InGrant
    BY <1>0, <2>1 DEF AccountFits, Named, Labelling, InGrant
  <2> QED BY <1>0, <2>1, <2>2, GrantNames
<1> QED BY <1>1, <1>2

LEMMA LabelReadsKeep ==
  ASSUME PeopleInv, NEW x \in Actors, ReadsLabel(x) \/ Confirms(x) \/ LabelFails(x)
  PROVE  PeopleInv'
<1>0. /\ work[x] \in KisiWork /\ work \in [Actors -> KisiWork] /\ LabelFits(x) /\ peopleLeft \in PeopleScenario
      /\ account \in [Accounts -> AccountRec] /\ told \subseteq People /\ refused \subseteq Accounts
      /\ owed \in [Accounts -> Seq({"grant", "revoke"})] /\ (x \in Accounts => AccountFits(x)) /\ x \in Accounts \cup {Script}
  BY OfActor
<1> DEFINE i == work[x].user
<1>1. work[x].step \in Labelling /\ i \in People /\ kisiUser[i].by = Marker(x) /\ Marker(x) # "none"
  BY <1>0, OfActor DEF ReadsLabel, Confirms, LabelFails, Labelling, LabelFits
<1>2. Script \notin Accounts
  BY PeopleFacts
<1>3. CASE Confirms(x)
  <2>1. CaseStays /\ told \subseteq told' /\ told' \subseteq People
    BY <1>0, <1>1, <1>3, NoTroubleStays DEF Confirms
  <2>2. LabelEnds(x)
    BY <1>1, <1>2, <1>3 DEF LabelEnds, Confirms, Persists
  <2> QED BY <1>1, <1>3, <2>1, <2>2, LabelDone DEF Confirms
<1>4. CASE LabelFails(x)
  <2>1. CaseStays /\ told \subseteq told' /\ told' \subseteq People
    BY <1>0, <1>1, <1>4, TroubleStays DEF LabelFails
  <2>2. LabelEnds(x)
    BY <1>1, <1>2, <1>4 DEF LabelEnds, LabelFails
  <2> QED BY <1>1, <1>4, <2>1, <2>2, LabelDone DEF LabelFails
<1>5. CASE ReadsLabel(x)
  <2>0. CaseStays /\ UNCHANGED <<Kisi, account, owed, refused, killed>> /\ told \subseteq told' /\ told' \subseteq People
    BY <1>0, <1>1, <1>5, NoTroubleStays DEF ReadsLabel
  <2>1. CASE work' = [work EXCEPT ![x] = AfterLabel(x)] /\ (x = Script \/ i \in told')
    <3>1. LabelEnds(x)
      BY <1>2, <2>1 DEF LabelEnds
    <3> QED BY <1>1, <2>0, <2>1, <3>1, LabelDone
  <2>2. CASE work' = [work EXCEPT ![x] = AfterLabel(x)] /\ kisiUser[i].meta = Marker(x)
    <3>1. LabelEnds(x)
      BY <1>1, <2>2 DEF LabelEnds
    <3> QED BY <1>1, <2>0, <2>2, <3>1, LabelDone
  <2>3. CASE work' = [work EXCEPT ![x] = [@ EXCEPT !.step = "patch", !.kept = kisiUser[i].extra]]
    <3> DEFINE w == [work[x] EXCEPT !.step = "patch", !.kept = kisiUser[i].extra]
    <3>1. kisiUser[i].extra \in BOOLEAN
      BY <1>1 DEF PeopleInv, PeopleShape, KisiTypeOK
    <3>2. w \in KisiWork /\ w.step = "patch" /\ w.user = i /\ w.kept = kisiUser[i].extra /\ w.mark = work[x].mark
      BY <1>0, <3>1 DEF KisiWork, InGrant
    <3>3. work' = [work EXCEPT ![x] = w]
      BY <1>0, <2>3
    <3> HIDE DEF w
    <3>4. work' \in [Actors -> KisiWork] /\ work'[x] = w /\ \A y \in Actors : y # x => work'[y] = work[y]
      BY <1>0, <3>2, <3>3, TakesUp
    <3>5. LabelFits(x)'
      <4>1. Marker(x)' = Marker(x)
        BY <2>0, <3>2, <3>4 DEF Marker, GymOf, CaseStays
      <4>2. kisiUser'[i].by = Marker(x) /\ i # 0
        BY <1>1, <2>0, PeopleFacts DEF Kisi
      <4> QED BY <1>1, <3>2, <3>4, <4>1, <4>2 DEF LabelFits, Labelling
    <3>6. x \in Accounts => AccountFits(x)' /\ KeepsDoor(x)' /\ GuardsHold(x)'
      <4> SUFFICES ASSUME x \in Accounts PROVE AccountFits(x)' /\ KeepsDoor(x)' /\ GuardsHold(x)'
        OBVIOUS
      <4>1. account[x].st = "in_flight" /\ kisiUser[i].mail = "own" /\ i # 0
        BY <1>0, <1>1, PeopleFacts DEF AccountFits, InGrant, Labelling, Named
      <4>2. AccountFits(x)'
        BY <1>0, <2>0, <3>2, <3>4, <4>1 DEF AccountFits, InGrant, Finalizing, Guarded, Kisi
      <4> QED BY <2>0, <3>2, <3>4, <4>1, <4>2 DEF KeepsDoor, GuardsHold, Guarded
    <3>7. ReadFits(x)' /\ LabelEnds(x) /\ MyTurn(x)
      BY <1>1, <2>0, <3>2, <3>4 DEF ReadFits, LabelEnds, MyTurn, Labelling, Kisi
    <3> QED BY <1>0, <2>0, <3>4, <3>5, <3>6, <3>7, QuietKeeps DEF Kisi, AccountRec
  <2> QED BY <1>0, <1>5, <2>1, <2>2, <2>3 DEF ReadsLabel
<1> QED BY <1>3, <1>4, <1>5

LEMMA ScriptKeeps ==
  ASSUME PeopleInv, NEW i \in People, ScriptTakes(i)
  PROVE  PeopleInv'
<1> DEFINE x == Script  w == [AtRest EXCEPT !.step = "label", !.user = i, !.mark = kisiUser[i].notes]
<1>0. /\ x \in Actors /\ x \notin Accounts /\ work \in [Actors -> KisiWork] /\ peopleLeft \in PeopleScenario
      /\ account \in [Accounts -> AccountRec] /\ told \subseteq People /\ refused \subseteq Accounts
      /\ owed \in [Accounts -> Seq({"grant", "revoke"})] /\ UNCHANGED <<Kisi, account, owed, told, refused, killed>>
  BY OfActor, PeopleFacts DEF ScriptTakes
<1>1. CaseStays
  BY <1>0 DEF ScriptTakes, CaseStays, PeopleScenario
<1>2. kisiUser[i].notes \in Owner /\ kisiUser[i].notes = kisiUser[i].by /\ kisiUser[i].notes # "none" /\ i # 0
  BY PeopleFacts DEF PeopleInv, PeopleShape, KisiTypeOK, MarkersFit, ScriptTakes
<1>3. w \in KisiWork /\ w.step = "label" /\ w.user = i /\ w.mark = kisiUser[i].notes
  BY <1>2, RestIsWork DEF KisiWork, InGrant, AtRest
<1>4. work' = [work EXCEPT ![x] = w] /\ work[x] = AtRest
  BY DEF ScriptTakes
<1> HIDE DEF w
<1>5. work' \in [Actors -> KisiWork] /\ work'[x] = w /\ \A y \in Actors : y # x => work'[y] = work[y]
  BY <1>0, <1>3, <1>4, TakesUp
<1>6. LabelFits(x)' /\ ReadFits(x)' /\ LabelEnds(x)
  BY <1>0, <1>2, <1>3, <1>5 DEF LabelFits, ReadFits, LabelEnds, Labelling, Marker, Kisi
<1>7. MyTurn(x)
  BY <1>0 DEF ScriptTakes, MyTurn, AtRest
<1> QED BY <1>0, <1>1, <1>5, <1>6, <1>7, QuietKeeps DEF Kisi, AccountRec

LEMMA PatchesKeeps ==
  ASSUME PeopleInv, NEW x \in Actors, PatchesLabel(x)
  PROVE  PeopleInv' /\ (peopleLeft.apart => \A i \in People : kisiUser[i].extra => kisiUser'[i].extra)
<1>0. /\ work[x] \in KisiWork /\ work \in [Actors -> KisiWork] /\ LabelFits(x) /\ peopleLeft \in PeopleScenario
      /\ account \in [Accounts -> AccountRec] /\ (x \in Accounts => AccountFits(x)) /\ x \in Accounts \cup {Script}
      /\ work[x].step = "patch" /\ UNCHANGED <<kisiRole, born, account, Others>> /\ Script \notin Accounts
      /\ PeopleShape /\ TurnsFit /\ MarkersFit /\ OnlyOursDeleted /\ LabelledOrTold
  BY OfActor, PeopleFacts DEF PatchesLabel, PeopleInv
<1> DEFINE n == work[x].user
<1>1. n \in People /\ n # 0 /\ kisiUser[n].by = Marker(x) /\ Marker(x) # "none" /\ CaseStays
  BY <1>0, OfActor, PeopleFacts, NoTroubleStays DEF Labelling, LabelFits, Others
<1>2. Marker(x) \in Owner
  BY <1>0 DEF Marker, GymOf, PeopleScenario, KisiWork, Owner
<1> DEFINE UserRec == [there : BOOLEAN, mail : {"", "own", "other"}, meta : Owner, notes : Owner,
                       extra : BOOLEAN, boss : BOOLEAN, by : Owner \cup {"staff"}]
<1>4. kisiUser \in [People -> UserRec] /\ kisiUser[n] \in UserRec
  BY <1>0, <1>1 DEF PeopleShape, KisiTypeOK
<1> DEFINE v == [kisiUser[n] EXCEPT !.meta = Marker(x), !.extra = work[x].kept]
<1>3. /\ v \in UserRec /\ v.there = kisiUser[n].there /\ v.mail = kisiUser[n].mail /\ v.notes = kisiUser[n].notes
      /\ v.boss = kisiUser[n].boss /\ v.by = kisiUser[n].by /\ v.meta = Marker(x) /\ v.extra = work[x].kept
  BY <1>0, <1>2, <1>4 DEF KisiWork
<1>a. kisiUser' = kisiUser \/ (kisiUser' = [kisiUser EXCEPT ![n] = v] /\ kisiUser[n].there)
  BY <1>0, <1>1, <1>4 DEF PatchesLabel, Merged
<1> HIDE DEF v, UserRec
<1>5. PICK u \in UserRec : /\ u = kisiUser[n] \/ (u = v /\ kisiUser[n].there)
                           /\ kisiUser' = [kisiUser EXCEPT ![n] = u]
  <2>1. kisiUser = [kisiUser EXCEPT ![n] = kisiUser[n]]
    BY <1>1, <1>4
  <2> QED BY <1>3, <1>4, <1>a, <2>1
<1>6. kisiUser' \in [People -> UserRec] /\ kisiUser'[n] = u /\ \A i \in People : i # n => kisiUser'[i] = kisiUser[i]
  BY <1>1, <1>4, <1>5
<1>7. /\ \A i \in People : /\ kisiUser'[i].there = kisiUser[i].there /\ kisiUser'[i].mail = kisiUser[i].mail
                           /\ kisiUser'[i].notes = kisiUser[i].notes /\ kisiUser'[i].boss = kisiUser[i].boss
                           /\ kisiUser'[i].by = kisiUser[i].by
                           /\ kisiUser'[i].meta \in {kisiUser[i].meta, kisiUser[i].by}
  BY <1>1, <1>3, <1>5, <1>6
<1> DEFINE w == [work[x] EXCEPT !.step = "confirm", !.kept = FALSE]
<1>8. w \in KisiWork /\ w.step = "confirm" /\ w.user = n /\ w.mark = work[x].mark /\ work' = [work EXCEPT ![x] = w]
  BY <1>0 DEF KisiWork, InGrant, PatchesLabel
<1> HIDE DEF w
<1>9. work' \in [Actors -> KisiWork] /\ work'[x] = w /\ \A y \in Actors : y # x => work'[y] = work[y]
  BY <1>0, <1>8, TakesUp
<1>10. PeopleShape'
  <2>1. \A y \in Actors : work'[y].user \in {0} \cup People
    BY <1>9 DEF KisiWork
  <2>2. \A i \in People : i > born => kisiUser'[i] = Nobody
    <3>1. CASE kisiUser[n].there
      <4>1. ~(n > born)
        BY <1>0, <1>1, <3>1, NobodyIs DEF PeopleShape
      <4> QED BY <1>0, <1>6, <4>1 DEF PeopleShape
    <3>2. CASE ~kisiUser[n].there
      BY <1>0, <1>5, <1>6, <3>2 DEF PeopleShape
    <3> QED BY <3>1, <3>2
  <2> QED BY <1>0, <1>1, <1>6, <1>7, <1>9, <2>1, <2>2 DEF PeopleShape, KisiTypeOK, CaseStays, Others, UserRec
<1>11. Only(x) /\ MyTurn(x) /\ UsersKeep
  BY <1>0, <1>7, <1>9 DEF Only, MyTurn, UsersKeep
<1>12. DoorsKeep(x)
  <2>1. \A b \in Accounts : account[b].st = "active" => account[b].user \in People
    BY <1>0 DEF PeopleInv, AccountFits, AccountRec
  <2> QED BY <1>0, <1>7, <2>1 DEF DoorsKeep, TurnsFit, KeepsDoor, HasDoor
<1>13. MarkersFit' /\ OnlyOursDeleted' /\ (peopleLeft.apart => BossesAreKept')
  BY <1>0, <1>7 DEF MarkersFit, OnlyOursDeleted, BossesAreKept, TurnsFit, Others
<1>14. LabelledOrTold'
  <2> SUFFICES ASSUME {"late"} \cap peopleLeft.kinds = {}, NEW i \in People, kisiUser[i].there, kisiUser[i].by \in Gyms,
                      i > Older
               PROVE  \/ kisiUser'[i].meta = kisiUser[i].by \/ i \in told
                      \/ \E y \in Accounts : work'[y].user = i /\ work'[y].step \in {"label", "patch", "confirm"}
    BY <1>0, <1>7 DEF LabelledOrTold, Others
  <2>1. CASE kisiUser[i].meta = kisiUser[i].by \/ i \in told
    BY <1>7, <2>1
  <2>2. CASE \E y \in Accounts : work[y].user = i /\ work[y].step \in {"label", "patch", "confirm"}
    <3>1. PICK y \in Accounts : work[y].user = i /\ work[y].step \in {"label", "patch", "confirm"}
      BY <2>2
    <3>2. work'[y].user = i /\ work'[y].step \in {"label", "patch", "confirm"}
      BY <1>8, <1>9, <3>1, PeopleFacts
    <3> QED BY <3>2
  <2> QED BY <1>0, <2>1, <2>2 DEF LabelledOrTold
<1>15. LabelFits(x)'
  <2>1. Marker(x)' = Marker(x)
    BY <1>0, <1>8, <1>9 DEF Marker, GymOf, Others
  <2> QED BY <1>1, <1>7, <1>8, <1>9, <2>1 DEF LabelFits, Labelling
<1>16. x \in Accounts => AccountFits(x)' /\ KeepsDoor(x)' /\ GuardsHold(x)'
  <2> SUFFICES ASSUME x \in Accounts PROVE AccountFits(x)' /\ KeepsDoor(x)' /\ GuardsHold(x)'
    OBVIOUS
  <2>1. account[x].st = "in_flight" /\ kisiUser[n].mail = "own" /\ account[x].user \in {0} \cup People
    BY <1>0, <1>1 DEF AccountFits, InGrant, Labelling, Named, AccountRec
  <2>2. kisiUser'[n].mail = "own" /\ (account[x].user # 0 => kisiUser'[account[x].user].mail = "own")
    BY <1>0, <1>1, <1>7, <2>1 DEF AccountFits
  <2>3. AccountFits(x)'
    BY <1>0, <1>1, <1>8, <1>9, <2>1, <2>2 DEF AccountFits, InGrant, Finalizing, Guarded
  <2> QED BY <1>0, <1>8, <1>9, <2>1, <2>3 DEF KeepsDoor, GuardsHold, Guarded
<1>17. ReadFits(x)'
  BY <1>8, <1>9 DEF ReadFits
<1>18. peopleLeft.apart => \A i \in People : kisiUser[i].extra => kisiUser'[i].extra
  BY <1>0, <1>1, <1>3, <1>5, <1>6 DEF TurnsFit, ReadFits
<1> QED BY <1>0, <1>1, <1>10, <1>11, <1>12, <1>13, <1>14, <1>15, <1>16, <1>17, <1>18, StepKeeps

LEMMA RoleGoneKeeps ==
  ASSUME PeopleInv, NEW a \in Accounts, TakesRole(a)
  PROVE  PeopleInv'
<1>0. /\ a \in Actors /\ a # Script /\ AccountFits(a) /\ account \in [Accounts -> AccountRec] /\ CaseStays
      /\ work[a].step = "take" /\ work[a] \in KisiWork /\ work \in [Actors -> KisiWork] /\ PeopleShape /\ TurnsFit
      /\ MarkersFit /\ OnlyOursDeleted /\ LabelledOrTold /\ UNCHANGED <<kisiUser, born, Others>>
  BY OfAccount, NoTroubleStays DEF TakesRole, PeopleInv, Others
<1> DEFINE w == [work[a] EXCEPT !.step = "sharers"]  c == [account[a] EXCEPT !.role = FALSE, !.st = "inactive"]
<1>1. /\ w \in KisiWork /\ w.step = "sharers" /\ w.user = work[a].user /\ work' = [work EXCEPT ![a] = w]
      /\ c \in AccountRec /\ c.st = "inactive" /\ c.user = account[a].user /\ account' = [account EXCEPT ![a] = c]
  BY <1>0 DEF TakesRole, Step, KisiWork, Finalizing, AccountRec
<1> HIDE DEF w, c
<1>2. work' \in [Actors -> KisiWork] /\ work'[a] = w /\ \A y \in Actors : y # a => work'[y] = work[y]
  BY <1>0, <1>1, TakesUp
<1>3. account'[a] = c /\ account' \in [Accounts -> AccountRec] /\ \A b \in Accounts : b # a => account'[b] = account[b]
  BY <1>0, <1>1
<1>4. kisiRole' = kisiRole \ {Role(a)}
  BY DEF TakesRole, Taken
<1>5. PeopleShape'
  <2>1. \A y \in Actors : work'[y].user \in {0} \cup People
    BY <1>2 DEF KisiWork
  <2> QED BY <1>0, <1>2, <1>3, <1>4, <2>1 DEF PeopleShape, KisiTypeOK, CaseStays, Others, AccountRec
<1>6. Only(a) /\ MyTurn(a) /\ UsersKeep
  BY <1>0, <1>2, <1>3 DEF Only, MyTurn, UsersKeep
<1>7. DoorsKeep(a)
  <2>1. ASSUME NEW b \in Accounts, b # a, account[b].st = "active", HasDoor(b, account[b].user)
        PROVE  HasDoor(b, account[b].user)'
    BY <1>0, <1>3, <1>4, <2>1 DEF HasDoor, Role
  <2> QED BY <1>0, <2>1 DEF DoorsKeep, TurnsFit, KeepsDoor
<1>8. MarkersFit' /\ OnlyOursDeleted' /\ (peopleLeft.apart => BossesAreKept')
  BY <1>0 DEF MarkersFit, OnlyOursDeleted, BossesAreKept, TurnsFit, Others
<1>9. LabelledOrTold'
  <2>1. \A y \in Accounts : work[y].step \in {"label", "patch", "confirm"} => work'[y] = work[y]
    BY <1>0, <1>2, PeopleFacts
  <2> QED BY <1>0, <2>1 DEF LabelledOrTold, Others
<1>10. AccountFits(a)' /\ LabelFits(a)'
  BY <1>0, <1>1, <1>2, <1>3 DEF AccountFits, LabelFits, InGrant, Labelling, Named, Finalizing, Guarded
<1>11. KeepsDoor(a)' /\ GuardsHold(a)' /\ ReadFits(a)'
  BY <1>1, <1>2, <1>3 DEF KeepsDoor, GuardsHold, ReadFits, Guarded
<1> QED BY <1>0, <1>5, <1>6, <1>7, <1>8, <1>9, <1>10, <1>11, StepKeeps

LEMMA RefuseKeeps ==
  ASSUME PeopleInv, NEW a \in Accounts, work[a].step \in Finalizing, Refuse(a), CaseStays,
         UNCHANGED <<Kisi, account, owed, told, killed>>
  PROVE  PeopleInv'
<1>0. AccountFits(a) /\ account[a] \in AccountRec /\ account \in [Accounts -> AccountRec] /\ refused \subseteq Accounts
  BY OfAccount
<1>1. account' = [account EXCEPT ![a] = account[a]] /\ account[a].st = "inactive"
  BY <1>0 DEF AccountFits
<1>2. account[a].user # 0 => kisiUser[account[a].user].mail = "own"
  BY <1>0 DEF AccountFits
<1>3. account[a].user # 0
  BY <1>0, <1>1 DEF AccountFits
<1>4. work[a].step \notin Labelling \cup {"idle"}
  BY DEF Finalizing, Guarded, Labelling
<1> QED BY <1>0, <1>1, <1>2, <1>3, <1>4, JobRests DEF Refuse

LEMMA GuardsKeep ==
  ASSUME PeopleInv, NEW a \in Accounts,
         ChecksSharers(a) \/ ChecksOthers(a) \/ ChecksMarker(a) \/ ChecksRoles(a) \/ FinalizeFails(a)
  PROVE  PeopleInv'
<1>0. /\ a \in Actors /\ AccountFits(a) /\ work[a] \in KisiWork /\ work \in [Actors -> KisiWork] /\ GymOf(a) \in Gyms
      /\ peopleLeft \in PeopleScenario /\ TurnsFit /\ MarkersFit
  BY OfAccount DEF PeopleInv
<1>a. ASSUME NEW s \in Finalizing, Step(a, s), CaseStays, work[a].step \in Finalizing,
             s \in {"bosses", "delete"} => kisiUser[work[a].user].by = GymOf(a),
             peopleLeft.apart /\ s \in Guarded => Sharers(a) = {}, s = "delete" => ~Elevated(work[a].user),
             UNCHANGED <<Kisi, account, owed, told, refused, killed>>
      PROVE  PeopleInv'
  <2> DEFINE w == [work[a] EXCEPT !.step = s]
  <2>1. w \in KisiWork /\ w.step = s /\ w.user = work[a].user /\ work' = [work EXCEPT ![a] = w]
    BY <1>0, <1>a DEF KisiWork, Step
  <2> HIDE DEF w
  <2> QED BY <1>a, <2>1, RevokeGoes
<1>b. work[a].step \in Guarded => work[a].step \in Finalizing
  BY DEF Finalizing
<1>c. peopleLeft.apart /\ work[a].step \in Guarded => Sharers(a) = {}
  BY <1>0 DEF TurnsFit, GuardsHold
<1>d. work[a].step \in Finalizing => work[a].user \in People
  BY <1>0 DEF AccountFits, KisiWork
<1>1. CASE ChecksSharers(a)
  <2>1. CaseStays /\ work[a].step \in Finalizing /\ UNCHANGED <<Kisi, account, owed, told, killed>>
    BY <1>0, <1>1, NoTroubleStays DEF ChecksSharers, Finalizing
  <2>2. CASE Refuse(a)
    BY <2>1, <2>2, RefuseKeeps
  <2>3. CASE Sharers(a) = {} /\ Step(a, "others") /\ UNCHANGED refused
    BY <2>1, <2>3, <1>a DEF Finalizing, Guarded
  <2> QED BY <1>1, <2>2, <2>3 DEF ChecksSharers
<1>2. CASE ChecksOthers(a)
  <2>1. CaseStays /\ work[a].step \in Guarded /\ UNCHANGED <<Kisi, account, owed, told, killed>>
    BY <1>0, <1>2, NoTroubleStays DEF ChecksOthers, Guarded
  <2>2. CASE Refuse(a)
    BY <1>b, <2>1, <2>2, RefuseKeeps
  <2>3. CASE Step(a, "mine") /\ UNCHANGED refused
    BY <1>b, <1>c, <2>1, <2>3, <1>a DEF Finalizing, Guarded
  <2> QED BY <1>2, <2>2, <2>3 DEF ChecksOthers
<1>3. CASE ChecksMarker(a)
  <2>1. CaseStays /\ work[a].step \in Guarded /\ UNCHANGED <<Kisi, account, owed, told, killed>>
    BY <1>0, <1>3, NoTroubleStays DEF ChecksMarker, Guarded
  <2>2. CASE Refuse(a)
    BY <1>b, <2>1, <2>2, RefuseKeeps
  <2>3. CASE Step(a, "purge") /\ UNCHANGED refused
    BY <1>b, <2>1, <2>3, <1>a DEF Finalizing, Guarded
  <2>4. CASE Owns(GymOf(a), kisiUser[work[a].user]) /\ Step(a, "bosses") /\ UNCHANGED refused
    <3>1. kisiUser[work[a].user].by = GymOf(a)
      BY <1>0, <1>b, <1>d, <2>1, <2>4, PeopleFacts DEF Owns, MarkersFit
    <3> QED BY <1>b, <1>c, <2>1, <2>4, <3>1, <1>a DEF Finalizing, Guarded
  <2> QED BY <1>3, <2>2, <2>3, <2>4 DEF ChecksMarker
<1>4. CASE ChecksRoles(a)
  <2>1. CaseStays /\ work[a].step = "bosses" /\ work[a].step \in Guarded /\ UNCHANGED <<Kisi, account, owed, told, killed>>
    BY <1>0, <1>4, NoTroubleStays DEF ChecksRoles, Guarded
  <2>2. CASE Refuse(a)
    BY <1>b, <2>1, <2>2, RefuseKeeps
  <2>3. CASE ~Elevated(work[a].user) /\ Step(a, "delete") /\ UNCHANGED refused
    <3>1. kisiUser[work[a].user].by = GymOf(a)
      BY <1>0, <2>1 DEF AccountFits
    <3> QED BY <1>b, <1>c, <2>1, <2>3, <3>1, <1>a DEF Finalizing, Guarded
  <2> QED BY <1>4, <2>2, <2>3 DEF ChecksRoles
<1>5. CASE FinalizeFails(a)
  <2>1. CaseStays /\ work[a].step \in Finalizing
    BY <1>0, <1>5, TroubleStays DEF FinalizeFails, Finalizing, Guarded
  <2> QED BY <1>5, <2>1, <1>a DEF FinalizeFails, Finalizing, Guarded
<1> QED BY <1>1, <1>2, <1>3, <1>4, <1>5

LEMMA PurgesKeeps ==
  ASSUME PeopleInv, NEW a \in Accounts, Purges(a)
  PROVE  PeopleInv'
<1>0. AccountFits(a) /\ account[a] \in AccountRec /\ account \in [Accounts -> AccountRec] /\ refused \subseteq Accounts
      /\ CaseStays
  BY OfAccount, NoTroubleStays DEF Purges, Others
<1> DEFINE c == [account[a] EXCEPT !.st = "deleted"]
<1>1. c \in AccountRec /\ c.st = "deleted" /\ c.user = account[a].user /\ account' = [account EXCEPT ![a] = c]
  BY <1>0 DEF Purges, AccountRec
<1> HIDE DEF c
<1>2. c.user # 0 => kisiUser[c.user].mail = "own"
  BY <1>0, <1>1 DEF AccountFits
<1> QED BY <1>0, <1>1, <1>2, JobRests DEF Purges, Labelling, Others

LEMMA DeletesKeeps ==
  ASSUME PeopleInv, NEW a \in Accounts, Deletes(a)
  PROVE  PeopleInv'
<1>0. /\ a \in Actors /\ a # Script /\ AccountFits(a) /\ account \in [Accounts -> AccountRec] /\ CaseStays
      /\ work[a].step = "delete" /\ work[a] \in KisiWork /\ work \in [Actors -> KisiWork] /\ PeopleShape /\ TurnsFit
      /\ MarkersFit /\ OnlyOursDeleted /\ LabelledOrTold /\ UNCHANGED <<born, account, owed, told, refused>>
  BY OfAccount, TroubleStays, NoTroubleStays DEF Deletes, PeopleInv
<1> DEFINE i == work[a].user
<1>1. i \in People /\ i # 0 /\ account[a].st = "inactive" /\ kisiUser[i].by = GymOf(a)
  BY <1>0 DEF AccountFits, KisiWork, Finalizing, Guarded
<1>2. PICK s \in {"purge", "sharers"} : Step(a, s)
  BY DEF Deletes
<1> DEFINE w == [work[a] EXCEPT !.step = s]
<1>3. w \in KisiWork /\ w.step = s /\ w.user = i /\ work' = [work EXCEPT ![a] = w]
  BY <1>0, <1>2 DEF KisiWork, Step, Finalizing
<1> HIDE DEF w
<1>4. s \in Finalizing /\ s \notin Guarded /\ work[a].step \in Finalizing /\ work[a].step \in Guarded /\ s \notin {"bosses", "delete"}
  BY <1>0 DEF Finalizing, Guarded
<1>5. CASE ~kisiUser[i].there
  BY <1>0, <1>3, <1>4, <1>5, RevokeGoes DEF Deletes, Kisi
<1>6. CASE kisiUser[i].there
  <2>1. /\ kisiUser' = [kisiUser EXCEPT ![i].there = FALSE] /\ kisiRole' = {r \in kisiRole : r.user # i}
        /\ killed' = killed \cup {[by |-> GymOf(a), of |-> kisiUser[i].by, boss |-> kisiUser[i].boss]}
    BY <1>6 DEF Deletes
  <2>2. work' \in [Actors -> KisiWork] /\ work'[a] = w /\ \A y \in Actors : y # a => work'[y] = work[y]
    BY <1>0, <1>3, TakesUp
  <2> DEFINE UserRec == [there : BOOLEAN, mail : {"", "own", "other"}, meta : Owner, notes : Owner,
                         extra : BOOLEAN, boss : BOOLEAN, by : Owner \cup {"staff"}]
  <2>3. kisiUser \in [People -> UserRec] /\ kisiUser[i] \in UserRec
    BY <1>0, <1>1 DEF PeopleShape, KisiTypeOK
  <2> DEFINE u == [kisiUser[i] EXCEPT !.there = FALSE]
  <2>4. /\ u \in UserRec /\ ~u.there /\ u.mail = kisiUser[i].mail /\ u.meta = kisiUser[i].meta
        /\ u.notes = kisiUser[i].notes /\ u.by = kisiUser[i].by /\ kisiUser' = [kisiUser EXCEPT ![i] = u]
    BY <2>1, <2>3
  <2> HIDE DEF u, UserRec
  <2>5. kisiUser' \in [People -> UserRec] /\ kisiUser'[i] = u /\ \A j \in People : j # i => kisiUser'[j] = kisiUser[j]
    BY <1>1, <2>3, <2>4
  <2>6. PeopleShape'
    <3>1. \A y \in Actors : work'[y].user \in {0} \cup People
      BY <2>2 DEF KisiWork
    <3>2. ~(i > born)
      BY <1>0, <1>1, <1>6, NobodyIs DEF PeopleShape
    <3>3. \A j \in People : j > born => kisiUser'[j] = Nobody
      BY <1>0, <2>5, <3>2 DEF PeopleShape
    <3>4. \A j \in People : kisiUser'[j].there => j \in 1 .. born
      BY <1>0, <2>4, <2>5 DEF PeopleShape, KisiTypeOK
    <3> QED BY <1>0, <2>1, <2>2, <2>5, <3>1, <3>3, <3>4 DEF PeopleShape, KisiTypeOK, CaseStays, UserRec
  <2>7. Only(a) /\ MyTurn(a)
    BY <1>0, <2>2 DEF Only, MyTurn
  <2>8. UsersKeep
    BY <2>4, <2>5 DEF UsersKeep
  <2>9. DoorsKeep(a)
    <3>1. ASSUME peopleLeft.apart, NEW b \in Accounts, b # a, account[b].st = "active", HasDoor(b, account[b].user)
          PROVE  HasDoor(b, account[b].user)'
      <4>1. Sharers(a) = {}
        BY <1>0, <1>4, <3>1 DEF TurnsFit, GuardsHold
      <4>2. account[b].user # i
        BY <3>1, <4>1 DEF Sharers
      <4>3. account[b].user \in People
        BY <1>0, <3>1 DEF PeopleInv, AccountFits, AccountRec
      <4> QED BY <1>0, <2>1, <2>5, <3>1, <4>2, <4>3 DEF HasDoor
    <3> QED BY <1>0, <3>1 DEF DoorsKeep, TurnsFit, KeepsDoor
  <2>10. MarkersFit'
    BY <1>0, <2>4, <2>5 DEF MarkersFit
  <2>11. OnlyOursDeleted'
    BY <1>0, <1>1, <2>1 DEF OnlyOursDeleted
  <2>12. peopleLeft.apart => BossesAreKept'
    BY <1>0, <1>6, <2>1 DEF TurnsFit, GuardsHold, BossesAreKept
  <2>13. LabelledOrTold'
    <3>1. \A y \in Accounts : work[y].step \in {"label", "patch", "confirm"} => work'[y] = work[y]
      BY <1>0, <2>2, PeopleFacts
    <3>2. \A j \in People : kisiUser'[j].there => kisiUser'[j] = kisiUser[j]
      BY <2>4, <2>5
    <3> QED BY <1>0, <3>1, <3>2 DEF LabelledOrTold, CaseStays
  <2>14. AccountFits(a)' /\ LabelFits(a)'
    <3>1. account[a].user \in {0} \cup People
      BY <1>0 DEF AccountRec
    <3>2. account[a].user # 0 => kisiUser'[account[a].user].mail = "own"
      BY <1>0, <2>4, <2>5, <3>1 DEF AccountFits
    <3>3. account[a].user # 0
      BY <1>0, <1>1 DEF AccountFits
    <3> QED BY <1>0, <1>1, <1>3, <2>2, <3>2, <3>3 DEF AccountFits, LabelFits, InGrant, Labelling, Named, Finalizing, Guarded
  <2>15. KeepsDoor(a)' /\ GuardsHold(a)' /\ ReadFits(a)'
    BY <1>0, <1>1, <1>3, <2>2 DEF KeepsDoor, GuardsHold, ReadFits, Guarded
  <2> QED BY <1>0, <2>6, <2>7, <2>8, <2>9, <2>10, <2>11, <2>12, <2>13, <2>14, <2>15, StepKeeps
<1> QED BY <1>5, <1>6

LEMMA StaffKeeps ==
  ASSUME PeopleInv, NEW i \in People, NEW k \in StaffDoes, StaffActs(i, k)
  PROVE  PeopleInv' /\ \A j \in People : kisiUser[j].extra => kisiUser'[j].extra
<1>0. /\ Script \in Actors /\ Script \notin Accounts /\ account \in [Accounts -> AccountRec] /\ LabelFits(Script)
      /\ work \in [Actors -> KisiWork] /\ work[Script] \in KisiWork /\ PeopleShape /\ TurnsFit /\ peopleLeft \in PeopleScenario
      /\ MarkersFit /\ OnlyOursDeleted /\ LabelledOrTold /\ UNCHANGED <<born, account, work, owed, told, refused, killed>>
  BY OfActor, PeopleFacts DEF StaffActs, PeopleInv
<1>1. CaseStays
  <2>1. peopleLeft.staff - 1 \in Nat
    BY <1>0 DEF StaffActs, PeopleScenario
  <2> QED BY <1>0, <2>1 DEF StaffActs, CaseStays, PeopleScenario
<1> DEFINE UserRec == [there : BOOLEAN, mail : {"", "own", "other"}, meta : Owner, notes : Owner,
                       extra : BOOLEAN, boss : BOOLEAN, by : Owner \cup {"staff"}]
           u == CASE k = "promote" -> [kisiUser[i] EXCEPT !.boss = TRUE]
                  [] k = "unmark"  -> [kisiUser[i] EXCEPT !.notes = "none"]
                  [] k = "addKey"  -> [kisiUser[i] EXCEPT !.extra = TRUE]
                  [] k = "delete"  -> [kisiUser[i] EXCEPT !.there = FALSE]
<1>2. kisiUser \in [People -> UserRec] /\ kisiUser[i] \in UserRec
  BY <1>0 DEF PeopleShape, KisiTypeOK
<1>3. kisiUser' = [kisiUser EXCEPT ![i] = u]
  BY <1>2 DEF StaffActs
<1>4. /\ u \in UserRec /\ u.mail = kisiUser[i].mail /\ u.meta = kisiUser[i].meta /\ u.by = kisiUser[i].by
      /\ u.notes \in {"none", kisiUser[i].notes} /\ (k # "delete" => u.there = kisiUser[i].there)
      /\ (kisiUser[i].extra => u.extra) /\ (u.there => kisiUser[i].there)
  <2>1. CASE k = "promote"
    BY <1>2, <2>1 DEF Owner
  <2>2. CASE k = "unmark"
    BY <1>2, <2>2 DEF Owner
  <2>3. CASE k = "addKey"
    BY <1>2, <2>3 DEF Owner
  <2>4. CASE k = "delete"
    BY <1>2, <2>4 DEF Owner
  <2> QED BY <2>1, <2>2, <2>3, <2>4 DEF StaffDoes
<1> HIDE DEF u, UserRec
<1>5. kisiUser' \in [People -> UserRec] /\ kisiUser'[i] = u /\ \A j \in People : j # i => kisiUser'[j] = kisiUser[j]
  BY <1>2, <1>3, <1>4
<1>6. PeopleShape'
  <2>1. ~(i > born)
    BY <1>0, NobodyIs DEF PeopleShape, StaffActs
  <2>2. \A j \in People : j > born => kisiUser'[j] = Nobody
    BY <1>0, <1>5, <2>1 DEF PeopleShape
  <2>3. \A j \in People : kisiUser'[j].there => j \in 1 .. born
    BY <1>0, <1>4, <1>5 DEF PeopleShape, KisiTypeOK
  <2>4. kisiRole' \subseteq kisiRole
    BY DEF StaffActs
  <2> QED BY <1>0, <1>1, <1>5, <2>2, <2>3, <2>4 DEF PeopleShape, KisiTypeOK, CaseStays, UserRec
<1>7. Only(Script) /\ MyTurn(Script)
  BY <1>0 DEF Only, MyTurn, StaffActs, AtRest
<1>8. UsersKeep
  BY <1>4, <1>5 DEF UsersKeep
<1>9. DoorsKeep(Script)
  <2>1. ASSUME "delete" \notin peopleLeft.does, NEW b \in Accounts, account[b].st = "active", HasDoor(b, account[b].user)
        PROVE  HasDoor(b, account[b].user)'
    <3>1. k # "delete" /\ kisiRole' = kisiRole
      BY <2>1 DEF StaffActs
    <3>2. account[b].user \in People
      BY <1>0, <2>1 DEF PeopleInv, AccountFits, AccountRec
    <3> QED BY <1>0, <1>4, <1>5, <2>1, <3>1, <3>2 DEF HasDoor
  <2> QED BY <1>0, <2>1 DEF DoorsKeep, TurnsFit, KeepsDoor
<1>10. MarkersFit' /\ OnlyOursDeleted' /\ (peopleLeft.apart => BossesAreKept')
  BY <1>0, <1>4, <1>5 DEF MarkersFit, OnlyOursDeleted, BossesAreKept, TurnsFit
<1>11. LabelledOrTold'
  <2>1. \A j \in People : (kisiUser'[j].there => kisiUser[j].there) /\ kisiUser'[j].by = kisiUser[j].by
                          /\ kisiUser'[j].meta = kisiUser[j].meta
    BY <1>4, <1>5
  <2> QED BY <1>0, <1>1, <2>1 DEF LabelledOrTold, CaseStays
<1>12. LabelFits(Script)'
  <2>1. Marker(Script)' = Marker(Script)
    BY <1>0 DEF Marker
  <2>2. work[Script].user \in {0} \cup People
    BY <1>0 DEF KisiWork
  <2> QED BY <1>0, <1>8, <2>1, <2>2 DEF LabelFits, UsersKeep
<1>13. peopleLeft.apart => ReadFits(Script)'
  BY <1>0 DEF StaffActs, AtRest, ReadFits
<1>14. \A j \in People : kisiUser[j].extra => kisiUser'[j].extra
  BY <1>4, <1>5
<1> QED BY <1>0, <1>1, <1>6, <1>7, <1>8, <1>9, <1>10, <1>11, <1>12, <1>13, <1>14, StepKeeps

LEMMA PeopleBegin == PeopleInit => PeopleInv
<1> SUFFICES ASSUME PeopleInit PROVE PeopleInv
  OBVIOUS
<1> DEFINE UserRec == [there : BOOLEAN, mail : {"", "own", "other"}, meta : Owner, notes : Owner,
                       extra : BOOLEAN, boss : BOOLEAN, by : Owner \cup {"staff"}]
<1>0. /\ peopleLeft \in PeopleScenario /\ born = Older /\ born \in Older .. MaxPeople /\ kisiRole = {} /\ told = {}
      /\ refused = {} /\ killed = {} /\ owed \in [Accounts -> Seq({"grant", "revoke"})]
      /\ \A a \in Accounts : account[a].user = 0 /\ account[a].st = "none" /\ a \in Actors /\ a # Script
      /\ account \in [Accounts -> AccountRec] /\ work \in [Actors -> KisiWork]
      /\ \A x \in Actors : work[x] = AtRest /\ work[x].step = "idle" /\ work[x].user = 0
  BY KisiUsersAssumption, PeopleFacts, RestIsWork DEF PeopleInit, PeopleScenario, AccountRec, AtRest
<1>1. ASSUME NEW i \in People
      PROVE  /\ kisiUser[i] \in UserRec /\ kisiUser[i].meta = "none" /\ kisiUser[i].notes \in {"none", kisiUser[i].by}
             /\ (i > Older => kisiUser[i] = Nobody) /\ (kisiUser[i].there => i \in 1 .. Older)
  <2>0. "none" \in Owner /\ Gyms \subseteq Owner /\ Stranger = 1 /\ Older = 2 /\ Stranger # Older
    BY DEF Owner, Stranger, Older
  <2>1. CASE i = Stranger
    <3>1. kisiUser[i] = [there |-> TRUE, mail |-> "other", meta |-> "none", notes |-> "none", extra |-> FALSE,
                         boss |-> FALSE, by |-> "staff"]
      BY <2>0, <2>1 DEF PeopleInit, Nobody
    <3>2. i \in 1 .. Older /\ ~(i > Older)
      BY <2>0, <2>1
    <3> QED BY <2>0, <3>1, <3>2
  <2>2. CASE i = Older /\ peopleLeft.older # "absent"
    <3> DEFINE g == IF peopleLeft.older \in Gyms THEN peopleLeft.older ELSE "none"
               b == IF peopleLeft.older \in Gyms THEN peopleLeft.older ELSE "staff"
    <3>1. kisiUser[i] = [there |-> TRUE, mail |-> "own", meta |-> "none", notes |-> g, extra |-> TRUE,
                         boss |-> FALSE, by |-> b]
      BY <2>0, <2>2 DEF PeopleInit, Nobody
    <3>2. g \in Owner /\ b \in Owner \cup {"staff"} /\ g \in {"none", b}
      BY <2>0
    <3>3. i \in 1 .. Older /\ ~(i > Older)
      BY <2>0, <2>2
    <3> HIDE DEF g, b
    <3> QED BY <2>0, <3>1, <3>2, <3>3
  <2>3. CASE i # Stranger /\ ~(i = Older /\ peopleLeft.older # "absent")
    BY <2>3, PeopleFacts DEF PeopleInit, Nobody, Owner
  <2> QED BY <2>1, <2>2, <2>3
<1>2. kisiUser \in [People -> UserRec]
  <2>1. kisiUser = [i \in People |-> kisiUser[i]]
    BY DEF PeopleInit
  <2> QED BY <1>1, <2>1
<1>3. PeopleShape
  BY <1>0, <1>1, <1>2 DEF PeopleShape, KisiTypeOK, AccountRec
<1>4. MarkersFit /\ OnlyOursDeleted /\ LabelledOrTold
  BY <1>0, <1>1, NobodyIs DEF MarkersFit, OnlyOursDeleted, LabelledOrTold
<1>5. TurnsFit
  BY <1>0 DEF TurnsFit, OneAtWork, BossesAreKept, KeepsDoor, GuardsHold, ReadFits, Guarded
<1>6. \A a \in Accounts : AccountFits(a)
  BY <1>0 DEF AccountFits, InGrant, Named, Labelling, Finalizing, Guarded
<1>7. \A x \in Actors : LabelFits(x)
  BY <1>0 DEF LabelFits, Labelling
<1> QED BY <1>3, <1>4, <1>5, <1>6, <1>7 DEF PeopleInv

LEMMA PeopleStep ==
  PeopleInv /\ [PeopleNext]_peopleVars
    => PeopleInv' /\ [peopleLeft.apart => \A i \in People : kisiUser[i].extra => kisiUser'[i].extra]_peopleVars
<1> DEFINE Extra == peopleLeft.apart => \A i \in People : kisiUser[i].extra => kisiUser'[i].extra
<1> SUFFICES ASSUME PeopleInv, [PeopleNext]_peopleVars PROVE PeopleInv' /\ (Extra \/ UNCHANGED peopleVars)
  OBVIOUS
<1>1. ASSUME NEW a \in Accounts, GrantStep(a) \/ RevokeStep(a) \/ GrantFails(a) \/ FinalizeFails(a) PROVE PeopleInv' /\ Extra
  <2>1. CASE Creates(a)
    <3>1. \A i \in People : kisiUser[i].extra => kisiUser'[i].extra
      <4>1. kisiUser \in [People -> [there : BOOLEAN, mail : {"", "own", "other"}, meta : Owner, notes : Owner,
                                     extra : BOOLEAN, boss : BOOLEAN, by : Owner \cup {"staff"}]]
            /\ born \in Older .. MaxPeople /\ \A i \in People : i > born => kisiUser[i] = Nobody
        BY DEF PeopleInv, PeopleShape, KisiTypeOK
      <4>2. \A i \in People : i # born + 1 => kisiUser'[i] = kisiUser[i]
        <5> DEFINE n == born + 1
        <5>1. PICK u : kisiUser' = [kisiUser EXCEPT ![n] = u]
          BY <2>1 DEF Creates
        <5>2. DOMAIN kisiUser = People
          BY <4>1
        <5> HIDE DEF n
        <5>3. \A i \in People : i # n => kisiUser'[i] = kisiUser[i]
          BY <5>1, <5>2
        <5> QED BY <5>3 DEF n
      <4>3. \A i \in People : i = born + 1 => ~kisiUser[i].extra
        <5>1. born + 1 > born
          <6>1. born \in Older .. MaxPeople /\ MaxPeople \in Nat /\ Older \in Nat
            BY <4>1, KisiUsersAssumption DEF Older
          <6> QED BY <6>1
        <5> QED BY <4>1, <5>1, NobodyIs
      <4> QED BY <4>2, <4>3
    <3> QED BY <2>1, <3>1, CreatesKeeps
  <2>2. CASE Deletes(a)
    <3>1. kisiUser \in [People -> [there : BOOLEAN, mail : {"", "own", "other"}, meta : Owner, notes : Owner,
                                   extra : BOOLEAN, boss : BOOLEAN, by : Owner \cup {"staff"}]]
      BY DEF PeopleInv, PeopleShape, KisiTypeOK
    <3>2. \A i \in People : kisiUser'[i].extra = kisiUser[i].extra
      <4>1. kisiUser' = kisiUser \/ kisiUser' = [kisiUser EXCEPT ![work[a].user].there = FALSE]
        BY <2>2 DEF Deletes
      <4>2. CASE kisiUser' = kisiUser
        BY <4>2
      <4>3. CASE kisiUser' = [kisiUser EXCEPT ![work[a].user].there = FALSE]
        <5> TAKE i \in People
        <5>1. CASE i = work[a].user
          BY <3>1, <4>3, <5>1
        <5>2. CASE i # work[a].user
          BY <3>1, <4>3, <5>2
        <5> QED BY <5>1, <5>2
      <4> QED BY <4>1, <4>2, <4>3
    <3> QED BY <2>2, <3>2, DeletesKeeps
  <2>3. CASE Begins(a) \/ Saves(a) \/ Assigns(a) \/ FindsUserGone(a) \/ Records(a) \/ TakesRole(a) \/ Purges(a)
    <3>1. UNCHANGED kisiUser
      BY <2>3 DEF Begins, Saves, Assigns, FindsUserGone, Records, TakesRole, Purges, Kisi
    <3> QED BY <2>3, <3>1, BeginsKeeps, SavesKeeps, AssignsKeeps, GoneKeeps, RowKeeps, RoleGoneKeeps, PurgesKeeps
  <2>4. CASE Cached(a) \/ FindsUser(a) \/ FindsNobody(a) \/ CreateConflicts(a) \/ RefindMisses(a) \/ GrantFails(a)
    <3>1. UNCHANGED kisiUser
      BY <2>4 DEF Cached, FindsUser, FindsNobody, CreateConflicts, RefindMisses, GrantFails, Kisi
    <3> QED BY <2>4, <3>1, SearchKeeps
  <2>5. CASE ChecksSharers(a) \/ ChecksOthers(a) \/ ChecksMarker(a) \/ ChecksRoles(a) \/ FinalizeFails(a)
    <3>1. UNCHANGED kisiUser
      BY <2>5 DEF ChecksSharers, ChecksOthers, ChecksMarker, ChecksRoles, FinalizeFails, Kisi
    <3> QED BY <2>5, <3>1, GuardsKeep
  <2> QED BY <1>1, <2>1, <2>2, <2>3, <2>4, <2>5 DEF GrantStep, RevokeStep
<1>2. ASSUME NEW x \in Actors, LabelStep(x) \/ LabelFails(x) PROVE PeopleInv' /\ Extra
  <2>1. CASE PatchesLabel(x)
    BY <2>1, PatchesKeeps
  <2>2. CASE ReadsLabel(x) \/ Confirms(x) \/ LabelFails(x)
    <3>1. UNCHANGED kisiUser
      BY <2>2 DEF ReadsLabel, Confirms, LabelFails, Kisi
    <3> QED BY <2>2, <3>1, LabelReadsKeep
  <2> QED BY <1>2, <2>1, <2>2 DEF LabelStep
<1>3. ASSUME NEW i \in People, ScriptTakes(i) \/ \E k \in StaffDoes : StaffActs(i, k) PROVE PeopleInv' /\ Extra
  <2>1. CASE ScriptTakes(i)
    <3>1. UNCHANGED kisiUser
      BY <2>1 DEF ScriptTakes, Kisi
    <3> QED BY <2>1, <3>1, ScriptKeeps
  <2>2. CASE \E k \in StaffDoes : StaffActs(i, k)
    BY <2>2, StaffKeeps
  <2> QED BY <1>3, <2>1, <2>2
<1>4. CASE UNCHANGED peopleVars
  <2>1. UNCHANGED <<kisiUser, kisiRole, born, account, work, owed, told, refused, killed, peopleLeft>>
    BY <1>4 DEF peopleVars
  <2>2. (PeopleShape /\ MarkersFit /\ OnlyOursDeleted)'
    <3>1. PeopleShape /\ MarkersFit /\ OnlyOursDeleted
      BY DEF PeopleInv
    <3> QED BY <2>1, <3>1 DEF PeopleShape, KisiTypeOK, MarkersFit, OnlyOursDeleted
  <2>3. LabelledOrTold'
    <3>1. LabelledOrTold
      BY DEF PeopleInv
    <3> QED BY <2>1, <3>1 DEF LabelledOrTold
  <2>4. \A a \in Accounts : AccountFits(a)'
    <3>1. \A a \in Accounts : AccountFits(a)
      BY DEF PeopleInv
    <3> QED BY <2>1, <3>1 DEF AccountFits, GymOf
  <2>5. \A x \in Actors : LabelFits(x)'
    <3>1. \A x \in Actors : LabelFits(x)
      BY DEF PeopleInv
    <3> QED BY <2>1, <3>1 DEF LabelFits, Marker, GymOf
  <2>6. \A a \in Accounts : (KeepsDoor(a) => KeepsDoor(a)') /\ (GuardsHold(a) => GuardsHold(a)')
    <3>1. \A a \in Accounts : KeepsDoor(a) => KeepsDoor(a)'
      BY <2>1 DEF KeepsDoor, HasDoor
    <3>2. \A a \in Accounts : GuardsHold(a) => GuardsHold(a)'
      BY <2>1 DEF GuardsHold, Sharers
    <3> QED BY <3>1, <3>2
  <2>7. \A x \in Actors : ReadFits(x) => ReadFits(x)'
    BY <2>1 DEF ReadFits
  <2>8. TurnsFit'
    <3>1. TurnsFit
      BY DEF PeopleInv
    <3>2. OneAtWork => OneAtWork'
      BY <2>1 DEF OneAtWork
    <3> QED BY <2>1, <2>6, <2>7, <3>1, <3>2 DEF TurnsFit, BossesAreKept
  <2>9. PeopleInv'
    BY <2>2, <2>3, <2>4, <2>5, <2>8 DEF PeopleInv
  <2> QED BY <1>4, <2>9
<1> QED BY <1>1, <1>2, <1>3, <1>4 DEF PeopleNext

(* KisiUsers: for any accounts, gyms, jobs, staff and failures, a Kisi     *)
(* user is deleted only for the client it was made for, nobody is bound to *)
(* another person's user, and who was made is labelled or told of; where   *)
(* the jobs take turns, who is active has his user and role, no user with  *)
(* an elevated role is deleted, and no foreign key is lost                 *)
(* (adapters/kisi/kisi-adapter.js, finalizeRevoke).                        *)
THEOREM OnlyOursAreTaken == PeopleSpec => KisiHolds
<1>1. PeopleInv => KisiTypeOK /\ OnlyOursDeleted /\ BoundToHimself /\ ActiveHasUser /\ BossesStay /\ LabelledOrTold
  BY DEF PeopleInv, PeopleShape, BoundToHimself, AccountFits, ActiveHasUser, ActiveKeepsUser, TurnsFit, KeepsDoor, HasDoor,
     BossesStay
<1> QED BY <1>1, PeopleBegin, PeopleStep, PTL DEF PeopleSpec, KisiHolds, OthersKeysStay
=============================================================================
