---------------------------- MODULE RemovalSweep ----------------------------
(***************************************************************************)
(* One client's reconciliation sweep as far as removals go                 *)
(* (core/reconciliation.js _syncClientLocked): two reads of Wix, Pass 1,   *)
(* Pass 1.5 and 3B, the removal decision, the armed removals, the strike   *)
(* clocks and the proposal log, interleaved with what Wix, the webhooks    *)
(* and the queue worker do meanwhile.  Sweeps of a client never overlap    *)
(* (an advisory lock), but one may crash at any step.                      *)
(*                                                                         *)
(* An order is one (member, plan) of Wix and of the database.  A seat is a *)
(* sub-member's row, which rides on its holder's order.  A strike clock    *)
(* keeps its age up to MinAge and its count up to MinSeen: nothing the     *)
(* policy does tells larger values apart.                                  *)
(***************************************************************************)
EXTENDS RemovalPolicy

CONSTANTS
  Orders,      \* the (member, plan) orders of the client
  MemberOf,    \* order |-> the primary member who placed it
  ReadOf,      \* order |-> the data source that reads it
  Seats,       \* sub-members
  RidesOn,     \* seat |-> the holder's order it rides on
  Classes,     \* order |-> the Wix classifications it can have
  Modes,       \* the values of clients.auto_revoke_mode that occur
  Faults       \* which of "crash", "empty_read", "clock_read", "enqueue",
               \* "decline", "webhook" may happen

ASSUME SweepAssumption ==
  /\ ReadOf \in [Orders -> DataSources]
  /\ RidesOn \in [Seats -> {o \in Orders : ReadOf[o] = "wix_orders"}]
  /\ IsFiniteSet(Orders) /\ IsFiniteSet(Seats)
  /\ Orders \cap Seats = {}
  /\ Classes \in [Orders -> SUBSET {"paying", "held", "ended", "absent"}]
  /\ MinSeen > 0

VARIABLES
  wix,      \* order |-> its classification in Wix now
  row,      \* order |-> the member's source row for it
  clock,    \* order |-> the row's not_paying_* columns
  seat,     \* seat |-> its access row
  history,  \* seat |-> what reconciliation_proposal says of it
  queue,    \* the revoke jobs waiting: a set of orders and seats
  cascade,  \* the seats that jobs of ended orders have listed, and marked
  sweep,    \* the sweep running, if one is
  proof,    \* ghost: the strike each order and seat has really earned
  deaths    \* ghost: how often a sweep or a job died, or had its revoke
            \* refused, between a seat's mark and its revoke

vars == <<wix, row, clock, seat, history, queue, cascade, sweep, proof, deaths>>
-----------------------------------------------------------------------------
Blank == [age |-> NoClock, seen |-> 0]

Clocks == [age : {NoClock} \cup 0 .. MinAge, seen : 0 .. MinSeen]

(* A mutant of Observe: the clock counts but never starts.                 *)
ObserveUnstarted(c) == [c EXCEPT !.seen = IF @ < MinSeen THEN @ + 1 ELSE @]

(* One more observation: since = COALESCE(since, NOW()), observations + 1. *)
Observe(c) ==
  [age  |-> IF c.age = NoClock THEN 0 ELSE c.age,
   seen |-> IF c.seen < MinSeen THEN c.seen + 1 ELSE c.seen]

Older(c) == IF c.age = NoClock \/ c.age = MinAge THEN c ELSE [c EXCEPT !.age = @ + 1]

Idle == [at |-> "idle"]

(* A mutant of Best: the second read alone decides.                        *)
BestLast(a, b) == b

(* CLASS_RANK: the most alive of two classifications wins.                 *)
Best(a, b) ==
  IF "paying" \in {a, b} THEN "paying"
  ELSE IF "held" \in {a, b} THEN "held"
  ELSE IF "ended" \in {a, b} THEN "ended"
  ELSE "absent"

View(reads) == [o \in Orders |-> Best(reads[1][o], reads[2][o])]

PayingIn(r, d) == {MemberOf[o] : o \in {x \in Orders : ReadOf[x] = d /\ r[x] = "paying"}}

(* The members whose paying status differed between the two reads.         *)
Differ(reads) ==
  [d \in DataSources |->
     LET one == PayingIn(reads[1], d)  two == PayingIn(reads[2], d)
     IN  Cardinality((one \ two) \cup (two \ one))]

PaysSomething(v, m) == \E o \in Orders : MemberOf[o] = m /\ v[o] = "paying"

(* The members at risk in the Wix reads: own rows not held for their       *)
(* payment state, and the holders of the seats Pass 1.5 examined.          *)
Population(v, rows, seats) ==
  [d \in DataSources |->
     {MemberOf[o] : o \in {x \in Orders : ReadOf[x] = d /\ rows[x] = "active" /\ v[x] # "held"}}
     \cup (IF d = "wix_orders"
           THEN {MemberOf[RidesOn[s]] : s \in {x \in Seats : seats[x] = "active" /\ v[RidesOn[x]] # "held"}}
           ELSE {})]

(* 3B: a primary's plan that is ENDED or, for a member who pays for        *)
(* nothing else, in neither read at all.                                   *)
Lapsed(v, o) ==
  /\ v[o] \in Removable
  /\ PaysSomething(v, MemberOf[o]) => v[o] = "ended"

OwnProposal(v, c, o) ==
  [source |-> "wix_absence", dataSource |-> ReadOf[o], member |-> MemberOf[o],
   unit |-> MemberOf[o], target |-> o, class |-> v[o], age |-> c[o].age, seen |-> c[o].seen]

(* A mutant of SeatProposal: a seat is a unit of its own.                  *)
SeatProposalAlone(v, h, s) ==
  [source |-> "holder_lapse", dataSource |-> "wix_orders", member |-> s, unit |-> <<s>>, target |-> s,
   class |-> v[RidesOn[s]], age |-> h[s].age, seen |-> h[s].seen]

(* Pass 1.5: a seat whose holder's order is ENDED or absent.  Only ENDED   *)
(* carries a strike: this seat's own history of proposals.                 *)
SeatProposal(v, h, s) ==
  LET o == RidesOn[s]
      k == IF v[o] = "ended" THEN h[s] ELSE Blank
  IN  [source |-> "holder_lapse", dataSource |-> "wix_orders", member |-> s,
       unit |-> MemberOf[o], target |-> s, class |-> v[o], age |-> k.age, seen |-> k.seen]

Proposals(v, rows, c, seats, h) ==
  {OwnProposal(v, c, o) : o \in {x \in Orders : rows[x] = "active" /\ Lapsed(v, x)}}
  \cup {SeatProposal(v, h, s) : s \in {x \in Seats : seats[x] = "active" /\ v[RidesOn[x]] \in Removable}}

(* isArmedRemoval, with both kill switches on.                             *)
Armed(p) == p.class = "ended" /\ p.source \in {"wix_absence", "holder_lapse"}
-----------------------------------------------------------------------------
Init ==
  /\ wix = [o \in Orders |-> "paying"]
  /\ row = [o \in Orders |-> "active"]
  /\ clock = [o \in Orders |-> Blank]
  /\ seat = [s \in Seats |-> "active"]
  /\ history = [s \in Seats |-> Blank]
  /\ queue = {}
  /\ cascade = [listed |-> {}, marked |-> {}]
  /\ sweep = Idle
  /\ deaths = 0
  /\ proof = [t \in Orders \cup Seats |-> Blank]

(* What one read of Wix returns: what Wix says, or the empty answer of a   *)
(* broken endpoint.                                                        *)
Reads == {wix} \cup (IF "empty_read" \in Faults THEN {[o \in Orders |-> "absent"]} ELSE {})

(* The sweep reads the removal mode, then Wix.                             *)
Start ==
  /\ sweep.at = "idle"
  /\ \E m \in Modes, r \in Reads :
       sweep' = [at |-> "read", mode |-> m, first |-> r]
  /\ UNCHANGED <<wix, row, clock, seat, history, queue, cascade, proof, deaths>>

(* The second read of Wix, _doubleReadDelayMs later, and Pass 1: a paying  *)
(* plan without a source row gets one.                                     *)
ReadAgain ==
  /\ sweep.at = "read"
  /\ \E r \in Reads :
       LET both == <<sweep.first, r>>  v == View(both)
       IN  /\ sweep' = [at |-> "judge", mode |-> sweep.mode, reads |-> both]
           /\ row' = [o \in Orders |-> IF row[o] = "none" /\ v[o] = "paying" THEN "active" ELSE row[o]]
  /\ UNCHANGED <<wix, clock, seat, history, queue, cascade, proof, deaths>>

(* The batch of this sweep: every proposal, each with its clock as the     *)
(* database has it, and the populations at risk.                           *)
Batch(reads, mode, clocks) ==
  LET v   == View(reads)
      pop == Population(v, row, seat)
  IN  [proposals |-> Proposals(v, row, clocks, seat, history),
       managed   |-> Cardinality(UNION {pop[d] : d \in DataSources}),
       pop       |-> [d \in DataSources |-> Cardinality(pop[d])],
       differ    |-> Differ(reads),
       mode      |-> mode,
       observe   |-> TRUE]

(* The ENDED proposals judged again with removal armed, unless the whole   *)
(* batch was held as an anomaly.                                           *)
ToRemove(b) ==
  IF HoldReason(b) \in Anomalies THEN {}
  ELSE Flush([b EXCEPT !.proposals = {p \in @ : Armed(p)}, !.observe = FALSE])

(* Pass 1.5, 3B and the removal decision.  The clocks may be unreadable:   *)
(* no proposal then carries a strike, and none is advanced.                *)
Judge ==
  /\ sweep.at = "judge"
  /\ \E readable \in (IF "clock_read" \in Faults THEN BOOLEAN ELSE {TRUE}) :
       LET b == Batch(sweep.reads, sweep.mode, IF readable THEN clock ELSE [o \in Orders |-> Blank])
       IN  sweep' =
             [at |-> "remove", reads |-> sweep.reads, mode |-> sweep.mode, batch |-> b,
              anomaly |-> HoldReason(b) \in Anomalies, readable |-> readable,
              census |-> {o \in Orders : row[o] = "active"},
              todo |-> {p.target : p \in ToRemove(b)}, marked |-> {}, sent |-> {}]
  /\ UNCHANGED <<wix, row, clock, seat, history, queue, cascade, proof, deaths>>

(* A mutant of Mark: the seats are all marked before a revoke is queued.   *)
MarkAhead(s) ==
  /\ sweep.at = "remove"
  /\ s \in sweep.todo \ sweep.marked
  /\ seat' = [seat EXCEPT ![s] = "removing"]
  /\ sweep' = [sweep EXCEPT !.marked = @ \cup {s}]
  /\ UNCHANGED <<wix, row, clock, history, queue, cascade, proof, deaths>>

(* The armed removals, one after the other.  A seat is first marked        *)
(* 'removing', whatever its row has come to say since it was judged.       *)
Mark(s) ==
  /\ sweep.at = "remove"
  /\ s \in sweep.todo /\ sweep.marked = {}
  /\ seat' = [seat EXCEPT ![s] = "removing"]
  /\ sweep' = [sweep EXCEPT !.marked = {s}]
  /\ UNCHANGED <<wix, row, clock, history, queue, cascade, proof, deaths>>

(* A job is queued, or refused, which is only logged.                      *)
Queued == IF "enqueue" \in Faults THEN BOOLEAN ELSE {TRUE}

(* Then its revoke is queued; that of a member's own plan at once.         *)
Queue(t) ==
  /\ sweep.at = "remove"
  /\ t \in sweep.todo /\ sweep.marked = {t} \cap Seats
  /\ \E queued \in Queued :
       /\ queue' = IF queued THEN queue \cup {t} ELSE queue
       /\ sweep' = [sweep EXCEPT !.todo = @ \ {t}, !.marked = {},
                                !.sent = IF queued THEN @ \cup {t} ELSE @]
       /\ deaths' = IF queued \/ t \in Orders THEN deaths ELSE deaths + 1
  /\ UNCHANGED <<wix, row, clock, seat, history, cascade, proof>>

(* The own orders this sweep proposed, observed or not.                    *)
Proposed(b) == {p.target : p \in {q \in b.proposals : q.source = "wix_absence"}}

(* A mutant of Cleared: paying again leaves the clock running.             *)
ClearedHeld(v, census, o) == o \in census /\ v[o] = "held"

(* CLEAR (a), (b) and (c): an order of the census that pays, whose payment *)
(* is held, or that has no order while its member pays for something else. *)
Cleared(v, census, o) == o \in census /\ ~Lapsed(v, o)

(* The strike clocks move: one observation per proposal unless the sweep   *)
(* was an anomaly or could not read the clocks; clears in every sweep.     *)
Settle ==
  /\ sweep.at = "remove"
  /\ sweep.todo = {}
  /\ LET v == View(sweep.reads)
         advancing == ~sweep.anomaly /\ sweep.readable
     IN  /\ clock' = [o \in Orders |->
                        IF Cleared(v, sweep.census, o) THEN Blank
                        ELSE IF advancing /\ o \in Proposed(sweep.batch) /\ row[o] = "active"
                             THEN Observe(clock[o]) ELSE clock[o]]
         /\ proof' = [t \in Orders \cup Seats |->
                        LET o == IF t \in Seats THEN RidesOn[t] ELSE t
                        IN  IF v[o] \in {"paying", "held"} /\ (t \in Orders => t \in sweep.census) THEN Blank
                            ELSE IF ~sweep.anomaly /\ t \in {p.target : p \in sweep.batch.proposals}
                                 THEN Observe(proof[t])
                            ELSE proof[t]]
  /\ sweep' = [sweep EXCEPT !.at = "log"]
  /\ UNCHANGED <<wix, row, seat, history, queue, cascade, deaths>>

(* The proposal log: a seat proposed on an ENDED order by a sweep that was *)
(* not an anomaly counts towards its strike from the next sweep on.        *)
Log ==
  /\ sweep.at = "log"
  /\ LET counted == {p.target : p \in {q \in sweep.batch.proposals :
                        q.source = "holder_lapse" /\ q.class = "ended"}}
     IN  history' = [s \in Seats |->
                       IF s \in counted /\ ~sweep.anomaly THEN Observe(history[s]) ELSE history[s]]
  /\ sweep' = Idle
  /\ UNCHANGED <<wix, row, clock, seat, queue, cascade, proof, deaths>>

(* A failed read aborts the sweep, and the process may stop at any step.   *)
Crash ==
  /\ "crash" \in Faults
  /\ sweep # Idle
  /\ sweep' = Idle
  /\ deaths' = IF sweep.at = "remove" /\ sweep.marked # {} THEN deaths + 1 ELSE deaths
  /\ UNCHANGED <<wix, row, clock, seat, history, queue, cascade, proof>>
-----------------------------------------------------------------------------
Tick ==
  /\ clock' = [o \in Orders |-> Older(clock[o])]
  /\ history' = [s \in Seats |-> Older(history[s])]
  /\ proof' = [t \in Orders \cup Seats |-> Older(proof[t])]
  /\ UNCHANGED <<wix, row, seat, queue, cascade, sweep, deaths>>

(* An order's state changes in Wix and the webhook is late or lost.        *)
WixMoves(o) ==
  /\ \E c \in Classes[o] \ {wix[o]} : wix' = [wix EXCEPT ![o] = c]
  /\ UNCHANGED <<row, clock, seat, history, queue, cascade, sweep, proof, deaths>>

(* plan.purchased or payment.recovered: the row is active, its clock as it *)
(* was if the row was there.                                               *)
WebhookPays(o) ==
  /\ "webhook" \in Faults
  /\ wix[o] = "paying"
  /\ row[o] # "active"
  /\ row' = [row EXCEPT ![o] = "active"]
  /\ UNCHANGED <<wix, clock, seat, history, queue, cascade, sweep, proof, deaths>>

(* payment.failed suspends the row.                                        *)
WebhookDeclines(o) ==
  /\ "decline" \in Faults
  /\ wix[o] = "held"
  /\ row[o] = "active"
  /\ row' = [row EXCEPT ![o] = "suspended"]
  /\ UNCHANGED <<wix, clock, seat, history, queue, cascade, sweep, proof, deaths>>

SeatsOn(o)  == {s \in Seats : RidesOn[s] = o}
Lapsing(o)  == {s \in SeatsOn(o) : seat[s] = "active"}
AtWork(o)   == cascade.listed \cap SeatsOn(o) # {}

(* plan.cancelled, the holder-lapse cascade: the job lists the seats on    *)
(* the order, and marks and queues one after the other.  A job that died   *)
(* starts again.                                                           *)
CascadeLists(o) ==
  /\ "webhook" \in Faults
  /\ wix[o] = "ended" /\ Lapsing(o) # {} /\ ~AtWork(o)
  /\ cascade' = [cascade EXCEPT !.listed = @ \cup Lapsing(o)]
  /\ UNCHANGED <<wix, row, clock, seat, history, queue, sweep, proof, deaths>>

CascadeMarks(s) ==
  /\ s \in cascade.listed /\ cascade.marked \cap SeatsOn(RidesOn[s]) = {}
  /\ seat' = [seat EXCEPT ![s] = "removing"]
  /\ cascade' = [cascade EXCEPT !.marked = @ \cup {s}]
  /\ UNCHANGED <<wix, row, clock, history, queue, sweep, proof, deaths>>

CascadeQueues(s) ==
  /\ s \in cascade.marked
  /\ \E queued \in Queued :
       /\ queue' = IF queued THEN queue \cup {s} ELSE queue
       /\ deaths' = IF queued THEN deaths ELSE deaths + 1
  /\ cascade' = [listed |-> cascade.listed \ {s}, marked |-> cascade.marked \ {s}]
  /\ UNCHANGED <<wix, row, clock, seat, history, sweep, proof>>

CascadeDies(o) ==
  /\ "crash" \in Faults /\ AtWork(o)
  /\ deaths' = IF cascade.marked \cap SeatsOn(o) # {} THEN deaths + 1 ELSE deaths
  /\ cascade' = [listed |-> cascade.listed \ SeatsOn(o), marked |-> cascade.marked \ SeatsOn(o)]
  /\ UNCHANGED <<wix, row, clock, seat, history, queue, sweep, proof>>

(* plan.cancelled, after the cascade: the holder's own row goes.           *)
WebhookCancels(o) ==
  /\ "webhook" \in Faults
  /\ wix[o] = "ended" /\ Lapsing(o) = {} /\ ~AtWork(o)
  /\ row[o] # "none"
  /\ row' = [row EXCEPT ![o] = "none"]
  /\ clock' = [clock EXCEPT ![o] = Blank]
  /\ UNCHANGED <<wix, seat, history, queue, cascade, sweep, proof, deaths>>

(* The worker runs a queued revoke: the rows of the plan go, their clocks  *)
(* with them.                                                              *)
RunRevoke(t) ==
  /\ t \in queue
  /\ queue' = queue \ {t}
  /\ IF t \in Seats
     THEN /\ seat' = [seat EXCEPT ![t] = "gone"]
          /\ UNCHANGED <<row, clock>>
     ELSE /\ row' = [row EXCEPT ![t] = "none"]
          /\ clock' = [clock EXCEPT ![t] = Blank]
          /\ UNCHANGED seat
  /\ UNCHANGED <<wix, history, cascade, sweep, proof, deaths>>

SweepSteps ==
  \/ Start \/ ReadAgain \/ Judge \/ Settle \/ Log
  \/ (\E s \in Seats : Mark(s)) \/ (\E t \in Orders \cup Seats : Queue(t))

CascadeGoesOn(s) == CascadeMarks(s) \/ CascadeQueues(s)

Next ==
  \/ SweepSteps \/ Crash \/ Tick
  \/ \E o \in Orders : WixMoves(o) \/ WebhookPays(o) \/ WebhookDeclines(o) \/ WebhookCancels(o)
  \/ \E o \in {RidesOn[s] : s \in Seats} : CascadeLists(o) \/ CascadeDies(o)
  \/ \E s \in Seats : CascadeGoesOn(s)
  \/ \E t \in Orders \cup Seats : RunRevoke(t)

Spec == Init /\ [][Next]_vars

(* Cron starts the sweeps and the process runs them; the worker runs what  *)
(* is queued and goes on with what it began; time passes.                  *)
Fairness ==
  /\ WF_vars(SweepSteps) /\ WF_vars(Tick)
  /\ \A t \in Orders \cup Seats : WF_vars(RunRevoke(t))
  /\ \A s \in Seats : WF_vars(CascadeGoesOn(s))

FairSpec == Spec /\ Fairness
-----------------------------------------------------------------------------
(* Types; and a clock has a start exactly when it has observations.        *)
Coherent(c) == c.age = NoClock <=> c.seen = 0

Answers == [Orders -> {"paying", "held", "ended", "absent"}]

TypeOK ==
  /\ wix \in Answers
  /\ row \in [Orders -> {"none", "active", "suspended"}]
  /\ clock \in [Orders -> Clocks]
  /\ seat \in [Seats -> {"active", "removing", "gone"}]
  /\ history \in [Seats -> Clocks]
  /\ queue \subseteq Orders \cup Seats
  /\ sweep.at \in {"idle", "read", "judge", "remove", "log"}
  /\ sweep.at = "remove" => {"at", "todo", "marked", "sent", "reads", "batch"} \subseteq DOMAIN sweep
  /\ cascade \in [listed : SUBSET Seats, marked : SUBSET Seats]
  /\ proof \in [Orders \cup Seats -> Clocks] /\ deaths \in Nat
  /\ \A o \in Orders : Coherent(clock[o]) /\ (row[o] = "none" => clock[o] = Blank)

OrderOf(t) == IF t \in Seats THEN RidesOn[t] ELSE t

(* A member's own plan is removed only after at least MinSeen earlier      *)
(* sweeps whose data was trusted read it lapsed, the first of them at      *)
(* least MinAge ago, with no completed sweep in between that read it       *)
(* paying or held: stale clocks, re-created rows, crashed sweeps and       *)
(* anomalies never ripen a strike (reconciliation.js, "When strike clocks  *)
(* may move").                                                             *)
Earned(t) == proof[t].age >= MinAge /\ proof[t].seen >= MinSeen
StrikeEarned == [][\A o \in Orders : o \in queue' \ queue => Earned(o)]_vars

(* The same of a seat removed by the sweep, as revoke-policy.js says of    *)
(* every removal: not paying for about two days, on at least 3 sweeps.     *)
SeatStrikeEarned ==
  [][\A s \in Seats : s \in queue' \ queue /\ sweep.at = "remove" /\ sweep' # sweep => Earned(s)]_vars

(* One sweep removes at most half of the units at risk, of any read and in *)
(* all, whenever there are at least two.                                   *)
UnitsOn(ts, d) == {MemberOf[OrderOf(t)] : t \in {x \in ts : ReadOf[OrderOf(x)] = d}}
AtMostHalf(units, n) == n >= 2 => 2 * Cardinality(units) <= n
Sparing(ts) ==
  /\ \A d \in DataSources : AtMostHalf(UnitsOn(ts, d), sweep.batch.pop[d])
  /\ AtMostHalf(UNION {UnitsOn(ts, d) : d \in DataSources}, sweep.batch.managed)
NeverHalfAtOnce == sweep.at \in {"remove", "log"} => Sparing(sweep.sent)

(* Nobody whom either of the two reads shows as paying, or as having any   *)
(* payment trouble short of an ended order, is removed: one broken or      *)
(* early read is not enough.                                               *)
SpareThePaying ==
  sweep.at \in {"remove", "log"} =>
    \A t \in sweep.sent :
      /\ \A i \in 1 .. 2 : sweep.reads[i][OrderOf(t)] \in Removable
      /\ \E i \in 1 .. 2 : sweep.reads[i][OrderOf(t)] = "ended"

(* A seat marked 'removing' without a revoke is looked at by no later      *)
(* sweep or webhook while it has its row.  That is left only by a sweep or *)
(* a job that died, or had its revoke refused, right behind the mark, and  *)
(* each such death leaves one seat, however sweep, webhooks and worker     *)
(* cross: the marks do not run ahead of the queue.                         *)
Marking  == cascade.marked \cup (IF sweep.at = "remove" THEN sweep.marked ELSE {})
Stranded == {s \in Seats : seat[s] = "removing" /\ s \notin queue \cup Marking}
DeathsStrandOne == Cardinality(Stranded) <= deaths

(* Nobody stays marked without a revoke.  A crash or a refused job between *)
(* the two awaits of the code leaves such a seat (README, section 6).      *)
NobodyStranded == Stranded = {}

(* A sweep that reads an order as paying or held leaves no strike clock    *)
(* running on it ("clears always run").                                    *)
ClearsAlwaysRun ==
  [][sweep.at = "remove" /\ sweep'.at = "log" =>
       \A o \in Orders : View(sweep.reads)[o] \in {"paying", "held"} => clock'[o] = Blank]_vars

(* What has ended for good is removed in the end, while everything else is *)
(* paid for: a member's own plan, and every seat on it, a family counting  *)
(* once against the mass cap.                                              *)
LapsedLeaves ==
  \A o \in {x \in Orders : "ended" \in Classes[x]} :
    <>[](wix[o] = "ended" /\ \A x \in Orders \ {o} : wix[x] = "paying")
      => <>[](row[o] = "none" /\ \A s \in Seats : RidesOn[s] = o => seat[s] = "gone")
-----------------------------------------------------------------------------
(* What makes StrikeEarned inductive: a clock never runs ahead of the      *)
(* strike really earned, and every order a sweep is about to remove has    *)
(* earned its strike already.                                              *)
ClocksAreSound == \A o \in Orders : clock[o].age <= proof[o].age /\ clock[o].seen <= proof[o].seen

TodoIsEarned == sweep.at = "remove" => \A o \in Orders : o \in sweep.todo => Earned(o)

StrikeInv == TypeOK /\ ClocksAreSound /\ TodoIsEarned

(* What makes SpareThePaying inductive: the two reads are whole, and what  *)
(* a sweep removes rides on an order that the better of them calls ended.  *)
ReadsAreWhole ==
  /\ sweep.at = "read" => sweep.first \in Answers
  /\ sweep.at \in {"judge", "remove", "log"} => sweep.reads \in Answers \X Answers

Targets == sweep.todo \cup sweep.sent

TargetsHaveEnded ==
  sweep.at \in {"remove", "log"} =>
    /\ Targets \subseteq Orders \cup Seats
    /\ \A t \in Targets : View(sweep.reads)[OrderOf(t)] = "ended"

SpareInv == TypeOK /\ ReadsAreWhole /\ TargetsHaveEnded

(* What makes NeverHalfAtOnce inductive: the removals done and to do keep  *)
(* within half together.                                                   *)
CapInv ==
  /\ TypeOK
  /\ sweep.at \in {"remove", "log"} =>
       /\ Targets \subseteq Orders \cup Seats
       /\ sweep.batch.managed \in Nat /\ \A d \in DataSources : sweep.batch.pop[d] \in Nat
       /\ Sparing(Targets)

(* What makes DeathsStrandOne inductive: who marks a seat queues its       *)
(* revoke before marking the next, the sweep and the job of each order.    *)
MarksAreSingle ==
  /\ sweep.at = "remove" => /\ sweep.marked \subseteq sweep.todo \cap Seats
                            /\ \A s, t \in sweep.marked : s = t
  /\ cascade.marked \subseteq cascade.listed
  /\ \A s, t \in cascade.marked : RidesOn[s] = RidesOn[t] => s = t

MarkInv == TypeOK /\ MarksAreSingle /\ DeathsStrandOne
=============================================================================
