---------------------------- MODULE SweepProofs -----------------------------
(***************************************************************************)
(* Theorems about the sweep: RemovalSweep, for every set of orders and     *)
(* seats, every strike policy and every fault; SweepRun, for every set of  *)
(* gyms and processes and every fault; and WixLists, for every list, page  *)
(* size and change of the lists between two pages.                         *)
(***************************************************************************)
EXTENDS RemovalSweep, SweepRun, WixLists, FiniteSetTheorems, SequenceTheorems, TLAPS

-----------------------------------------------------------------------------
(* Clocks.                                                                 *)

(* One more observation of a clock is a clock, and a coherent one.         *)
LEMMA ObserveType ==
  ASSUME NEW c \in Clocks
  PROVE  Observe(c) \in Clocks /\ Coherent(Observe(c)) /\ Observe(c).age >= c.age /\ Observe(c).seen >= c.seen
BY PolicyAssumption, SweepAssumption DEF Clocks, Observe, NoClock, Coherent

(* A clock that grows older stays a clock with the same observations.      *)
LEMMA OlderType ==
  ASSUME NEW c \in Clocks
  PROVE  /\ Older(c) \in Clocks /\ Older(c).seen = c.seen /\ Older(c).age >= c.age
         /\ Coherent(c) => Coherent(Older(c))
BY PolicyAssumption DEF Clocks, Older, NoClock, Coherent

LEMMA BlankType == Blank \in Clocks /\ Coherent(Blank) /\ Blank.age = -1 /\ Blank.seen = 0
BY PolicyAssumption, SweepAssumption DEF Clocks, Blank, NoClock, Coherent

(* Ageing and observing keep one clock behind another.                     *)
LEMMA Monotone ==
  ASSUME NEW c \in Clocks, NEW d \in Clocks, c.age <= d.age, c.seen <= d.seen
  PROVE  /\ Older(c).age <= Older(d).age /\ Older(c).seen <= Older(d).seen
         /\ Coherent(c) => Observe(c).age <= Observe(d).age /\ Observe(c).seen <= Observe(d).seen
<1>1. c.age \in Int /\ d.age \in Int /\ c.seen \in Nat /\ d.seen \in Nat
      /\ c.age >= -1 /\ d.age >= -1 /\ c.age <= MinAge /\ d.age <= MinAge /\ c.seen <= MinSeen /\ d.seen <= MinSeen
  BY PolicyAssumption DEF Clocks, NoClock
<1>2. Older(c).age <= Older(d).age
  BY <1>1, PolicyAssumption DEF Clocks, Older, NoClock
<1>3. Older(c).seen <= Older(d).seen
  BY <1>1, OlderType
<1>4. Observe(c).age <= Observe(d).age
  BY <1>1 DEF Clocks, Observe, NoClock
<1>5. Observe(c).seen <= Observe(d).seen
  BY <1>1, PolicyAssumption DEF Clocks, Observe
<1> QED BY <1>2, <1>3, <1>4, <1>5

-----------------------------------------------------------------------------
(* Type correctness.                                                       *)

LEMMA TypeInit == Init => TypeOK
BY BlankType DEF Init, TypeOK, Idle, Answers

(* A family's order is one of the orders.                                  *)
LEMMA FamiliesRideOnOrders == {RidesOn[s] : s \in Seats} \subseteq Orders
BY SweepAssumption

LEMMA TypeNext == TypeOK /\ [Next]_vars => TypeOK'
<1> SUFFICES ASSUME TypeOK, [Next]_vars PROVE TypeOK'
  OBVIOUS
<1> USE DEF TypeOK
<1>1. CASE Start
  BY <1>1 DEF Start
<1>2. CASE ReadAgain
  BY <1>2 DEF ReadAgain
<1>3. CASE Judge
  BY <1>3 DEF Judge
<1>4. ASSUME NEW t \in Orders \cup Seats, Queue(t) PROVE TypeOK'
  <2>1. sweep'.at = "remove" /\ DOMAIN sweep' = DOMAIN sweep
    BY <1>4 DEF Queue
  <2>2. deaths' \in Nat
    BY <1>4 DEF Queue
  <2> QED BY <1>4, <2>1, <2>2 DEF Queue
<1>4a. ASSUME NEW s \in Seats, Mark(s) PROVE TypeOK'
  <2>1. sweep'.at = "remove" /\ DOMAIN sweep' = DOMAIN sweep
    BY <1>4a DEF Mark
  <2> QED BY <1>4a, <2>1 DEF Mark
<1>4b. ASSUME NEW s \in Seats, CascadeMarks(s) PROVE TypeOK'
  BY <1>4b DEF CascadeMarks
<1>4c. ASSUME NEW s \in Seats, CascadeQueues(s) PROVE TypeOK'
  BY <1>4c DEF CascadeQueues
<1>4d. ASSUME NEW o \in Orders, CascadeLists(o) PROVE TypeOK'
  BY <1>4d DEF CascadeLists, Lapsing, SeatsOn
<1>4e. ASSUME NEW o \in Orders, CascadeDies(o) PROVE TypeOK'
  BY <1>4e DEF CascadeDies
<1>5. CASE Settle
  <2>1. clock' \in [Orders -> Clocks] /\ \A o \in Orders : Coherent(clock'[o])
    BY <1>5, ObserveType, BlankType DEF Settle
  <2>2. proof' \in [Orders \cup Seats -> Clocks]
    BY <1>5, ObserveType, BlankType DEF Settle
  <2>3. \A o \in Orders : row'[o] = "none" => clock'[o] = Blank
    BY <1>5 DEF Settle
  <2>4. sweep'.at = "log"
    BY <1>5 DEF Settle
  <2> QED BY <1>5, <2>1, <2>2, <2>3, <2>4 DEF Settle
<1>6. CASE Log
  BY <1>6, ObserveType DEF Log, Idle
<1>7. CASE Crash
  BY <1>7 DEF Crash, Idle
<1>8. CASE Tick
  <2>1. \A o \in Orders : row'[o] = "none" => clock'[o] = Blank
    BY <1>8 DEF Tick, Older, Blank
  <2>2. clock' \in [Orders -> Clocks] /\ \A o \in Orders : Coherent(clock'[o])
    BY <1>8, OlderType DEF Tick
  <2>3. history' \in [Seats -> Clocks] /\ proof' \in [Orders \cup Seats -> Clocks]
    BY <1>8, OlderType DEF Tick
  <2> QED BY <1>8, <2>1, <2>2, <2>3 DEF Tick
<1>9. ASSUME NEW o \in Orders, WixMoves(o) PROVE TypeOK'
  <2>1. Classes[o] \subseteq {"paying", "held", "ended", "absent"}
    BY SweepAssumption
  <2>2. wix' \in Answers
    BY <1>9, <2>1 DEF WixMoves, Answers
  <2> QED BY <1>9, <2>2 DEF WixMoves
<1>10. ASSUME NEW o \in Orders, WebhookPays(o) PROVE TypeOK'
  BY <1>10 DEF WebhookPays
<1>11. ASSUME NEW o \in Orders, WebhookDeclines(o) PROVE TypeOK'
  BY <1>11 DEF WebhookDeclines
<1>12. ASSUME NEW o \in Orders, WebhookCancels(o) PROVE TypeOK'
  BY <1>12, BlankType DEF WebhookCancels
<1>13. ASSUME NEW t \in Orders \cup Seats, RunRevoke(t) PROVE TypeOK'
  BY <1>13, BlankType DEF RunRevoke
<1>14. CASE UNCHANGED vars
  BY <1>14 DEF vars
<1> QED
  BY <1>1, <1>2, <1>3, <1>4, <1>4a, <1>4b, <1>4c, <1>4d, <1>4e, <1>5, <1>6, <1>7, <1>8, <1>9, <1>10, <1>11, <1>12, <1>13, <1>14,
     FamiliesRideOnOrders DEF Next, SweepSteps, CascadeGoesOn

(* Every state of the sweep, the database and the queue has its type, and  *)
(* a clock that started has observations.                                  *)
THEOREM TypeCorrect == Spec => []TypeOK
<1>1. Init => TypeOK
  BY TypeInit
<1>2. TypeOK /\ [Next]_vars => TypeOK'
  BY TypeNext
<1> QED BY <1>1, <1>2, PTL DEF Spec

-----------------------------------------------------------------------------
(* No early strike.                                                        *)

(* What a batch lets go has its strike.                                    *)
LEMMA RemovedHaveStrikes ==
  ASSUME NEW reads, NEW mode, NEW clocks, NEW p \in ToRemove(Batch(reads, mode, clocks))
  PROVE  StrikeMet(p) /\ p \in Proposals(View(reads), row, clocks, seat, history)
<1> DEFINE b == Batch(reads, mode, clocks)
           a == [b EXCEPT !.proposals = {q \in @ : Armed(q)}, !.observe = FALSE]
<1>1. a.proposals \subseteq b.proposals /\ b.proposals = Proposals(View(reads), row, clocks, seat, history)
  BY DEF Batch
<1>2. p \in Flush(a)
  BY DEF ToRemove
<1>3. p \in Ready(a)
  BY <1>2 DEF Flush
<1> QED BY <1>1, <1>3 DEF Ready

(* An own order a sweep is about to remove has a clock that says so.       *)
LEMMA RemovedOrderIsRipe ==
  ASSUME NEW reads, NEW mode, NEW clocks, NEW o \in Orders,
         o \in {p.target : p \in ToRemove(Batch(reads, mode, clocks))}
  PROVE  clocks[o].age # NoClock /\ clocks[o].age >= MinAge /\ clocks[o].seen >= MinSeen
<1> DEFINE v == View(reads)
<1>1. PICK p \in ToRemove(Batch(reads, mode, clocks)) : p.target = o
  OBVIOUS
<1>2. StrikeMet(p) /\ p \in Proposals(v, row, clocks, seat, history)
  BY RemovedHaveStrikes
<1>3. \A s \in Seats : SeatProposal(v, history, s).target = s
  BY DEF SeatProposal
<1>4. o \notin Seats
  BY SweepAssumption
<1>5. PICK x \in Orders : p = OwnProposal(v, clocks, x)
  BY <1>1, <1>2, <1>3, <1>4 DEF Proposals
<1>6. x = o /\ p.age = clocks[o].age /\ p.seen = clocks[o].seen
  BY <1>1, <1>5 DEF OwnProposal
<1> QED BY <1>2, <1>6 DEF StrikeMet

LEMMA StrikeInit == Init => StrikeInv
<1> SUFFICES ASSUME Init PROVE StrikeInv
  OBVIOUS
<1>1. TypeOK
  BY TypeInit
<1>2. ClocksAreSound
  BY BlankType DEF Init, ClocksAreSound
<1>3. TodoIsEarned
  BY DEF Init, Idle, TodoIsEarned
<1> QED BY <1>1, <1>2, <1>3 DEF StrikeInv

(* A step that leaves the clocks and the strikes earned alone and does not *)
(* add to what a sweep will remove keeps the invariant.                    *)
LEMMA StrikeKept ==
  ASSUME StrikeInv, TypeOK', UNCHANGED <<clock, proof>>,
         sweep'.at = "remove" => sweep.at = "remove" /\ sweep'.todo \subseteq sweep.todo
  PROVE  StrikeInv'
BY DEF StrikeInv, ClocksAreSound, TodoIsEarned, Earned

(* A step that stops the clocks of some orders and nothing else keeps it.  *)
LEMMA StrikeCleared ==
  ASSUME StrikeInv, TypeOK', UNCHANGED <<proof, sweep>>,
         \A o \in Orders : clock'[o] = clock[o] \/ clock'[o] = Blank
  PROVE  StrikeInv'
<1>1. \A o \in Orders : proof[o].age >= -1 /\ proof[o].seen >= 0 /\ proof[o].age \in Int /\ proof[o].seen \in Int
  BY PolicyAssumption, SweepAssumption DEF StrikeInv, TypeOK, Clocks, NoClock
<1>2. ClocksAreSound'
  BY <1>1, BlankType DEF StrikeInv, ClocksAreSound
<1> QED BY <1>2 DEF StrikeInv, TodoIsEarned, Earned

(* What Settle does to one order: its clock stops, or is observed when its *)
(* strike is, or stays while its strike stays or is observed.              *)
LEMMA SettleOrder ==
  ASSUME NEW o \in Orders, StrikeInv, Settle
  PROVE  clock'[o].age <= proof'[o].age /\ clock'[o].seen <= proof'[o].seen
<1> DEFINE v == View(sweep.reads)
<1>1. clock[o] \in Clocks /\ proof[o] \in Clocks /\ Coherent(clock[o])
      /\ clock[o].age <= proof[o].age /\ clock[o].seen <= proof[o].seen
  BY DEF StrikeInv, TypeOK, ClocksAreSound
<1>2. o \notin Seats
  BY SweepAssumption
<1>3. proof'[o] = IF v[o] \in {"paying", "held"} /\ o \in sweep.census THEN Blank
                  ELSE IF ~sweep.anomaly /\ o \in {p.target : p \in sweep.batch.proposals}
                       THEN Observe(proof[o])
                  ELSE proof[o]
  BY <1>2 DEF Settle
<1>4. proof'[o] \in Clocks
  BY <1>1, <1>3, BlankType, ObserveType
<1>5. CASE clock'[o] = Blank
  <2>1. proof'[o].age >= -1 /\ proof'[o].seen >= 0 /\ proof'[o].age \in Int /\ proof'[o].seen \in Int
    BY <1>4, PolicyAssumption DEF Clocks, NoClock
  <2> QED BY <1>5, <2>1, BlankType
<1>6. CASE ~Cleared(v, sweep.census, o)
  <2>1. ~(v[o] \in {"paying", "held"} /\ o \in sweep.census)
    BY <1>6 DEF Cleared, Lapsed, Removable
  <2>2. CASE /\ ~sweep.anomaly /\ sweep.readable /\ o \in Proposed(sweep.batch) /\ row[o] = "active"
    <3>1. o \in {p.target : p \in sweep.batch.proposals}
      BY <2>2 DEF Proposed
    <3>2. proof'[o] = Observe(proof[o])
      BY <1>3, <2>1, <2>2, <3>1
    <3>3. clock'[o] = Observe(clock[o])
      BY <1>6, <2>2 DEF Settle
    <3> QED BY <1>1, <3>2, <3>3, Monotone
  <2>3. CASE ~(~sweep.anomaly /\ sweep.readable /\ o \in Proposed(sweep.batch) /\ row[o] = "active")
    <3>1. clock'[o] = clock[o]
      BY <1>6, <2>3 DEF Settle
    <3>2. proof'[o] = proof[o] \/ proof'[o] = Observe(proof[o])
      BY <1>3, <2>1
    <3>3. proof'[o].age >= proof[o].age /\ proof'[o].seen >= proof[o].seen
      BY <1>1, <3>2, ObserveType, PolicyAssumption DEF Clocks, NoClock
    <3>4. /\ clock[o].age \in Int /\ proof[o].age \in Int /\ proof'[o].age \in Int
          /\ clock[o].seen \in Int /\ proof[o].seen \in Int /\ proof'[o].seen \in Int
      BY <1>1, <1>4, PolicyAssumption DEF Clocks, NoClock
    <3> QED BY <1>1, <3>1, <3>3, <3>4
  <2> QED BY <2>2, <2>3
<1> QED BY <1>5, <1>6 DEF Settle

LEMMA StrikeNext == StrikeInv /\ [Next]_vars => StrikeInv'
<1> SUFFICES ASSUME StrikeInv, [Next]_vars PROVE StrikeInv'
  OBVIOUS
<1>0. TypeOK /\ TypeOK'
  BY TypeNext DEF StrikeInv
<1>1. CASE Start
  BY <1>0, <1>1, StrikeKept DEF Start
<1>2. CASE ReadAgain
  BY <1>0, <1>2, StrikeKept DEF ReadAgain
<1>3. CASE Judge
  <2>1. ClocksAreSound'
    BY <1>3 DEF Judge, StrikeInv, ClocksAreSound
  <2>2. ASSUME NEW o \in Orders, o \in sweep'.todo PROVE Earned(o)'
    <3> DEFINE none == [x \in Orders |-> Blank]
               Gone(clocks) == {p.target : p \in ToRemove(Batch(sweep.reads, sweep.mode, clocks))}
    <3>1. PICK readable \in BOOLEAN : sweep'.todo = Gone(IF readable THEN clock ELSE none)
      <4> HIDE DEF Batch, HoldReason, ToRemove, Anomalies
      <4>1. PICK readable \in BOOLEAN :
              LET b == Batch(sweep.reads, sweep.mode, IF readable THEN clock ELSE none)
              IN  sweep' = [at |-> "remove", reads |-> sweep.reads, mode |-> sweep.mode, batch |-> b,
                            anomaly |-> HoldReason(b) \in Anomalies, readable |-> readable,
                            census |-> {x \in Orders : row[x] = "active"},
                            todo |-> {p.target : p \in ToRemove(b)}, marked |-> {}, sent |-> {}]
        BY <1>3, Zenon DEF Judge
      <4> QED BY <4>1
    <3>2. CASE readable
      <4>1. o \in Gone(clock)
        BY <2>2, <3>1, <3>2
      <4>2. clock[o].age >= MinAge /\ clock[o].seen >= MinSeen
        BY <4>1, RemovedOrderIsRipe
      <4>3. clock[o] \in Clocks /\ proof[o] \in Clocks /\ clock[o].age <= proof[o].age /\ clock[o].seen <= proof[o].seen
        BY DEF StrikeInv, TypeOK, ClocksAreSound
      <4> QED BY <1>3, <4>2, <4>3, PolicyAssumption DEF Judge, Earned, Clocks, NoClock
    <3>3. CASE ~readable
      <4>1. o \in Gone(none)
        BY <2>2, <3>1, <3>3
      <4> HIDE DEF none
      <4>2. none[o].age # NoClock
        BY <4>1, RemovedOrderIsRipe
      <4> QED BY <4>2 DEF none, Blank
    <3> QED BY <3>2, <3>3
  <2> QED BY <1>0, <2>1, <2>2 DEF StrikeInv, TodoIsEarned
<1>4. ASSUME NEW t \in Orders \cup Seats, Queue(t) PROVE StrikeInv'
  <2>1. sweep'.at = sweep.at /\ sweep'.todo \subseteq sweep.todo
    BY <1>0, <1>4 DEF Queue, TypeOK
  <2> QED BY <1>0, <1>4, <2>1, StrikeKept DEF Queue
<1>4a. ASSUME NEW s \in Seats, Mark(s) PROVE StrikeInv'
  <2>1. sweep'.at = sweep.at /\ sweep'.todo = sweep.todo
    BY <1>0, <1>4a DEF Mark, TypeOK
  <2> QED BY <1>0, <1>4a, <2>1, StrikeKept DEF Mark
<1>4b. ASSUME NEW s \in Seats, CascadeMarks(s) PROVE StrikeInv'
  BY <1>0, <1>4b, StrikeKept DEF CascadeMarks
<1>4c. ASSUME NEW s \in Seats, CascadeQueues(s) PROVE StrikeInv'
  BY <1>0, <1>4c, StrikeKept DEF CascadeQueues
<1>4d. ASSUME NEW o \in Orders, CascadeLists(o) PROVE StrikeInv'
  BY <1>0, <1>4d, StrikeKept DEF CascadeLists
<1>4e. ASSUME NEW o \in Orders, CascadeDies(o) PROVE StrikeInv'
  BY <1>0, <1>4e, StrikeKept DEF CascadeDies
<1>5. CASE Settle
  <2>1. ClocksAreSound'
    BY <1>5, SettleOrder DEF ClocksAreSound
  <2>2. sweep'.at = "log"
    BY <1>0, <1>5 DEF Settle, TypeOK
  <2> QED BY <1>0, <2>1, <2>2 DEF StrikeInv, TodoIsEarned
<1>6. CASE Log
  BY <1>0, <1>6, StrikeKept DEF Log, Idle
<1>7. CASE Crash
  BY <1>0, <1>7, StrikeKept DEF Crash, Idle
<1>8. CASE Tick
  <2>1. ASSUME NEW o \in Orders
        PROVE /\ clock'[o].age <= proof'[o].age /\ clock'[o].seen <= proof'[o].seen
              /\ proof'[o].age >= proof[o].age /\ proof'[o].seen = proof[o].seen
              /\ proof[o].age \in Int /\ proof'[o].age \in Int
    <3>1. clock'[o] = Older(clock[o]) /\ proof'[o] = Older(proof[o])
      BY <1>8 DEF Tick
    <3>2. clock[o] \in Clocks /\ proof[o] \in Clocks /\ clock[o].age <= proof[o].age /\ clock[o].seen <= proof[o].seen
      BY DEF StrikeInv, TypeOK, ClocksAreSound
    <3>3. proof[o].age \in Int /\ Older(proof[o]).age \in Int
      BY <3>2, OlderType, PolicyAssumption DEF Clocks, NoClock
    <3> QED BY <3>1, <3>2, <3>3, Monotone, OlderType
  <2>2. ClocksAreSound'
    BY <2>1 DEF ClocksAreSound
  <2>3. \A o \in Orders : Earned(o) => Earned(o)'
    BY <2>1, PolicyAssumption DEF Earned
  <2>4. TodoIsEarned'
    BY <1>8, <2>3 DEF Tick, StrikeInv, TodoIsEarned
  <2> QED BY <1>0, <2>2, <2>4 DEF StrikeInv
<1>9. ASSUME NEW o \in Orders, WixMoves(o) PROVE StrikeInv'
  BY <1>0, <1>9, StrikeKept DEF WixMoves
<1>10. ASSUME NEW o \in Orders, WebhookPays(o) PROVE StrikeInv'
  BY <1>0, <1>10, StrikeKept DEF WebhookPays
<1>11. ASSUME NEW o \in Orders, WebhookDeclines(o) PROVE StrikeInv'
  BY <1>0, <1>11, StrikeKept DEF WebhookDeclines
<1>12. ASSUME NEW o \in Orders, WebhookCancels(o) PROVE StrikeInv'
  <2>1. \A x \in Orders : clock'[x] = clock[x] \/ clock'[x] = Blank
    BY <1>0, <1>12 DEF WebhookCancels, TypeOK
  <2> QED BY <1>0, <1>12, <2>1, StrikeCleared DEF WebhookCancels
<1>13. ASSUME NEW t \in Orders \cup Seats, RunRevoke(t) PROVE StrikeInv'
  <2>1. \A x \in Orders : clock'[x] = clock[x] \/ clock'[x] = Blank
    BY <1>0, <1>13 DEF RunRevoke, TypeOK
  <2> QED BY <1>0, <1>13, <2>1, StrikeCleared DEF RunRevoke
<1>14. CASE UNCHANGED vars
  BY <1>0, <1>14, StrikeKept DEF vars
<1> QED
  BY <1>1, <1>2, <1>3, <1>4, <1>4a, <1>4b, <1>4c, <1>4d, <1>4e, <1>5, <1>6, <1>7, <1>8, <1>9, <1>10, <1>11, <1>12, <1>13, <1>14,
     FamiliesRideOnOrders DEF Next, SweepSteps, CascadeGoesOn

LEMMA OnlyEarnedAreQueued ==
  StrikeInv /\ [Next]_vars => [\A o \in Orders : o \in queue' \ queue => Earned(o)]_vars
<1> SUFFICES ASSUME StrikeInv, Next, NEW o \in Orders, o \in queue', o \notin queue PROVE Earned(o)
  BY DEF vars
<1>1. ASSUME NEW t \in Orders \cup Seats, Queue(t) PROVE Earned(o)
  <2>1. o = t
    BY <1>1 DEF Queue
  <2> QED BY <1>1, <2>1 DEF Queue, StrikeInv, TodoIsEarned
<1>2. ASSUME NEW s \in Seats, Mark(s) \/ CascadeGoesOn(s) PROVE Earned(o)
  <2>1. o = s
    BY <1>2 DEF Mark, CascadeGoesOn, CascadeMarks, CascadeQueues
  <2> QED BY <2>1, SweepAssumption
<1>3. CASE Start \/ ReadAgain \/ Judge \/ Settle \/ Log \/ Crash \/ Tick
  BY <1>3 DEF Start, ReadAgain, Judge, Settle, Log, Crash, Tick
<1>4. ASSUME NEW x \in Orders, \/ WixMoves(x) \/ WebhookPays(x) \/ WebhookDeclines(x) \/ WebhookCancels(x)
                               \/ CascadeLists(x) \/ CascadeDies(x)
      PROVE  Earned(o)
  BY <1>4 DEF WixMoves, WebhookPays, WebhookDeclines, WebhookCancels, CascadeLists, CascadeDies
<1>5. ASSUME NEW t \in Orders \cup Seats, RunRevoke(t) PROVE Earned(o)
  BY <1>5 DEF RunRevoke
<1> QED BY <1>1, <1>2, <1>3, <1>4, <1>5, FamiliesRideOnOrders DEF Next, SweepSteps

(* A sweep queues the removal of a member's own plan only when the strike  *)
(* has really been earned: the clock in the database, which may be of      *)
(* another life of the row, stopped late or never read, is no proof of it  *)
(* by itself; the invariant is that it never runs ahead.                   *)
THEOREM StrikesAreEarned == Spec => StrikeEarned
<1>1. Init => StrikeInv
  BY StrikeInit
<1>2. StrikeInv /\ [Next]_vars => StrikeInv'
  BY StrikeNext
<1>3. StrikeInv /\ [Next]_vars => [\A o \in Orders : o \in queue' \ queue => Earned(o)]_vars
  BY OnlyEarnedAreQueued
<1> QED BY <1>1, <1>2, <1>3, PTL DEF Spec, StrikeEarned

-----------------------------------------------------------------------------
(* Nobody who pays.                                                        *)

(* Every step that touches the sweep is one of its own.                    *)
LEMMA OnlySweepSteps ==
  ASSUME [Next]_vars
  PROVE  \/ Start \/ ReadAgain \/ Judge \/ (\E t \in Orders \cup Seats : Mark(t) \/ Queue(t))
         \/ Settle \/ Log \/ Crash \/ UNCHANGED sweep
BY DEF Next, SweepSteps, Tick, WixMoves, WebhookPays, WebhookDeclines, WebhookCancels, RunRevoke, vars,
       CascadeGoesOn, CascadeMarks, CascadeQueues, CascadeLists, CascadeDies

(* A mark and a revoke leave the sweep its batch and no target it had not. *)
LEMMA RemovingStep ==
  ASSUME TypeOK, NEW t \in Orders \cup Seats, Mark(t) \/ Queue(t)
  PROVE  /\ sweep.at = "remove" /\ sweep'.at = "remove"
         /\ sweep'.reads = sweep.reads /\ sweep'.batch = sweep.batch
         /\ sweep'.todo \cup sweep'.sent \subseteq sweep.todo \cup sweep.sent
<1>1. CASE Mark(t)
  <2>1. sweep.at = "remove" /\ sweep' = [sweep EXCEPT !.marked = {t}]
    BY <1>1 DEF Mark
  <2> QED BY <2>1
<1>2. CASE Queue(t)
  <2>1. PICK sent \in {sweep.sent, sweep.sent \cup {t}} :
          sweep' = [sweep EXCEPT !.todo = @ \ {t}, !.marked = {}, !.sent = sent]
    BY <1>2 DEF Queue
  <2>2. sweep.at = "remove" /\ t \in sweep.todo
    BY <1>2 DEF Queue
  <2>3. {"at", "todo", "sent", "reads", "batch"} \subseteq DOMAIN sweep
    BY <2>2 DEF TypeOK
  <2>4. sweep'.todo = sweep.todo \ {t} /\ sweep'.sent = sent
        /\ sweep'.at = "remove" /\ sweep'.reads = sweep.reads /\ sweep'.batch = sweep.batch
    BY <2>1, <2>2, <2>3
  <2> QED BY <2>2, <2>4
<1> QED BY <1>1, <1>2

(* What Judge leaves for the sweep to do.                                  *)
LEMMA JudgeShape ==
  ASSUME Judge
  PROVE  \E clocks :
           /\ sweep'.at = "remove" /\ sweep'.sent = {} /\ sweep'.marked = {} /\ sweep'.reads = sweep.reads
           /\ sweep'.batch = Batch(sweep.reads, sweep.mode, clocks)
           /\ sweep'.todo = {p.target : p \in ToRemove(Batch(sweep.reads, sweep.mode, clocks))}
<1>1. PICK readable \in BOOLEAN :
        LET b == Batch(sweep.reads, sweep.mode, IF readable THEN clock ELSE [x \in Orders |-> Blank])
        IN  sweep' = [at |-> "remove", reads |-> sweep.reads, mode |-> sweep.mode, batch |-> b,
                      anomaly |-> HoldReason(b) \in Anomalies, readable |-> readable,
                      census |-> {x \in Orders : row[x] = "active"},
                      todo |-> {p.target : p \in ToRemove(b)}, marked |-> {}, sent |-> {}]
  BY Zenon DEF Judge
<1> QED BY <1>1

(* A removal is of an order or a seat whose order the batch calls ended,   *)
(* and its proposal stands for the member and the read of that order.      *)
LEMMA RemovalOf ==
  ASSUME NEW reads, NEW mode, NEW clocks, NEW p \in ToRemove(Batch(reads, mode, clocks))
  PROVE  /\ p.target \in Orders \cup Seats
         /\ OrderOf(p.target) \in Orders
         /\ View(reads)[OrderOf(p.target)] = "ended"
         /\ p.unit = MemberOf[OrderOf(p.target)]
         /\ p.dataSource = ReadOf[OrderOf(p.target)]
<1> DEFINE b == Batch(reads, mode, clocks)
           a == [b EXCEPT !.proposals = {q \in @ : Armed(q)}, !.observe = FALSE]
           v == View(reads)
<1>1. p \in Proposals(v, row, clocks, seat, history)
  BY RemovedHaveStrikes
<1>2. p.class = "ended"
  <2>1. a.proposals = {q \in b.proposals : Armed(q)}
    BY DEF Batch
  <2>2. p \in Ready(a)
    BY DEF ToRemove, Flush
  <2> QED BY <2>1, <2>2 DEF Ready, Armed
<1>3. CASE \E x \in Orders : p = OwnProposal(v, clocks, x)
  <2>1. PICK x \in Orders : p = OwnProposal(v, clocks, x)
    BY <1>3
  <2>2. p.target = x /\ p.class = v[x] /\ p.unit = MemberOf[x] /\ p.dataSource = ReadOf[x]
    BY <2>1 DEF OwnProposal
  <2>3. OrderOf(x) = x
    BY SweepAssumption DEF OrderOf
  <2> QED BY <1>2, <2>2, <2>3
<1>4. CASE \E s \in Seats : p = SeatProposal(v, history, s)
  <2>1. PICK s \in Seats : p = SeatProposal(v, history, s)
    BY <1>4
  <2>2. p.target = s /\ p.class = v[RidesOn[s]] /\ p.unit = MemberOf[RidesOn[s]] /\ p.dataSource = "wix_orders"
    BY <2>1 DEF SeatProposal
  <2>3. OrderOf(s) = RidesOn[s] /\ RidesOn[s] \in Orders /\ ReadOf[RidesOn[s]] = "wix_orders"
    BY SweepAssumption DEF OrderOf
  <2> QED BY <1>2, <2>2, <2>3
<1> QED BY <1>1, <1>3, <1>4 DEF Proposals

LEMMA SpareInit == Init => SpareInv
BY TypeInit DEF Init, Idle, SpareInv, ReadsAreWhole, TargetsHaveEnded

LEMMA SpareNext == SpareInv /\ [Next]_vars => SpareInv'
<1> SUFFICES ASSUME SpareInv, [Next]_vars PROVE SpareInv'
  OBVIOUS
<1>0. TypeOK /\ TypeOK'
  BY TypeNext DEF SpareInv
<1> SUFFICES ReadsAreWhole' /\ TargetsHaveEnded'
  BY <1>0 DEF SpareInv
<1> USE DEF SpareInv, ReadsAreWhole, TargetsHaveEnded, Targets
<1>a. Reads \subseteq Answers
  BY <1>0 DEF Reads, TypeOK, Answers
<1>1. CASE Start
  BY <1>1, <1>a DEF Start
<1>2. CASE ReadAgain
  BY <1>2, <1>a DEF ReadAgain
<1>3. CASE Judge
  <2>1. PICK clocks :
          /\ sweep'.at = "remove" /\ sweep'.sent = {} /\ sweep'.reads = sweep.reads
          /\ sweep'.todo = {p.target : p \in ToRemove(Batch(sweep.reads, sweep.mode, clocks))}
    BY <1>3, JudgeShape
  <2>2. sweep.reads \in Answers \X Answers
    BY <1>3 DEF Judge
  <2>3. \A t \in Targets' : t \in Orders \cup Seats /\ View(sweep.reads)[OrderOf(t)] = "ended"
    BY <2>1, RemovalOf
  <2>4. \A t : View(sweep'.reads)[OrderOf(t)] = View(sweep.reads)[OrderOf(t)]
    BY <2>1
  <2> QED BY <2>1, <2>2, <2>3, <2>4 DEF OrderOf
<1>4. ASSUME NEW t \in Orders \cup Seats, Mark(t) \/ Queue(t) PROVE ReadsAreWhole' /\ TargetsHaveEnded'
  <2>1. sweep'.at = "remove" /\ sweep'.reads = sweep.reads /\ Targets' \subseteq Targets /\ sweep.at = "remove"
    BY <1>0, <1>4, RemovingStep DEF Targets
  <2> QED BY <2>1 DEF OrderOf, View
<1>5. CASE Settle
  <2>1. sweep'.at = "log" /\ sweep'.reads = sweep.reads /\ Targets' = Targets /\ sweep.at = "remove"
    BY <1>0, <1>5 DEF Settle, TypeOK
  <2> QED BY <2>1 DEF OrderOf, View
<1>6. CASE Log \/ Crash
  BY <1>6 DEF Log, Crash, Idle
<1>7. CASE UNCHANGED sweep
  BY <1>7 DEF OrderOf, View
<1> QED BY <1>1, <1>2, <1>3, <1>4, <1>5, <1>6, <1>7, OnlySweepSteps

(* What the better of two reads calls ended, neither calls paying or held. *)
LEMMA SpareStep == SpareInv => SpareThePaying
<1> SUFFICES ASSUME SpareInv, sweep.at \in {"remove", "log"}, NEW t \in sweep.sent
             PROVE  /\ \A i \in 1 .. 2 : sweep.reads[i][OrderOf(t)] \in Removable
                    /\ \E i \in 1 .. 2 : sweep.reads[i][OrderOf(t)] = "ended"
  BY DEF SpareThePaying
<1> DEFINE o == OrderOf(t)
<1>1. o \in Orders
  BY SweepAssumption DEF SpareInv, TargetsHaveEnded, Targets, OrderOf
<1>2. sweep.reads \in Answers \X Answers /\ View(sweep.reads)[o] = "ended"
  BY DEF SpareInv, ReadsAreWhole, TargetsHaveEnded, Targets
<1>3. Best(sweep.reads[1][o], sweep.reads[2][o]) = "ended"
  BY <1>1, <1>2 DEF View
<1>4. sweep.reads[1][o] \in {"paying", "held", "ended", "absent"} /\ sweep.reads[2][o] \in {"paying", "held", "ended", "absent"}
  BY <1>1, <1>2 DEF Answers
<1>5. /\ sweep.reads[1][o] \in Removable /\ sweep.reads[2][o] \in Removable
      /\ sweep.reads[1][o] = "ended" \/ sweep.reads[2][o] = "ended"
  BY <1>3, <1>4 DEF Best, Removable
<1>6. 1 .. 2 = {1, 2}
  OBVIOUS
<1> QED BY <1>5, <1>6

(* No sweep queues the removal of anyone whom either of its two reads of   *)
(* Wix shows as paying or as in payment trouble: one broken read is not    *)
(* enough.                                                                 *)
THEOREM ThePayingAreSpared == Spec => []SpareThePaying
<1>1. Init => SpareInv
  BY SpareInit
<1>2. SpareInv /\ [Next]_vars => SpareInv'
  BY SpareNext
<1>3. SpareInv => SpareThePaying
  BY SpareStep
<1> QED BY <1>1, <1>2, <1>3, PTL DEF Spec

-----------------------------------------------------------------------------
(* Never more than half at once.                                           *)

Members == {MemberOf[o] : o \in Orders}

LEMMA MembersFinite ==
  ASSUME NEW ms \in SUBSET Members
  PROVE  IsFiniteSet(ms) /\ Cardinality(ms) \in Nat
<1> DEFINE f == [o \in Orders |-> MemberOf[o]]
<1>1. f \in Surjection(Orders, Members)
  BY DEF Surjection, Members
<1>2. IsFiniteSet(Members)
  BY <1>1, FS_Surjection, SweepAssumption
<1>3. IsFiniteSet(ms)
  BY <1>2, FS_Subset
<1> QED BY <1>3, FS_CardinalityType

LEMMA FewerMembers ==
  ASSUME NEW S \in SUBSET Members, NEW T \in SUBSET S
  PROVE  Cardinality(T) \in Nat /\ Cardinality(S) \in Nat /\ Cardinality(T) <= Cardinality(S)
<1>1. T \in SUBSET Members
  OBVIOUS
<1>2. IsFiniteSet(S) /\ Cardinality(S) \in Nat /\ Cardinality(T) \in Nat
  BY <1>1, MembersFinite
<1> QED BY <1>2, FS_Subset

LEMMA UnitsAreMembers ==
  ASSUME NEW ts \in SUBSET (Orders \cup Seats)
  PROVE  /\ \A d \in DataSources : UnitsOn(ts, d) \in SUBSET Members
         /\ UNION {UnitsOn(ts, d) : d \in DataSources} \in SUBSET Members
<1>1. \A t \in ts : OrderOf(t) \in Orders
  BY SweepAssumption DEF OrderOf
<1> QED BY <1>1 DEF UnitsOn, Members

LEMMA HalfOfFewer ==
  ASSUME NEW S \in SUBSET Members, NEW T \in SUBSET S, NEW n \in Nat, AtMostHalf(S, n)
  PROVE  AtMostHalf(T, n)
BY FewerMembers DEF AtMostHalf

(* Of a removal within half, every part is within half.                    *)
LEMMA SparingFewer ==
  ASSUME NEW S \in SUBSET (Orders \cup Seats), NEW T \in SUBSET S, Sparing(S),
         sweep.batch.managed \in Nat, \A d \in DataSources : sweep.batch.pop[d] \in Nat
  PROVE  Sparing(T)
<1>1. \A d \in DataSources : UnitsOn(T, d) \in SUBSET UnitsOn(S, d)
  BY DEF UnitsOn
<1>2. UNION {UnitsOn(T, d) : d \in DataSources} \in SUBSET UNION {UnitsOn(S, d) : d \in DataSources}
  BY <1>1
<1>3. \A d \in DataSources : AtMostHalf(UnitsOn(T, d), sweep.batch.pop[d])
  BY <1>1, UnitsAreMembers, HalfOfFewer DEF Sparing
<1>4. AtMostHalf(UNION {UnitsOn(T, d) : d \in DataSources}, sweep.batch.managed)
  BY <1>2, UnitsAreMembers, HalfOfFewer DEF Sparing
<1> QED BY <1>3, <1>4 DEF Sparing

(* The units of a batch are members of the client, and so are the members  *)
(* at risk.                                                                *)
LEMMA BatchUnits ==
  ASSUME NEW reads, NEW mode, NEW clocks, NEW b, b = Batch(reads, mode, clocks)
  PROVE  /\ UnitsOf(b.proposals) \in SUBSET Members
         /\ b.managed \in Nat
         /\ DOMAIN b.pop = DataSources /\ \A d \in DataSources : b.pop[d] \in Nat
<1> DEFINE v == View(reads)
           pop == Population(v, row, seat)
<1>1. \A d \in DataSources : pop[d] \in SUBSET Members
  BY SweepAssumption DEF Population, Members
<1>2. b.managed = Cardinality(UNION {pop[d] : d \in DataSources})
  BY DEF Batch
<1>3. b.pop = [d \in DataSources |-> Cardinality(pop[d])]
  BY DEF Batch
<1>4. UnitsOf(b.proposals) \in SUBSET Members
  <2>1. b.proposals = Proposals(v, row, clocks, seat, history)
    BY DEF Batch
  <2>2. \A o \in Orders : OwnProposal(v, clocks, o).unit \in Members
    BY DEF OwnProposal, Members
  <2>3. \A s \in Seats : SeatProposal(v, history, s).unit \in Members
    BY SweepAssumption DEF SeatProposal, Members
  <2> QED BY <2>1, <2>2, <2>3 DEF UnitsOf, Proposals
<1>5. UNION {pop[d] : d \in DataSources} \in SUBSET Members
  BY <1>1
<1>6. b.managed \in Nat
  BY <1>2, <1>5, MembersFinite
<1>7. \A d \in DataSources : b.pop[d] \in Nat
  BY <1>1, <1>3, MembersFinite
<1> QED BY <1>3, <1>4, <1>6, <1>7

(* Too many is more than half.                                             *)
LEMMA NotTooMany ==
  ASSUME NEW S \in SUBSET Members, NEW n \in Nat, ~TooMany(S, n)
  PROVE  AtMostHalf(S, n)
<1>1. Cardinality(S) \in Nat
  BY MembersFinite
<1>2. n >= 2 => Cardinality(S) < (n \div 2) + 1
  BY <1>1 DEF TooMany, MassThreshold
<1>3. n \div 2 \in Nat /\ 2 * (n \div 2) <= n
  OBVIOUS
<1> QED BY <1>1, <1>2, <1>3 DEF AtMostHalf

(* What a batch lets go is within half of its populations.                 *)
LEMMA FlushIsSparing ==
  ASSUME NEW reads, NEW mode, NEW clocks, NEW b, b = Batch(reads, mode, clocks),
         NEW ts, ts = {p.target : p \in ToRemove(b)}
  PROVE  /\ \A d \in DataSources : AtMostHalf(UnitsOn(ts, d), b.pop[d])
         /\ AtMostHalf(UNION {UnitsOn(ts, d) : d \in DataSources}, b.managed)
<1> DEFINE a == [b EXCEPT !.proposals = {q \in @ : Armed(q)}, !.observe = FALSE]
<1>1. /\ UnitsOf(b.proposals) \in SUBSET Members /\ b.managed \in Nat
      /\ DOMAIN b.pop = DataSources /\ \A d \in DataSources : b.pop[d] \in Nat
  BY BatchUnits
<1>2. a.proposals \subseteq b.proposals /\ a.pop = b.pop /\ a.managed = b.managed
  BY DEF Batch
<1>3. CASE ToRemove(b) = {}
  <2>1. ts = {}
    BY <1>3
  <2>2. \A d \in DataSources : UnitsOn(ts, d) = {}
    BY <2>1 DEF UnitsOn
  <2>3. UNION {UnitsOn(ts, d) : d \in DataSources} = {}
    BY <2>2
  <2>4. \A n \in Nat : AtMostHalf({}, n)
    BY FS_EmptySet DEF AtMostHalf
  <2>5. \A d \in DataSources : AtMostHalf(UnitsOn(ts, d), b.pop[d])
    BY <1>1, <2>2, <2>4
  <2>6. AtMostHalf(UNION {UnitsOn(ts, d) : d \in DataSources}, b.managed)
    BY <1>1, <2>3, <2>4
  <2> QED BY <2>5, <2>6
<1>4. CASE ToRemove(b) # {}
  <2>1. ToRemove(b) = Flush(a)
    BY <1>4 DEF ToRemove
  <2>2. ToRemove(b) \subseteq a.proposals /\ HoldReason(a) = "none"
    BY <1>4, <2>1 DEF Flush, Ready
  <2>3. ~Mass(a)
    <3> HIDE DEF a
    <3> QED BY <1>4, <2>2 DEF HoldReason
  <2>4. ~TooMany(UnitsOf(a.proposals), b.managed)
        /\ \A d \in DataSources : ~TooMany(UnitsOf(From(a.proposals, d)), b.pop[d])
    <3> HIDE DEF a
    <3> QED BY <1>1, <1>2, <2>3 DEF Mass
  <2>5. \A t \in ts : \E p \in a.proposals : p.unit = MemberOf[OrderOf(t)] /\ p.dataSource = ReadOf[OrderOf(t)]
    BY <2>2, RemovalOf
  <2> HIDE DEF a
  <2>6. UnitsOf(a.proposals) \in SUBSET Members /\ \A d : UnitsOf(From(a.proposals, d)) \in SUBSET Members
    BY <1>1, <1>2 DEF UnitsOf, From
  <2>7. \A d \in DataSources : UnitsOn(ts, d) \in SUBSET UnitsOf(From(a.proposals, d))
    BY <2>5 DEF UnitsOn, UnitsOf, From
  <2>8. UNION {UnitsOn(ts, d) : d \in DataSources} \in SUBSET UnitsOf(a.proposals)
    BY <2>5 DEF UnitsOn, UnitsOf
  <2>9. \A d \in DataSources : AtMostHalf(UnitsOn(ts, d), b.pop[d])
    BY <1>1, <2>4, <2>6, <2>7, NotTooMany, HalfOfFewer
  <2>10. AtMostHalf(UNION {UnitsOn(ts, d) : d \in DataSources}, b.managed)
    BY <1>1, <2>4, <2>6, <2>8, NotTooMany, HalfOfFewer
  <2> QED BY <2>9, <2>10
<1> QED BY <1>3, <1>4

LEMMA CapInit == Init => CapInv
BY TypeInit DEF Init, Idle, CapInv

LEMMA CapNext == CapInv /\ [Next]_vars => CapInv'
<1> SUFFICES ASSUME CapInv, [Next]_vars, sweep'.at \in {"remove", "log"}
             PROVE  /\ Targets' \subseteq Orders \cup Seats
                    /\ sweep'.batch.managed \in Nat /\ \A d \in DataSources : sweep'.batch.pop[d] \in Nat
                    /\ Sparing(Targets)'
  BY TypeNext DEF CapInv
<1>0. TypeOK
  BY DEF CapInv
<1>1. CASE Start \/ ReadAgain \/ Log \/ Crash
  <2>1. CASE Start
    BY <2>1 DEF Start
  <2>2. CASE ReadAgain
    BY <2>2 DEF ReadAgain
  <2>3. CASE Log \/ Crash
    BY <2>3 DEF Log, Crash, Idle
  <2> QED BY <1>1, <2>1, <2>2, <2>3
<1>2. CASE Judge
  <2>1. PICK clocks :
          /\ sweep'.at = "remove" /\ sweep'.sent = {} /\ sweep'.reads = sweep.reads
          /\ sweep'.batch = Batch(sweep.reads, sweep.mode, clocks)
          /\ sweep'.todo = {p.target : p \in ToRemove(Batch(sweep.reads, sweep.mode, clocks))}
    BY <1>2, JudgeShape
  <2> DEFINE b == Batch(sweep.reads, sweep.mode, clocks)
             ts == {p.target : p \in ToRemove(b)}
  <2>2. ts \subseteq Orders \cup Seats
    BY RemovalOf
  <2>3. b.managed \in Nat /\ \A d \in DataSources : b.pop[d] \in Nat
    BY BatchUnits
  <2>4. Targets' = ts /\ sweep'.batch = b
    BY <2>1 DEF Targets
  <2>5. /\ \A d \in DataSources : AtMostHalf(UnitsOn(ts, d), b.pop[d])
        /\ AtMostHalf(UNION {UnitsOn(ts, d) : d \in DataSources}, b.managed)
    BY FlushIsSparing
  <2> HIDE DEF b, ts
  <2>6. Sparing(Targets)'
    BY <2>4, <2>5 DEF Sparing, UnitsOn, OrderOf
  <2> QED BY <2>2, <2>3, <2>4, <2>6
<1>3. CASE (\E t \in Orders \cup Seats : Mark(t) \/ Queue(t)) \/ Settle \/ UNCHANGED sweep
  <2>1. sweep.at \in {"remove", "log"} /\ sweep'.batch = sweep.batch /\ Targets' \subseteq Targets
    <3>1. CASE \E t \in Orders \cup Seats : Mark(t) \/ Queue(t)
      BY <1>0, <3>1, RemovingStep DEF Targets
    <3>2. CASE Settle
      BY <1>0, <3>2 DEF Settle, TypeOK, Targets
    <3>3. CASE UNCHANGED sweep
      BY <3>3 DEF Targets
    <3> QED BY <1>3, <3>1, <3>2, <3>3
  <2>2. Sparing(Targets')
    BY <2>1, SparingFewer DEF CapInv
  <2> QED BY <2>1, <2>2 DEF CapInv, Sparing, UnitsOn, OrderOf
<1> QED BY <1>1, <1>2, <1>3, OnlySweepSteps

(* What was sent is part of what was to be removed.                        *)
LEMMA CapStep == CapInv => NeverHalfAtOnce
<1> SUFFICES ASSUME CapInv, sweep.at \in {"remove", "log"} PROVE Sparing(sweep.sent)
  BY DEF NeverHalfAtOnce
<1>1. sweep.sent \in SUBSET Targets
  BY DEF Targets
<1> QED BY <1>1, SparingFewer DEF CapInv

(* Whatever a sweep read, it queues the removal of at most half of the     *)
(* members at risk, of each read and in all (units of two or more).        *)
THEOREM HalfStay == Spec => []NeverHalfAtOnce
<1>1. Init => CapInv
  BY CapInit
<1>2. CapInv /\ [Next]_vars => CapInv'
  BY CapNext
<1>3. CapInv => NeverHalfAtOnce
  BY CapStep
<1> QED BY <1>1, <1>2, <1>3, PTL DEF Spec

-----------------------------------------------------------------------------
(* A seat marked for removal and the revoke that is to remove it.          *)

LEMMA SeatsStranded ==
  ASSUME NEW A \in SUBSET Seats, NEW B \in SUBSET Seats, NEW n \in Nat, Cardinality(A) <= n
  PROVE  /\ B \subseteq A => Cardinality(B) <= n
         /\ \A x : B \subseteq A \cup {x} => Cardinality(B) <= n + 1
<1>1. IsFiniteSet(A) /\ Cardinality(A) \in Nat /\ IsFiniteSet(B) /\ Cardinality(B) \in Nat
  BY SweepAssumption, FS_Subset, FS_CardinalityType
<1>2. B \subseteq A => Cardinality(B) <= n
  BY <1>1, FS_Subset
<1>3. ASSUME NEW x, B \subseteq A \cup {x} PROVE Cardinality(B) <= n + 1
  <2>1. IsFiniteSet(A \cup {x}) /\ Cardinality(A \cup {x}) <= Cardinality(A) + 1 /\ Cardinality(A \cup {x}) \in Nat
    <3>1. IsFiniteSet(A \cup {x})
          /\ Cardinality(A \cup {x}) = IF x \in A THEN Cardinality(A) ELSE Cardinality(A) + 1
      BY <1>1, FS_AddElement
    <3> QED BY <1>1, <3>1
  <2>2. Cardinality(B) <= Cardinality(A \cup {x})
    BY <1>3, <2>1, FS_Subset
  <2> QED BY <1>1, <2>1, <2>2
<1> QED BY <1>2, <1>3

(* A step that strands nobody, and one that strands at most one and is a   *)
(* death.                                                                  *)
LEMMA StrandedKept ==
  ASSUME MarkInv, TypeOK', MarksAreSingle',
         \/ Stranded' \subseteq Stranded /\ deaths' \in {deaths, deaths + 1}
         \/ deaths' = deaths + 1 /\ \E x : Stranded' \subseteq Stranded \cup {x}
  PROVE  MarkInv'
<1>1. Stranded \in SUBSET Seats /\ Stranded' \in SUBSET Seats /\ deaths \in Nat
  BY DEF Stranded, MarkInv, TypeOK
<1>2. Cardinality(Stranded) <= deaths
  BY DEF MarkInv, DeathsStrandOne
<1> HIDE DEF Stranded
<1>3. CASE Stranded' \subseteq Stranded /\ deaths' \in {deaths, deaths + 1}
  <2>1. Cardinality(Stranded') <= deaths /\ Cardinality(Stranded') \in Nat
    BY <1>1, <1>2, <1>3, SeatsStranded, SweepAssumption, FS_Subset, FS_CardinalityType
  <2> QED BY <1>1, <1>3, <2>1 DEF MarkInv, DeathsStrandOne
<1>4. CASE deaths' = deaths + 1 /\ \E x : Stranded' \subseteq Stranded \cup {x}
  <2>1. Cardinality(Stranded') <= deaths + 1
    BY <1>1, <1>2, <1>4, SeatsStranded
  <2> QED BY <1>4, <2>1 DEF MarkInv, DeathsStrandOne
<1> QED BY <1>3, <1>4

LEMMA MarkInit == Init => MarkInv
<1> SUFFICES ASSUME Init PROVE MarkInv
  OBVIOUS
<1>1. TypeOK /\ MarksAreSingle /\ Stranded = {} /\ deaths = 0
  BY TypeInit DEF Init, Idle, MarksAreSingle, Stranded
<1> QED BY <1>1, FS_EmptySet DEF MarkInv, DeathsStrandOne

LEMMA MarkNext == MarkInv /\ [Next]_vars => MarkInv'
<1> SUFFICES ASSUME MarkInv, [Next]_vars PROVE MarkInv'
  OBVIOUS
<1>0. TypeOK /\ TypeOK' /\ MarksAreSingle /\ seat \in [Seats -> {"active", "removing", "gone"}]
      /\ Orders \cap Seats = {} /\ cascade \in [listed : SUBSET Seats, marked : SUBSET Seats]
      /\ RidesOn \in [Seats -> Orders]
  BY TypeNext, SweepAssumption DEF MarkInv, TypeOK
<1>1. ASSUME NEW s \in Seats, Mark(s) PROVE MarkInv'
  <2>1. sweep.at = "remove" /\ sweep'.at = "remove" /\ sweep.marked = {} /\ sweep'.marked = {s}
        /\ sweep'.todo = sweep.todo /\ s \in sweep.todo
    BY <1>0, <1>1 DEF Mark, TypeOK
  <2>2. MarksAreSingle'
    BY <1>0, <1>1, <2>1 DEF MarksAreSingle, Mark
  <2>3. Stranded' \subseteq Stranded
    BY <1>0, <1>1, <2>1 DEF Stranded, Marking, Mark
  <2> QED BY <1>0, <1>1, <2>2, <2>3, StrandedKept DEF Mark
<1>2. ASSUME NEW t \in Orders \cup Seats, Queue(t) PROVE MarkInv'
  <2>1. sweep.at = "remove" /\ sweep'.at = "remove" /\ sweep.marked = {t} \cap Seats /\ sweep'.marked = {}
    BY <1>0, <1>2 DEF Queue, TypeOK
  <2>2. MarksAreSingle'
    BY <1>0, <1>2, <2>1 DEF MarksAreSingle, Queue
  <2>3. CASE t \in queue'
    <3>1. Stranded' \subseteq Stranded
      BY <1>0, <1>2, <2>1, <2>3 DEF Stranded, Marking, Queue
    <3> QED BY <1>0, <1>2, <2>2, <3>1, StrandedKept DEF Queue
  <2>4. CASE t \in Orders
    <3>1. Stranded' \subseteq Stranded
      BY <1>0, <1>2, <2>1, <2>4 DEF Stranded, Marking, Queue
    <3> QED BY <1>0, <1>2, <2>2, <2>4, <3>1, StrandedKept DEF Queue
  <2>5. CASE t \in Seats /\ t \notin queue'
    <3>1. deaths' = deaths + 1
      BY <1>0, <1>2, <2>5 DEF Queue
    <3>2. Stranded' \subseteq Stranded \cup {t}
      BY <1>0, <1>2, <2>1 DEF Stranded, Marking, Queue
    <3> QED BY <1>0, <2>2, <3>1, <3>2, StrandedKept
  <2> QED BY <2>3, <2>4, <2>5
<1>3. CASE Crash
  <2>1. sweep'.at = "idle"
    BY <1>3 DEF Crash, Idle
  <2>2. MarksAreSingle'
    BY <1>0, <1>3, <2>1 DEF MarksAreSingle, Crash
  <2>3. CASE sweep.at = "remove" /\ sweep.marked # {}
    <3>1. PICK x \in sweep.marked : sweep.marked \subseteq {x}
      BY <1>0, <2>3 DEF MarksAreSingle
    <3>2. Stranded' \subseteq Stranded \cup {x}
      BY <1>3, <2>1, <3>1 DEF Stranded, Marking, Crash
    <3>3. deaths' = deaths + 1
      BY <1>3, <2>3 DEF Crash
    <3> QED BY <1>0, <2>2, <3>2, <3>3, StrandedKept
  <2>4. CASE ~(sweep.at = "remove" /\ sweep.marked # {})
    <3>1. Stranded' \subseteq Stranded /\ deaths' = deaths
      BY <1>3, <2>1, <2>4 DEF Stranded, Marking, Crash
    <3> QED BY <1>0, <2>2, <3>1, StrandedKept
  <2> QED BY <2>3, <2>4
<1>4. ASSUME NEW s \in Seats, CascadeMarks(s) PROVE MarkInv'
  <2>1. MarksAreSingle'
    BY <1>0, <1>4 DEF MarksAreSingle, CascadeMarks, SeatsOn
  <2>2. Stranded' \subseteq Stranded
    BY <1>0, <1>4 DEF Stranded, Marking, CascadeMarks
  <2> QED BY <1>0, <1>4, <2>1, <2>2, StrandedKept DEF CascadeMarks
<1>5. ASSUME NEW s \in Seats, CascadeQueues(s) PROVE MarkInv'
  <2>1. MarksAreSingle'
    BY <1>0, <1>5 DEF MarksAreSingle, CascadeQueues
  <2>2. Stranded' \subseteq Stranded \cup {s} /\ (s \in queue' => Stranded' \subseteq Stranded)
    BY <1>0, <1>5 DEF Stranded, Marking, CascadeQueues
  <2>3. deaths' = deaths + 1 \/ (deaths' = deaths /\ s \in queue')
    BY <1>5 DEF CascadeQueues
  <2> QED BY <1>0, <2>1, <2>2, <2>3, StrandedKept
<1>6. ASSUME NEW o \in Orders, CascadeDies(o) PROVE MarkInv'
  <2>1. MarksAreSingle'
    BY <1>0, <1>6 DEF MarksAreSingle, CascadeDies
  <2>2. CASE cascade.marked \cap SeatsOn(o) # {}
    <3>1. PICK x \in cascade.marked \cap SeatsOn(o) : TRUE
      BY <2>2
    <3>2. cascade.marked \cap SeatsOn(o) \subseteq {x}
      BY <1>0, <3>1 DEF MarksAreSingle, SeatsOn
    <3>3. Stranded' \subseteq Stranded \cup {x} /\ deaths' = deaths + 1
      BY <1>6, <2>2, <3>2 DEF Stranded, Marking, CascadeDies
    <3> QED BY <1>0, <2>1, <3>3, StrandedKept
  <2>3. CASE cascade.marked \cap SeatsOn(o) = {}
    <3>1. Stranded' \subseteq Stranded /\ deaths' = deaths
      BY <1>6, <2>3 DEF Stranded, Marking, CascadeDies
    <3> QED BY <1>0, <2>1, <3>1, StrandedKept
  <2> QED BY <2>2, <2>3
<1>7. ASSUME NEW o \in Orders, CascadeLists(o) PROVE MarkInv'
  <2>1. MarksAreSingle' /\ Stranded' \subseteq Stranded
    BY <1>0, <1>7 DEF MarksAreSingle, Stranded, Marking, CascadeLists
  <2> QED BY <1>0, <1>7, <2>1, StrandedKept DEF CascadeLists
<1>8. ASSUME NEW t \in Orders \cup Seats, RunRevoke(t) PROVE MarkInv'
  <2>1. MarksAreSingle' /\ Stranded' \subseteq Stranded
    BY <1>0, <1>8 DEF MarksAreSingle, Stranded, Marking, RunRevoke
  <2> QED BY <1>0, <1>8, <2>1, StrandedKept DEF RunRevoke
<1>9. CASE Start \/ ReadAgain \/ Judge \/ Settle \/ Log
  <2>1. /\ UNCHANGED <<seat, queue, cascade, deaths>>
        /\ sweep'.at = "remove" => sweep'.marked = {}
    <3>1. CASE Judge
      <4>1. sweep'.marked = {}
        BY <3>1, JudgeShape
      <4> QED BY <3>1, <4>1 DEF Judge
    <3>2. CASE Settle
      <4>1. sweep.at = "remove" /\ sweep' = [sweep EXCEPT !.at = "log"]
            /\ UNCHANGED <<seat, queue, cascade, deaths>>
        BY <3>2 DEF Settle
      <4>2. "at" \in DOMAIN sweep
        BY <1>0, <4>1 DEF TypeOK
      <4> QED BY <4>1, <4>2
    <3>3. CASE Start
      BY <3>3 DEF Start
    <3>4. CASE ReadAgain
      BY <3>4 DEF ReadAgain
    <3>5. CASE Log
      BY <3>5 DEF Log, Idle
    <3> QED BY <1>9, <3>1, <3>2, <3>3, <3>4, <3>5
  <2>2. sweep.at = "remove" => sweep.marked = {}
    BY <1>0, <1>9 DEF Start, ReadAgain, Judge, Settle, Log, Idle, MarksAreSingle
  <2>3. MarksAreSingle' /\ Stranded' \subseteq Stranded
    BY <1>0, <2>1, <2>2 DEF MarksAreSingle, Stranded, Marking
  <2> QED BY <1>0, <2>1, <2>3, StrandedKept
<1>10. ASSUME UNCHANGED <<seat, queue, cascade, sweep, deaths>> PROVE MarkInv'
  <2>1. MarksAreSingle' /\ Stranded' \subseteq Stranded
    BY <1>0, <1>10 DEF MarksAreSingle, Stranded, Marking
  <2> QED BY <1>0, <1>10, <2>1, StrandedKept
<1>11. CASE Tick \/ UNCHANGED vars
  BY <1>10, <1>11 DEF Tick, vars
<1>12. ASSUME NEW o \in Orders, WixMoves(o) \/ WebhookPays(o) \/ WebhookDeclines(o) \/ WebhookCancels(o)
       PROVE  MarkInv'
  BY <1>10, <1>12 DEF WixMoves, WebhookPays, WebhookDeclines, WebhookCancels
<1> QED
  BY <1>1, <1>2, <1>3, <1>4, <1>5, <1>6, <1>7, <1>8, <1>9, <1>11, <1>12,
     FamiliesRideOnOrders DEF Next, SweepSteps, CascadeGoesOn

(* A seat without its revoke is left only by a death of the sweep or of    *)
(* the cancellation's job between the mark and the queue, or a refusal of  *)
(* the queue, and each leaves at most one, for every number of families,   *)
(* seats and faults and however the two and the worker cross.              *)
THEOREM MarkedHaveTheirRevoke == Spec => []DeathsStrandOne
<1>1. Init => MarkInv
  BY MarkInit
<1>2. MarkInv /\ [Next]_vars => MarkInv'
  BY MarkNext
<1>3. MarkInv => DeathsStrandOne
  BY DEF MarkInv
<1> QED BY <1>1, <1>2, <1>3, PTL DEF Spec

-----------------------------------------------------------------------------
(* SweepRun: what the variables hold.                                      *)

By == Procs \cup {Manual}

Syncs ==
  [by : By, gym : Gyms, at : {"acquire", "read", "rows", "look", "insert", "grant"},
   locked : BOOLEAN, paying : BOOLEAN, missing : BOOLEAN, owing : BOOLEAN]

Sweeps ==
  [at : {"idle", "sync", "lockdown", "records", "digest", "send"},
   due : SUBSET Gyms, todo : SUBSET Gyms, paying : SUBSET Gyms, gym : Gyms \cup {Nobody}]

Persons ==
  [pays : BOOLEAN, role : BOOLEAN, row : {"none", "active", "in_flight", "recovery", "failed"},
   sighted : BOOLEAN]

Alerts == [open : Nat, quiet : BOOLEAN, door : BOOLEAN]
Mails  == [sent : 0 .. 2, logged : BOOLEAN]

SweepShape ==
  /\ sweepLeft \in SweepScenario
  /\ person \in [Gyms -> Persons]
  /\ alerts \in [Gyms -> Alerts]
  /\ clientLock \in [Gyms -> By \cup {Nobody}]
  /\ mails \in [Gyms -> Mails]
  /\ syncs \subseteq Syncs
  /\ sweeps \in [Procs -> Sweeps]
  /\ \A p \in Procs : sweeps[p].at = "send" => sweeps[p].gym \in Gyms

(* A process, and whoever syncs by hand, has one sync at a time, of a gym  *)
(* its sweep was to do.                                                    *)
OneSyncEach ==
  /\ \A s, t \in syncs : s.by = t.by => s = t
  /\ \A s \in syncs : s.by \in Procs => sweeps[s.by].at = "sync" /\ s.gym \in sweeps[s.by].due
  /\ \A p \in Procs : /\ sweeps[p].at = "sync" => sweeps[p].todo \subseteq sweeps[p].due
                      /\ sweeps[p].paying \subseteq sweeps[p].due

(* A sync past the lock holds it, or the lock could not be asked for.      *)
LocksAreHeld ==
  \A s \in syncs :
    /\ s.locked => s.at # "acquire" /\ clientLock[s.gym] = s.by
    /\ s.at # "acquire" /\ "lockdb" \notin sweepHappened => s.locked

(* Who is about to insert an alert finds the table as it was looked at.    *)
OneAlert ==
  "lockdb" \notin sweepHappened =>
    /\ \A g \in Gyms : alerts[g].open <= 1
    /\ \A s \in syncs : s.at = "insert" => alerts[s.gym].open = 0 /\ ~alerts[s.gym].quiet

OneSweep ==
  "overlap" \notin sweepHappened =>
    \A p, q \in Procs : sweeps[p].at # "idle" /\ sweeps[q].at # "idle" => p = q

(* A mail that went out is in the log; who is about to send has not sent.  *)
OneMail ==
  /\ \A g \in Gyms : mails[g].logged => mails[g].sent > 0
  /\ "log" \notin sweepHappened => \A g \in Gyms : mails[g].sent > 0 => mails[g].logged
  /\ sweepHappened \cap {"overlap", "log"} = {} =>
       /\ \A g \in Gyms : mails[g].sent <= 1
       /\ \A p \in Procs : sweeps[p].at = "send" => mails[sweeps[p].gym].sent = 0

SweepRunInv == SweepShape /\ OneSyncEach /\ LocksAreHeld /\ OneAlert /\ OneSweep /\ OneMail

-----------------------------------------------------------------------------
(* SweepRun: how the parts of the state may change.                        *)

LEMMA SweepBudget ==
  ASSUME sweepLeft \in SweepScenario
  PROVE  /\ \A f : SweepFault(f) => sweepLeft' \in SweepScenario /\ sweepHappened \subseteq sweepHappened'
         /\ Well => sweepLeft' \in SweepScenario /\ sweepHappened \subseteq sweepHappened'
         /\ sweepLeft.moves > 0 => [sweepLeft EXCEPT !.moves = @ - 1] \in SweepScenario
         /\ sweepLeft.manual > 0 => [sweepLeft EXCEPT !.manual = @ - 1] \in SweepScenario
<1>1. \A n \in Nat : n > 0 => n - 1 \in Nat
  OBVIOUS
<1> QED BY <1>1 DEF SweepFault, Well, SweepScenario

(* What may happen to the members: rows and roles, nothing else.           *)
LEMMA MembersSteps ==
  ASSUME SweepShape, NEW g \in Gyms, Moves(g) \/ GrantStep(g) \/ GrantFails(g)
  PROVE  /\ SweepShape' /\ sweepHappened \subseteq sweepHappened'
         /\ UNCHANGED <<alerts, mails, clientLock, syncs, sweeps>>
<1>1. sweepLeft' \in SweepScenario /\ sweepHappened \subseteq sweepHappened'
  BY SweepBudget DEF SweepShape, Moves, GrantStep, GrantFails
<1>2. UNCHANGED <<alerts, mails, clientLock, syncs, sweeps>>
  BY DEF Moves, GrantStep, GrantFails, records
<1>3. person' \in [Gyms -> Persons]
  <2>1. person[g] \in Persons
    BY DEF SweepShape
  <2>2. \/ UNCHANGED person
        \/ \E b \in BOOLEAN : person' = [person EXCEPT ![g].pays = b]
        \/ \E b \in BOOLEAN : person' = [person EXCEPT ![g].role = b]
        \/ \E r \in {"active", "in_flight", "failed"} : person' = [person EXCEPT ![g].row = r]
    BY <2>1 DEF Moves, GrantStep, GrantFails, Persons
  <2> QED BY <2>1, <2>2 DEF SweepShape, Persons
<1> QED BY <1>1, <1>2, <1>3 DEF SweepShape

(* A step of a sync: what it does to the syncs.                            *)
Steps(s, t) == s \in syncs /\ t \in Syncs /\ t.by = s.by /\ t.gym = s.gym /\ syncs' = (syncs \ {s}) \cup {t}
Leaves(s)   == s \in syncs /\ syncs' = syncs \ {s}

LEMMA SyncSteps ==
  ASSUME SweepShape, NEW s \in syncs, SyncStep(s)
  PROVE  \/ Leaves(s) /\ UNCHANGED alerts
         \/ \E t \in Syncs : /\ Steps(s, t) /\ t.at # "acquire"
                             /\ \/ t.at \notin {"insert"} /\ UNCHANGED alerts
                                \/ s.at = "look" /\ t.at = "insert" /\ MayAlert(s.gym) /\ UNCHANGED alerts
                                \/ s.at = "insert" /\ t.at = "grant" /\ alerts' = [alerts EXCEPT ![s.gym].open = @ + 1]
<1>1. s \in Syncs /\ person[s.gym] \in Persons
  BY DEF SweepShape, Syncs
<1> USE <1>1
<1>2. CASE Acquire(s)
  <2>1. [s EXCEPT !.at = "read", !.locked = TRUE] \in Syncs /\ [s EXCEPT !.at = "read"] \in Syncs
    BY DEF Syncs
  <2> QED BY <1>2, <2>1 DEF Acquire, Goes, Over, Steps, Leaves, records, Syncs
<1>3. CASE Read(s)
  <2> DEFINE p == person[s.gym]
             t == [s EXCEPT !.at = "rows", !.paying = p.pays, !.missing = p.pays /\ ~p.role,
                            !.owing = ~p.pays /\ p.row = "active" /\ (p.role \/ p.sighted)]
  <2>1. t \in Syncs /\ t.by = s.by /\ t.gym = s.gym /\ t.at = "rows"
    BY DEF Syncs, Persons
  <2>2. UNCHANGED alerts /\ (syncs' = (syncs \ {s}) \cup {t} \/ syncs' = syncs \ {s})
    BY <1>3 DEF Read, Goes, Over, records
  <2> HIDE DEF t
  <2> QED BY <2>1, <2>2 DEF Steps, Leaves
<1>4. CASE Rows(s)
  <2>1. [s EXCEPT !.at = "look"] \in Syncs
    BY DEF Syncs
  <2> QED BY <1>4, <2>1 DEF Rows, Goes, Steps, records, Syncs
<1>5. CASE Look(s)
  <2>1. [s EXCEPT !.at = "insert"] \in Syncs /\ [s EXCEPT !.at = "grant"] \in Syncs
    BY DEF Syncs
  <2> QED BY <1>5, <2>1 DEF Look, Goes, Steps, records, Syncs
<1>6. CASE Insert(s)
  <2>1. [s EXCEPT !.at = "grant"] \in Syncs
    BY DEF Syncs
  <2> QED BY <1>6, <2>1 DEF Insert, Goes, Steps, Syncs
<1>7. CASE Close(s)
  BY <1>7 DEF Close, Over, Leaves
<1> QED BY <1>2, <1>3, <1>4, <1>5, <1>6, <1>7 DEF SyncStep

LEMMA SyncShape ==
  ASSUME SweepShape, NEW s \in syncs, SyncStep(s)
  PROVE  /\ SweepShape' /\ sweepHappened \subseteq sweepHappened' /\ UNCHANGED mails
         /\ \/ UNCHANGED sweeps
            \/ s.by \in Procs /\ sweeps' = [sweeps EXCEPT ![s.by].paying = @ \cup {s.gym}]
<1>1. s \in Syncs /\ s.gym \in Gyms /\ person[s.gym] \in Persons
  BY DEF SweepShape, Syncs
<1>2. sweepLeft' \in SweepScenario /\ sweepHappened \subseteq sweepHappened'
  BY SweepBudget DEF SweepShape, SyncStep, Acquire, Read, Rows, Look, Insert, Close
<1>3. person' \in [Gyms -> Persons]
  <2>1. Sighted(person[s.gym]) \in Persons /\ RolledUp(person[s.gym]) \in Persons
    BY <1>1 DEF Sighted, RolledUp, Persons
  <2>2. person' = person \/ person' = [person EXCEPT ![s.gym] = Sighted(@)] \/ person' = [person EXCEPT ![s.gym] = RolledUp(@)]
    BY DEF SyncStep, Acquire, Read, Rows, Look, Insert, Close, members
  <2> QED BY <1>1, <2>1, <2>2 DEF SweepShape
<1>4. alerts' \in [Gyms -> Alerts]
  <2>1. alerts' = alerts \/ alerts' = [alerts EXCEPT ![s.gym].open = @ + 1]
    BY SyncSteps
  <2> QED BY <1>1, <2>1 DEF SweepShape, Alerts
<1>5. clientLock' \in [Gyms -> By \cup {Nobody}]
  <2>1. clientLock' = clientLock \/ clientLock' = [clientLock EXCEPT ![s.gym] = s.by] \/ clientLock' = [clientLock EXCEPT ![s.gym] = Nobody]
    BY <1>1 DEF SyncStep, Acquire, Read, Rows, Look, Insert, Close, Unlock, SweepShape
  <2> QED BY <1>1, <2>1 DEF SweepShape, Syncs
<1>6. mails' = mails
  BY DEF SyncStep, Acquire, Read, Rows, Look, Insert, Close, records
<1>7. syncs' \subseteq Syncs
  BY SyncSteps DEF Steps, Leaves, SweepShape
<1>8. UNCHANGED sweeps \/ (s.by \in Procs /\ sweeps' = [sweeps EXCEPT ![s.by].paying = @ \cup {s.gym}])
  <2>1. s.by \in Procs \/ s.by = Manual
    BY <1>1 DEF Syncs, By
  <2> QED BY <2>1 DEF SyncStep, Acquire, Read, Rows, Look, Insert, Close
<1>9. sweeps' \in [Procs -> Sweeps] /\ \A p \in Procs : sweeps'[p].at = sweeps[p].at /\ sweeps'[p].gym = sweeps[p].gym
  <2>1. CASE UNCHANGED sweeps
    BY <2>1 DEF SweepShape
  <2>2. CASE s.by \in Procs /\ sweeps' = [sweeps EXCEPT ![s.by].paying = @ \cup {s.gym}]
    BY <1>1, <2>2 DEF SweepShape, Sweeps
  <2> QED BY <1>8, <2>1, <2>2
<1> QED BY <1>2, <1>3, <1>4, <1>5, <1>6, <1>7, <1>8, <1>9 DEF SweepShape

(* ... and to the lock of its gym.                                         *)
LEMMA SyncLocks ==
  ASSUME SweepShape, NEW s \in syncs, SyncStep(s)
  PROVE  \/ /\ UNCHANGED clientLock
            /\ \/ Leaves(s) /\ ~s.locked
               \/ Leaves(s) /\ s.at = "acquire"
               \/ \E t \in Syncs : Steps(s, t) /\ t.at # "acquire" /\ t.locked = s.locked /\ s.at # "acquire"
               \/ \E t \in Syncs : Steps(s, t) /\ t.at # "acquire" /\ t.locked = s.locked /\ "lockdb" \in sweepHappened'
         \/ /\ s.at = "acquire" /\ clientLock[s.gym] = Nobody
            /\ clientLock' = [clientLock EXCEPT ![s.gym] = s.by]
            /\ \E t \in Syncs : Steps(s, t) /\ t.at # "acquire" /\ t.locked
         \/ s.locked /\ Leaves(s) /\ clientLock' = [clientLock EXCEPT ![s.gym] = Nobody]
<1>1. s \in Syncs /\ s.gym \in Gyms /\ s.locked \in BOOLEAN
  BY DEF SweepShape, Syncs
<1>2. CASE Acquire(s)
  <2>1. /\ [s EXCEPT !.at = "read", !.locked = TRUE] \in Syncs /\ [s EXCEPT !.at = "read", !.locked = TRUE].locked
        /\ [s EXCEPT !.at = "read"] \in Syncs /\ [s EXCEPT !.at = "read"].locked = s.locked
        /\ [s EXCEPT !.at = "read", !.locked = TRUE].by = s.by /\ [s EXCEPT !.at = "read", !.locked = TRUE].gym = s.gym
        /\ [s EXCEPT !.at = "read"].by = s.by /\ [s EXCEPT !.at = "read"].gym = s.gym
        /\ [s EXCEPT !.at = "read", !.locked = TRUE].at = "read" /\ [s EXCEPT !.at = "read"].at = "read"
    BY <1>1 DEF Syncs
  <2>2. CASE ~Taken(s.gym) /\ clientLock' = [clientLock EXCEPT ![s.gym] = s.by] /\ Goes(s, [s EXCEPT !.at = "read", !.locked = TRUE])
    BY <1>2, <2>1, <2>2 DEF Taken, Goes, Steps, Acquire
  <2>3. CASE Over(s) /\ UNCHANGED clientLock
    BY <1>2, <2>3 DEF Over, Leaves, Acquire
  <2>4. CASE SweepFault("lockdb") /\ Goes(s, [s EXCEPT !.at = "read"]) /\ UNCHANGED clientLock
    BY <2>1, <2>4 DEF Goes, Steps, SweepFault
  <2> QED BY <1>2, <2>2, <2>3, <2>4 DEF Acquire
<1>3. CASE Read(s)
  <2> DEFINE p == person[s.gym]
             t == [s EXCEPT !.at = "rows", !.paying = p.pays, !.missing = p.pays /\ ~p.role,
                            !.owing = ~p.pays /\ p.row = "active" /\ (p.role \/ p.sighted)]
  <2>1. t \in Syncs /\ t.by = s.by /\ t.gym = s.gym /\ t.locked = s.locked /\ t.at = "rows"
    <3>1. p \in Persons
      BY <1>1 DEF SweepShape
    <3> QED BY <1>1, <3>1 DEF Syncs, Persons
  <2>2. s.at = "read" /\ ((UNCHANGED clientLock /\ syncs' = (syncs \ {s}) \cup {t}) \/ (syncs' = syncs \ {s} /\ Unlock(s)))
    BY <1>3 DEF Read, Goes, Over
  <2> HIDE DEF t
  <2> QED BY <1>1, <2>1, <2>2 DEF Steps, Leaves, Unlock, SweepShape
<1>4. CASE Rows(s)
  <2>1. [s EXCEPT !.at = "look"] \in Syncs
    BY <1>1 DEF Syncs
  <2> QED BY <1>1, <1>4, <2>1 DEF Rows, Goes, Steps, Syncs
<1>5. CASE Look(s)
  <2>1. [s EXCEPT !.at = "insert"] \in Syncs /\ [s EXCEPT !.at = "grant"] \in Syncs
    BY <1>1 DEF Syncs
  <2> QED BY <1>1, <1>5, <2>1 DEF Look, Goes, Steps, Syncs
<1>6. CASE Insert(s)
  <2>1. [s EXCEPT !.at = "grant"] \in Syncs
    BY <1>1 DEF Syncs
  <2> QED BY <1>1, <1>6, <2>1 DEF Insert, Goes, Steps, Syncs
<1>7. CASE Close(s)
  BY <1>1, <1>7 DEF Close, Over, Leaves, Unlock, SweepShape
<1> QED BY <1>2, <1>3, <1>4, <1>5, <1>6, <1>7 DEF SyncStep

(* A step of a sweep: what it makes of its process, and of the syncs and   *)
(* their locks.                                                            *)
Takes(p, w) ==
  \/ /\ w.at = "idle" /\ w = AtRest
     /\ \/ UNCHANGED <<syncs, clientLock>> /\ sweeps[p].at # "sync"
        \/ /\ syncs' = {s \in syncs : s.by # p}
           /\ clientLock' = [g \in Gyms |-> IF clientLock[g] = p THEN Nobody ELSE clientLock[g]]
  \/ /\ w.at = "sync" /\ w.todo = w.due /\ w.paying = {} /\ sweeps[p].at = "idle"
     /\ UNCHANGED <<syncs, clientLock>>
     /\ "overlap" \notin sweepHappened' => \A q \in Procs : sweeps[q].at = "idle"
  \/ /\ w.at = "sync" /\ sweeps[p].at = "sync" /\ ~InSync(p) /\ w.due = sweeps[p].due /\ w.paying = sweeps[p].paying
     /\ \E g \in sweeps[p].todo : w.todo = sweeps[p].todo \ {g} /\ syncs' = syncs \cup {Sync(p, g)}
     /\ UNCHANGED clientLock
  \/ /\ w.at \in {"lockdown", "records", "digest", "send"} /\ w.due = sweeps[p].due /\ w.paying = sweeps[p].paying
     /\ sweeps[p].at # "idle" /\ (sweeps[p].at = "sync" => ~InSync(p)) /\ UNCHANGED <<syncs, clientLock>>
     /\ w.at = "send" => /\ w.gym \in Gyms
                         /\ sweeps[p].at = "digest" /\ ~mails[w.gym].logged /\ UNCHANGED mails

LEMMA TurnSteps ==
  ASSUME SweepShape, NEW p \in Procs, SweepStep(p) \/ Dies(p)
  PROVE  \E w \in Sweeps : sweeps' = [sweeps EXCEPT ![p] = w] /\ Takes(p, w)
<1>1. sweeps[p] \in Sweeps /\ sweepLeft.active \subseteq Gyms
  BY DEF SweepShape, SweepScenario
<1>2. AtRest \in Sweeps /\ AtRest.at = "idle"
  BY DEF AtRest, Sweeps
<1>3. CASE TimerFires(p)
  <2> DEFINE w == [AtRest EXCEPT !.at = "sync", !.due = ActiveGyms \ fresh, !.todo = ActiveGyms \ fresh]
  <2>1. w \in Sweeps /\ w.at = "sync" /\ w.todo = w.due /\ w.paying = {}
    BY <1>1 DEF AtRest, Sweeps, ActiveGyms
  <2>2. /\ sweeps' = [sweeps EXCEPT ![p] = w] /\ sweeps[p].at = "idle" /\ UNCHANGED <<syncs, clientLock>>
        /\ "overlap" \notin sweepHappened' => \A q \in Procs : sweeps[q].at = "idle"
    BY <1>3 DEF TimerFires, Set, records
  <2> HIDE DEF w
  <2> QED BY <2>1, <2>2 DEF Takes
<1>4. CASE ReleaseStale(p)
  <2> DEFINE w == [sweeps[p] EXCEPT !.at = "lockdown"]
  <2>1. sweeps' = [sweeps EXCEPT ![p] = w] /\ sweeps[p].at = "sync" /\ ~InSync(p) /\ UNCHANGED <<syncs, clientLock>>
    BY <1>4 DEF ReleaseStale, Turns, Set
  <2>2. w \in Sweeps /\ w.at = "lockdown" /\ w.due = sweeps[p].due /\ w.paying = sweeps[p].paying
    BY <1>1 DEF Sweeps
  <2> HIDE DEF w
  <2> QED BY <2>1, <2>2 DEF Takes
<1>5. CASE Lockdown(p)
  <2> DEFINE todo == {g \in Gyms : person[g].row = "recovery"}
             w == [sweeps[p] EXCEPT !.at = "records", !.todo = todo]
  <2>1. /\ sweeps' = [sweeps EXCEPT ![p] = w] \/ sweeps' = [sweeps EXCEPT ![p] = AtRest]
        /\ sweeps[p].at = "lockdown" /\ UNCHANGED <<syncs, clientLock>>
    BY <1>5 DEF Lockdown, Set
  <2>2. todo \in SUBSET Gyms
    OBVIOUS
  <2>3. w \in Sweeps /\ w.at = "records" /\ w.due = sweeps[p].due /\ w.paying = sweeps[p].paying
    BY <1>1, <2>2 DEF Sweeps
  <2> HIDE DEF w
  <2> QED BY <1>2, <2>1, <2>3 DEF Takes
<1>6. CASE DigestRead(p)
  <2> DEFINE w == [sweeps[p] EXCEPT !.at = "digest", !.todo = News]
  <2>1. sweeps' = [sweeps EXCEPT ![p] = w] /\ sweeps[p].at = "records" /\ UNCHANGED <<syncs, clientLock>>
    BY <1>6 DEF DigestRead, Set
  <2>2. News \in SUBSET Gyms
    BY DEF News
  <2>3. w \in Sweeps /\ w.at = "digest" /\ w.due = sweeps[p].due /\ w.paying = sweeps[p].paying
    BY <1>1, <2>2 DEF Sweeps
  <2> HIDE DEF w
  <2> QED BY <2>1, <2>3 DEF Takes
<1>7. CASE Send(p)
  <2> DEFINE w == [sweeps[p] EXCEPT !.at = "digest"]
  <2>1. sweeps' = [sweeps EXCEPT ![p] = w] /\ sweeps[p].at = "send" /\ UNCHANGED <<syncs, clientLock>>
    BY <1>7 DEF Send, Turns, Set
  <2>3. w \in Sweeps /\ w.at = "digest" /\ w.due = sweeps[p].due /\ w.paying = sweeps[p].paying
    BY <1>1 DEF Sweeps
  <2> HIDE DEF w
  <2> QED BY <2>1, <2>3 DEF Takes
<1>8. CASE Stamp(p)
  <2>1. sweeps' = [sweeps EXCEPT ![p] = AtRest] /\ sweeps[p].at = "digest" /\ UNCHANGED <<syncs, clientLock>>
    BY <1>8 DEF Stamp, Set
  <2> QED BY <1>2, <2>1 DEF Takes
<1>9. ASSUME NEW g \in Gyms, NextGym(p, g)
      PROVE  \E w \in Sweeps : sweeps' = [sweeps EXCEPT ![p] = w] /\ Takes(p, w)
  <2> DEFINE w == [sweeps[p] EXCEPT !.todo = sweeps[p].todo \ {g}]
  <2>1. /\ sweeps' = [sweeps EXCEPT ![p] = w] /\ sweeps[p].at = "sync" /\ ~InSync(p) /\ g \in sweeps[p].todo
        /\ syncs' = syncs \cup {Sync(p, g)} /\ UNCHANGED clientLock
    BY <1>9 DEF NextGym, Set
  <2>2. sweeps[p].todo \ {g} \in SUBSET Gyms
    BY <1>1 DEF Sweeps
  <2>3. /\ w \in Sweeps /\ w.at = "sync" /\ w.due = sweeps[p].due /\ w.paying = sweeps[p].paying
        /\ w.todo = sweeps[p].todo \ {g}
    BY <1>1, <2>1, <2>2 DEF Sweeps
  <2> HIDE DEF w
  <2> QED BY <2>1, <2>3 DEF Takes
<1>10. ASSUME NEW g \in Gyms, Replay(p, g)
       PROVE  \E w \in Sweeps : sweeps' = [sweeps EXCEPT ![p] = w] /\ Takes(p, w)
  <2> DEFINE w == [sweeps[p] EXCEPT !.todo = sweeps[p].todo \ {g}]
  <2>1. /\ sweeps' = [sweeps EXCEPT ![p] = w] /\ sweeps[p].at = "records" /\ UNCHANGED <<syncs, clientLock>>
    BY <1>10 DEF Replay, Set
  <2>2. sweeps[p].todo \ {g} \in SUBSET Gyms
    BY <1>1 DEF Sweeps
  <2>3. w \in Sweeps /\ w.at = "records" /\ w.due = sweeps[p].due /\ w.paying = sweeps[p].paying
    BY <1>1, <2>1, <2>2 DEF Sweeps
  <2> HIDE DEF w
  <2> QED BY <2>1, <2>3 DEF Takes
<1>11. ASSUME NEW g \in Gyms, DigestGym(p, g)
       PROVE  \E w \in Sweeps : sweeps' = [sweeps EXCEPT ![p] = w] /\ Takes(p, w)
  <2> DEFINE a == IF SentRecently(g) THEN "digest" ELSE "send"
             w == [sweeps[p] EXCEPT !.todo = sweeps[p].todo \ {g}, !.at = a, !.gym = g]
  <2>1. /\ sweeps' = [sweeps EXCEPT ![p] = w] /\ sweeps[p].at = "digest" /\ UNCHANGED <<syncs, clientLock, mails>>
    BY <1>11 DEF DigestGym, Set, records
  <2>2. sweeps[p].todo \ {g} \in SUBSET Gyms /\ a \in {"digest", "send"} /\ (a = "send" => ~mails[g].logged)
    BY <1>1 DEF Sweeps, SentRecently
  <2> HIDE DEF a
  <2>3. w \in Sweeps /\ w.at = a /\ w.gym = g /\ w.due = sweeps[p].due /\ w.paying = sweeps[p].paying
    BY <1>1, <2>2 DEF Sweeps
  <2> HIDE DEF w
  <2> QED BY <2>1, <2>2, <2>3 DEF Takes
<1>12. CASE Dies(p)
  <2>1. /\ sweeps' = [sweeps EXCEPT ![p] = AtRest] /\ syncs' = {s \in syncs : s.by # p}
        /\ clientLock' = [g \in Gyms |-> IF clientLock[g] = p THEN Nobody ELSE clientLock[g]]
    BY <1>12 DEF Dies, Set
  <2> QED BY <1>2, <2>1 DEF Takes
<1> QED BY <1>3, <1>4, <1>5, <1>6, <1>7, <1>8, <1>9, <1>10, <1>11, <1>12 DEF SweepStep

LEMMA TurnShape ==
  ASSUME SweepShape, NEW p \in Procs, SweepStep(p) \/ Dies(p)
  PROVE  SweepShape' /\ sweepHappened \subseteq sweepHappened'
<1>1. sweepLeft' \in SweepScenario /\ sweepHappened \subseteq sweepHappened'
  BY SweepBudget
  DEF SweepShape, SweepStep, Dies, TimerFires, ReleaseStale, Lockdown, DigestRead, Send, Stamp, NextGym, Replay, DigestGym
<1>2. PICK w \in Sweeps : sweeps' = [sweeps EXCEPT ![p] = w] /\ Takes(p, w)
  BY TurnSteps
<1>3. sweeps' \in [Procs -> Sweeps] /\ \A q \in Procs : sweeps'[q].at = "send" => sweeps'[q].gym \in Gyms
  BY <1>2 DEF SweepShape, Takes
<1>4. person' \in [Gyms -> Persons]
  <2>1. CASE ReleaseStale(p)
    <3>1. \A g \in Gyms : person[g] \in Persons /\ [person[g] EXCEPT !.row = "recovery"] \in Persons
      BY DEF SweepShape, Persons
    <3> QED BY <2>1, <3>1 DEF ReleaseStale
  <2>2. CASE ~ReleaseStale(p)
    <3>1. UNCHANGED person
      BY <2>2 DEF SweepStep, Dies, TimerFires, Lockdown, DigestRead, Send, Stamp, NextGym, Replay, DigestGym, members
    <3> QED BY <3>1 DEF SweepShape
  <2> QED BY <2>1, <2>2
<1>5. alerts' \in [Gyms -> Alerts]
  <2>1. UNCHANGED alerts \/ alerts' = [g \in Gyms |-> [alerts[g] EXCEPT !.door = @ \/ g \in sweepLeft.locked]]
    BY DEF SweepStep, Dies, TimerFires, ReleaseStale, Lockdown, DigestRead, Send, Stamp, NextGym, Replay, DigestGym, records
  <2>2. \A g \in Gyms : [alerts[g] EXCEPT !.door = @ \/ g \in sweepLeft.locked] \in Alerts
    BY DEF SweepShape, Alerts
  <2> QED BY <2>1, <2>2 DEF SweepShape
<1>6. clientLock' \in [Gyms -> By \cup {Nobody}]
  BY <1>2 DEF SweepShape, Takes
<1>7. mails' \in [Gyms -> Mails]
  <2>1. CASE Send(p)
    <3> DEFINE g == sweeps[p].gym
    <3>1. g \in Gyms /\ mails[g] \in Mails
      BY <2>1 DEF Send, SweepShape
    <3>2. \A n \in 0 .. 2 : (IF n < 2 THEN n + 1 ELSE 2) \in 0 .. 2
      OBVIOUS
    <3>3. /\ [mails[g] EXCEPT !.sent = IF @ < 2 THEN @ + 1 ELSE 2] \in Mails
          /\ [sent |-> IF mails[g].sent < 2 THEN mails[g].sent + 1 ELSE 2, logged |-> TRUE] \in Mails
      BY <3>1, <3>2 DEF Mails
    <3>4. \/ UNCHANGED mails
          \/ mails' = [mails EXCEPT ![g] = [sent |-> IF mails[g].sent < 2 THEN mails[g].sent + 1 ELSE 2, logged |-> TRUE]]
          \/ mails' = [mails EXCEPT ![g] = [mails[g] EXCEPT !.sent = IF @ < 2 THEN @ + 1 ELSE 2]]
      BY <2>1 DEF Send
    <3> QED BY <3>1, <3>3, <3>4 DEF SweepShape
  <2>2. CASE ~Send(p)
    <3>1. UNCHANGED mails
      BY <2>2 DEF SweepStep, Dies, TimerFires, ReleaseStale, Lockdown, DigestRead, Stamp, NextGym, Replay, DigestGym, records
    <3> QED BY <3>1 DEF SweepShape
  <2> QED BY <2>1, <2>2
<1>8. syncs' \subseteq Syncs
  <2>1. \A g \in Gyms : Sync(p, g) \in Syncs
    BY DEF Sync, Syncs, By
  <2>2. sweeps[p].todo \subseteq Gyms
    BY DEF SweepShape, Sweeps
  <2> QED BY <1>2, <2>1, <2>2 DEF SweepShape, Takes
<1> QED BY <1>1, <1>3, <1>4, <1>5, <1>6, <1>7, <1>8 DEF SweepShape

(* What it does to alerts and mails.                                       *)
LEMMA TurnTells ==
  ASSUME SweepShape, NEW p \in Procs, SweepStep(p) \/ Dies(p)
  PROVE  /\ \A g \in Gyms : alerts'[g].open = alerts[g].open /\ alerts'[g].quiet = alerts[g].quiet
         /\ \/ UNCHANGED mails
            \/ /\ sweeps[p].at = "send" /\ sweeps'[p].at = "digest"
               /\ LET g == sweeps[p].gym
                  IN  \E m \in Mails : /\ mails' = [mails EXCEPT ![g] = m] /\ m.sent > 0 /\ m.sent <= mails[g].sent + 1
                                       /\ m.logged \/ (m.logged = mails[g].logged /\ "log" \in sweepHappened')
<1>1. \A g \in Gyms : alerts'[g].open = alerts[g].open /\ alerts'[g].quiet = alerts[g].quiet
  <2>1. UNCHANGED alerts \/ alerts' = [g \in Gyms |-> [alerts[g] EXCEPT !.door = @ \/ g \in sweepLeft.locked]]
    BY DEF SweepStep, Dies, TimerFires, ReleaseStale, Lockdown, DigestRead, Send, Stamp, NextGym, Replay, DigestGym, records
  <2> QED BY <2>1 DEF SweepShape, Alerts
<1>2. CASE ~Send(p)
  <2>1. UNCHANGED mails
    BY <1>2 DEF SweepStep, Dies, TimerFires, ReleaseStale, Lockdown, DigestRead, Stamp, NextGym, Replay, DigestGym, records
  <2> QED BY <1>1, <2>1
<1>3. CASE Send(p)
  <2> DEFINE g == sweeps[p].gym
             n == IF mails[g].sent < 2 THEN mails[g].sent + 1 ELSE 2
             sent == [sent |-> n, logged |-> TRUE]
             lost == [mails[g] EXCEPT !.sent = n]
  <2>1. g \in Gyms /\ mails[g] \in Mails /\ sweeps[p] \in Sweeps
    BY <1>3 DEF Send, SweepShape
  <2>2. n \in 0 .. 2 /\ n > 0 /\ n <= mails[g].sent + 1
    BY <2>1 DEF Mails
  <2>3. /\ sweeps[p].at = "send" /\ sweeps' = [sweeps EXCEPT ![p] = [sweeps[p] EXCEPT !.at = "digest"]]
        /\ \/ UNCHANGED mails
           \/ mails' = [mails EXCEPT ![g] = sent]
           \/ "log" \in sweepHappened' /\ mails' = [mails EXCEPT ![g] = lost]
    BY <1>3 DEF Send, Turns, Set, SweepFault
  <2>4. sweeps'[p].at = "digest"
    BY <2>1, <2>3 DEF Sweeps, SweepShape
  <2> HIDE DEF n
  <2>5. sent \in Mails /\ sent.sent = n /\ sent.logged /\ lost \in Mails /\ lost.sent = n /\ lost.logged = mails[g].logged
    BY <2>1, <2>2 DEF Mails
  <2> HIDE DEF sent, lost
  <2> QED BY <1>1, <2>2, <2>3, <2>4, <2>5
<1> QED BY <1>2, <1>3

-----------------------------------------------------------------------------
(* SweepRun: the parts of the invariant, action by action.                 *)

(* The actions that leave syncs, locks, sweeps and mails alone.            *)
LEMMA PressShape ==
  ASSUME SweepShape, NEW g \in Gyms, Press(g)
  PROVE  /\ SweepShape' /\ sweepHappened' = sweepHappened /\ UNCHANGED <<alerts, mails, clientLock, sweeps>>
         /\ \A s \in syncs : s.by # Manual
         /\ syncs' = syncs \cup {Sync(Manual, g)} /\ Sync(Manual, g) \in Syncs
<1>1. sweepLeft' \in SweepScenario
  BY SweepBudget DEF Press, SweepShape
<1>2. Sync(Manual, g) \in Syncs
  BY DEF Sync, Syncs, By
<1> QED BY <1>1, <1>2 DEF Press, SweepShape, members, records

LEMMA DismissShape ==
  ASSUME SweepShape, NEW g \in Gyms, Dismiss(g)
  PROVE  /\ SweepShape' /\ sweepHappened' = sweepHappened /\ UNCHANGED <<mails, clientLock, syncs, sweeps>>
         /\ alerts[g].open > 0 /\ alerts' = [alerts EXCEPT ![g] = [open |-> 0, quiet |-> TRUE, door |-> FALSE]]
<1>1. sweepLeft' \in SweepScenario
  BY SweepBudget DEF Dismiss, SweepShape
<1>2. [open |-> 0, quiet |-> TRUE, door |-> FALSE] \in Alerts
  BY DEF Alerts
<1> QED BY <1>1, <1>2 DEF Dismiss, SweepShape, members

LEMMA DayShape ==
  ASSUME SweepShape, DayPasses
  PROVE  /\ SweepShape' /\ sweepHappened' = sweepHappened /\ UNCHANGED <<alerts, clientLock, syncs, sweeps>>
         /\ \A p \in Procs : sweeps[p].at = "idle"
         /\ mails' = [g \in Gyms |-> [sent |-> 0, logged |-> FALSE]]
<1>1. [sent |-> 0, logged |-> FALSE] \in Mails
  BY DEF Mails
<1> QED BY <1>1 DEF DayPasses, SweepShape, members, Well

LEMMA SweepInitInv == SweepInit => SweepRunInv
<1> SUFFICES ASSUME SweepInit PROVE SweepRunInv
  OBVIOUS
<1>1. SweepShape
  <2>1. AtRest \in Sweeps
    BY DEF AtRest, Sweeps
  <2> QED BY <2>1, SweepRunAssumption DEF SweepInit, SweepShape, Persons, Alerts, Mails, AtRest, By
<1>2. OneSyncEach /\ LocksAreHeld /\ OneAlert /\ OneSweep /\ OneMail
  BY DEF SweepInit, OneSyncEach, LocksAreHeld, OneAlert, OneSweep, OneMail, AtRest
<1> QED BY <1>1, <1>2 DEF SweepRunInv

LEMMA OneSyncNext ==
  ASSUME SweepShape, OneSyncEach, SweepNext
  PROVE  OneSyncEach'
<1>1. ASSUME UNCHANGED <<syncs, sweeps>> PROVE OneSyncEach'
  BY <1>1 DEF OneSyncEach
<1>2. ASSUME NEW g \in Gyms, Press(g) PROVE OneSyncEach'
  <2>1. Sync(Manual, g).by = Manual /\ Manual \notin Procs
    BY SweepRunAssumption DEF Sync
  <2> DEFINE n == Sync(Manual, g)
  <2>2. UNCHANGED sweeps /\ syncs' = syncs \cup {n} /\ \A s \in syncs : s.by # Manual
    BY <1>2, PressShape
  <2> HIDE DEF n
  <2>3. \A s, t \in syncs' : s.by = t.by => s = t
    BY <2>1, <2>2 DEF OneSyncEach, n
  <2>4. \A s \in syncs' : s.by \in Procs => s \in syncs
    BY <2>1, <2>2 DEF n
  <2> QED BY <2>2, <2>3, <2>4 DEF OneSyncEach
<1>3. ASSUME NEW s \in syncs, SyncStep(s) PROVE OneSyncEach'
  <2>1. \/ UNCHANGED sweeps
        \/ s.by \in Procs /\ sweeps' = [sweeps EXCEPT ![s.by].paying = @ \cup {s.gym}]
    BY <1>3, SyncShape
  <2>2. \A p \in Procs : /\ sweeps'[p].at = sweeps[p].at /\ sweeps'[p].due = sweeps[p].due /\ sweeps'[p].todo = sweeps[p].todo
                         /\ sweeps'[p].paying = sweeps[p].paying \/ (p = s.by /\ sweeps'[p].paying = sweeps[p].paying \cup {s.gym})
    BY <2>1 DEF SweepShape, Sweeps
  <2>0. Leaves(s) \/ \E t \in Syncs : Steps(s, t)
    BY <1>3, SyncSteps
  <2>3. \A t \in syncs' : \E u \in syncs : t.by = u.by /\ t.gym = u.gym /\ (t # u => u = s)
    BY <2>0 DEF Steps, Leaves
  <2>4. \A t, u \in syncs' : t.by = u.by => t = u
    BY <2>0 DEF Steps, Leaves, OneSyncEach
  <2> QED BY <2>2, <2>3, <2>4 DEF OneSyncEach
<1>4. ASSUME NEW p \in Procs, SweepStep(p) \/ Dies(p) PROVE OneSyncEach'
  <2>1. PICK w \in Sweeps : sweeps' = [sweeps EXCEPT ![p] = w] /\ Takes(p, w)
    BY <1>4, TurnSteps
  <2>2. sweeps'[p] = w /\ \A q \in Procs : q # p => sweeps'[q] = sweeps[q]
    BY <2>1 DEF SweepShape
  <2>3. sweeps[p].at = "sync" => sweeps[p].todo \subseteq sweeps[p].due
    BY DEF OneSyncEach
  <2>4. w.paying \subseteq w.due /\ (w.at = "sync" => w.todo \subseteq w.due)
    BY <2>1, <2>3 DEF Takes, OneSyncEach, AtRest
  <2>5. \A t \in syncs' : t \in syncs \/ (t = Sync(p, t.gym) /\ t.gym \in sweeps[p].todo /\ ~InSync(p) /\ sweeps[p].at = "sync" /\ w.at = "sync" /\ w.due = sweeps[p].due)
    BY <2>1 DEF Takes, Sync
  <2>6. \A t \in syncs' : t.by = p => w.at = "sync" /\ t.gym \in w.due
    BY <2>1, <2>3, <2>5 DEF Takes, InSync, OneSyncEach, Sync, AtRest
  <2>7. \A t, u \in syncs' : t.by = u.by => t = u
    <3>1. CASE syncs' \subseteq syncs
      BY <3>1 DEF OneSyncEach
    <3>2. ASSUME NEW g, syncs' = syncs \cup {Sync(p, g)}, ~InSync(p) PROVE \A t, u \in syncs' : t.by = u.by => t = u
      <4>1. Sync(p, g).by = p
        BY DEF Sync
      <4> QED BY <3>2, <4>1 DEF OneSyncEach, InSync
    <3> QED BY <2>1, <3>1, <3>2 DEF Takes
  <2>8. \A t \in syncs' : t.by # p => t \in syncs
    BY <2>5 DEF Sync
  <2> QED BY <2>2, <2>4, <2>6, <2>7, <2>8 DEF OneSyncEach
<1> QED BY <1>1, <1>2, <1>3, <1>4, MembersSteps, DismissShape, DayShape DEF SweepNext

LEMMA LocksNext ==
  ASSUME SweepShape, OneSyncEach, LocksAreHeld, SweepNext
  PROVE  LocksAreHeld'
<1>1. ASSUME UNCHANGED <<syncs, clientLock>>, sweepHappened \subseteq sweepHappened' PROVE LocksAreHeld'
  BY <1>1 DEF LocksAreHeld
<1>2. ASSUME NEW g \in Gyms, Press(g) PROVE LocksAreHeld'
  <2>1. Sync(Manual, g).at = "acquire" /\ ~Sync(Manual, g).locked
    BY DEF Sync
  <2>2. UNCHANGED <<clientLock, sweepHappened>> /\ syncs' = syncs \cup {Sync(Manual, g)}
    BY <1>2, PressShape
  <2> QED BY <2>1, <2>2 DEF LocksAreHeld
<1>3. ASSUME NEW s \in syncs, SyncStep(s) PROVE LocksAreHeld'
  <2>1. s.gym \in Gyms /\ s.by \in By /\ sweepHappened \subseteq sweepHappened' /\ \A x \in syncs : x.gym \in Gyms /\ x.by \in By
    BY <1>3, SyncShape DEF SweepShape, Syncs
  <2>2. \A x \in syncs : x # s => x.by # s.by
    BY DEF OneSyncEach
  <2>3. Nobody \notin By
    BY SweepRunAssumption DEF By
  <2>4. \A x \in syncs : x # s /\ x.locked => clientLock'[x.gym] = x.by
    BY <1>3, <2>1, <2>2, <2>3, SyncLocks DEF LocksAreHeld, SweepShape
  <2>5. \A x \in syncs : x # s => /\ x.locked => x.at # "acquire" /\ clientLock'[x.gym] = x.by
                                  /\ x.at # "acquire" /\ "lockdb" \notin sweepHappened' => x.locked
    BY <2>1, <2>4 DEF LocksAreHeld
  <2>6. CASE Leaves(s)
    BY <2>5, <2>6 DEF Leaves, LocksAreHeld
  <2>7. ASSUME NEW t \in Syncs, Steps(s, t), t.at # "acquire", t.locked => clientLock'[t.gym] = t.by,
               "lockdb" \notin sweepHappened' => t.locked
        PROVE  LocksAreHeld'
    BY <2>5, <2>7 DEF Steps, LocksAreHeld
  <2>8. s.locked => clientLock[s.gym] = s.by
    BY DEF LocksAreHeld
  <2>9. s.at # "acquire" /\ "lockdb" \notin sweepHappened' => s.locked
    BY <2>1 DEF LocksAreHeld
  <2>10. \/ Leaves(s)
         \/ \E t \in Syncs : /\ Steps(s, t) /\ t.at # "acquire"
                             /\ (t.locked => clientLock'[t.gym] = t.by)
                             /\ ("lockdb" \notin sweepHappened' => t.locked)
    <3>1. ASSUME NEW t \in Syncs, UNCHANGED clientLock, Steps(s, t), t.locked = s.locked,
                 s.at # "acquire" \/ "lockdb" \in sweepHappened'
          PROVE  (t.locked => clientLock'[t.gym] = t.by) /\ ("lockdb" \notin sweepHappened' => t.locked)
      BY <2>8, <2>9, <3>1 DEF Steps
    <3>2. CASE clientLock' = [clientLock EXCEPT ![s.gym] = s.by] /\ \E t \in Syncs : Steps(s, t) /\ t.at # "acquire" /\ t.locked
      <4>1. clientLock'[s.gym] = s.by
        BY <2>1, <3>2 DEF SweepShape
      <4> QED BY <3>2, <4>1 DEF Steps
    <3> QED BY <1>3, <3>1, <3>2, SyncLocks
  <2> QED BY <2>6, <2>7, <2>10
<1>4. ASSUME NEW p \in Procs, SweepStep(p) \/ Dies(p) PROVE LocksAreHeld'
  <2>1. PICK w \in Sweeps : sweeps' = [sweeps EXCEPT ![p] = w] /\ Takes(p, w)
    BY <1>4, TurnSteps
  <2>2. sweepHappened \subseteq sweepHappened' /\ \A s \in syncs : s.gym \in Gyms
    BY <1>4, TurnShape DEF SweepShape, Syncs
  <2> QED BY <2>1, <2>2 DEF Takes, LocksAreHeld, Sync
<1> QED BY <1>1, <1>2, <1>3, <1>4, MembersSteps, DismissShape, DayShape DEF SweepNext

LEMMA OneAlertNext ==
  ASSUME SweepShape, OneSyncEach, LocksAreHeld, OneAlert, SweepNext, "lockdb" \notin sweepHappened'
  PROVE  /\ OneAlert'
         /\ \A g \in Gyms : alerts[g].quiet => alerts'[g].open <= alerts[g].open
<1> DEFINE Goal == /\ OneAlert'
                   /\ \A g \in Gyms : alerts[g].quiet => alerts'[g].open <= alerts[g].open
<1>0. \A g \in Gyms : alerts[g] \in Alerts /\ alerts[g].open \in Nat
  BY DEF SweepShape, Alerts
<1>1. ASSUME sweepHappened \subseteq sweepHappened', \A s \in syncs' : s.at = "insert" => s \in syncs,
             \A g \in Gyms : alerts'[g].open = alerts[g].open /\ alerts'[g].quiet = alerts[g].quiet
      PROVE  Goal
  <2>1. \A s \in syncs : s.gym \in Gyms
    BY DEF SweepShape, Syncs
  <2> QED BY <1>0, <1>1, <2>1 DEF OneAlert
<1>2. ASSUME NEW g \in Gyms, Press(g) PROVE Goal
  <2>1. Sync(Manual, g).at = "acquire"
    BY DEF Sync
  <2>2. UNCHANGED <<alerts, sweepHappened>> /\ syncs' = syncs \cup {Sync(Manual, g)}
    BY <1>2, PressShape
  <2>3. \A s \in syncs' : s.at = "insert" => s \in syncs
    BY <2>1, <2>2
  <2> QED BY <1>1, <2>2, <2>3
<1>3. ASSUME NEW s \in syncs, SyncStep(s) PROVE Goal
  <2>1. s.gym \in Gyms /\ sweepHappened \subseteq sweepHappened' /\ \A x \in syncs : x.gym \in Gyms /\ x.by \in By
    BY <1>3, SyncShape DEF SweepShape, Syncs
  <2>2. CASE Leaves(s) /\ UNCHANGED alerts
    BY <1>1, <2>1, <2>2 DEF Leaves
  <2>3. ASSUME NEW t \in Syncs, Steps(s, t), t.at # "insert", UNCHANGED alerts PROVE Goal
    BY <1>1, <2>1, <2>3 DEF Steps
  <2>4. ASSUME NEW t \in Syncs, Steps(s, t), s.at = "look", t.at = "insert", MayAlert(s.gym), UNCHANGED alerts PROVE Goal
    <3>1. alerts[t.gym].open = 0 /\ ~alerts[t.gym].quiet
      BY <2>4 DEF Steps, MayAlert
    <3>2. OneAlert'
      BY <2>1, <2>4, <3>1 DEF OneAlert, Steps
    <3> QED BY <1>0, <2>4, <3>2
  <2>5. ASSUME NEW t \in Syncs, Steps(s, t), s.at = "insert", t.at = "grant",
               alerts' = [alerts EXCEPT ![s.gym].open = @ + 1]
        PROVE  Goal
    <3>1. "lockdb" \notin sweepHappened /\ alerts[s.gym].open = 0 /\ ~alerts[s.gym].quiet
      BY <2>1, <2>5 DEF OneAlert
    <3>2. \A x \in syncs : x.at = "insert" /\ x # s => x.gym # s.gym
      BY <2>1, <2>5, <3>1 DEF LocksAreHeld, OneSyncEach
    <3>3. /\ alerts'[s.gym].open = 1
          /\ \A g \in Gyms : g # s.gym => alerts'[g] = alerts[g]
      BY <1>0, <2>1, <2>5, <3>1 DEF SweepShape, Alerts
    <3>4. \A x \in syncs' : x.at = "insert" => x \in syncs /\ x.gym # s.gym /\ x.gym \in Gyms
      BY <2>1, <2>5, <3>2 DEF Steps
    <3>5. OneAlert'
      BY <2>1, <3>1, <3>3, <3>4 DEF OneAlert
    <3> QED BY <1>0, <3>1, <3>3, <3>5
  <2> QED BY <1>3, <2>2, <2>3, <2>4, <2>5, SyncSteps
<1>4. ASSUME NEW p \in Procs, SweepStep(p) \/ Dies(p) PROVE Goal
  <2>1. PICK w \in Sweeps : sweeps' = [sweeps EXCEPT ![p] = w] /\ Takes(p, w)
    BY <1>4, TurnSteps
  <2>2. \A g : Sync(p, g).at = "acquire"
    BY DEF Sync
  <2>3. \A s \in syncs' : s.at = "insert" => s \in syncs
    BY <2>1, <2>2 DEF Takes
  <2> QED BY <1>1, <1>4, <2>3, TurnShape, TurnTells
<1>5. ASSUME NEW g \in Gyms, Dismiss(g) PROVE Goal
  <2>1. /\ UNCHANGED <<syncs, sweepHappened>> /\ alerts[g].open > 0
        /\ alerts' = [alerts EXCEPT ![g] = [open |-> 0, quiet |-> TRUE, door |-> FALSE]]
    BY <1>5, DismissShape
  <2>2. alerts'[g].open = 0 /\ \A x \in Gyms : x # g => alerts'[x] = alerts[x]
    BY <2>1 DEF SweepShape
  <2>3. \A s \in syncs : s.gym \in Gyms /\ (s.at = "insert" => s.gym # g)
    BY <2>1 DEF SweepShape, Syncs, OneAlert
  <2>4. OneAlert'
    BY <2>1, <2>2, <2>3 DEF OneAlert
  <2> QED BY <1>0, <2>2, <2>4
<1>6. ASSUME NEW g \in Gyms, Moves(g) \/ GrantStep(g) \/ GrantFails(g) PROVE Goal
  BY <1>1, <1>6, MembersSteps
<1>7. CASE DayPasses
  BY <1>1, <1>7, DayShape
<1> QED BY <1>2, <1>3, <1>4, <1>5, <1>6, <1>7 DEF SweepNext

LEMMA OneSweepNext ==
  ASSUME SweepShape, OneSweep, SweepNext
  PROVE  OneSweep'
<1>1. ASSUME \A p \in Procs : sweeps'[p].at = sweeps[p].at, sweepHappened \subseteq sweepHappened' PROVE OneSweep'
  BY <1>1 DEF OneSweep
<1>2. ASSUME NEW s \in syncs, SyncStep(s) PROVE OneSweep'
  <2>0. UNCHANGED sweeps \/ (s.by \in Procs /\ sweeps' = [sweeps EXCEPT ![s.by].paying = @ \cup {s.gym}])
    BY <1>2, SyncShape
  <2>1. \A p \in Procs : sweeps'[p].at = sweeps[p].at
    BY <2>0 DEF SweepShape, Sweeps
  <2> QED BY <1>1, <1>2, <2>1, SyncShape
<1>3. ASSUME NEW p \in Procs, SweepStep(p) \/ Dies(p) PROVE OneSweep'
  <2>1. PICK w \in Sweeps : sweeps' = [sweeps EXCEPT ![p] = w] /\ Takes(p, w)
    BY <1>3, TurnSteps
  <2>2. sweeps'[p] = w /\ \A q \in Procs : q # p => sweeps'[q] = sweeps[q]
    BY <2>1 DEF SweepShape
  <2>3. \/ w.at = "idle" \/ sweeps[p].at # "idle"
        \/ "overlap" \notin sweepHappened' => \A q \in Procs : sweeps[q].at = "idle"
    BY <2>1 DEF Takes
  <2> QED BY <1>3, <2>2, <2>3, TurnShape DEF OneSweep
<1> QED BY <1>1, <1>2, <1>3, MembersSteps, PressShape, DismissShape, DayShape DEF SweepNext

LEMMA OneMailNext ==
  ASSUME SweepShape, OneSweep, OneMail, SweepNext
  PROVE  OneMail'
<1>1. ASSUME UNCHANGED mails, \A p \in Procs : sweeps'[p].at = sweeps[p].at /\ sweeps'[p].gym = sweeps[p].gym,
             sweepHappened \subseteq sweepHappened'
      PROVE  OneMail'
  BY <1>1 DEF OneMail
<1>2. ASSUME NEW s \in syncs, SyncStep(s) PROVE OneMail'
  <2>0. UNCHANGED sweeps \/ (s.by \in Procs /\ sweeps' = [sweeps EXCEPT ![s.by].paying = @ \cup {s.gym}])
    BY <1>2, SyncShape
  <2>1. \A p \in Procs : sweeps'[p].at = sweeps[p].at /\ sweeps'[p].gym = sweeps[p].gym
    BY <2>0 DEF SweepShape, Sweeps
  <2> QED BY <1>1, <1>2, <2>1, SyncShape
<1>3. ASSUME NEW p \in Procs, SweepStep(p) \/ Dies(p) PROVE OneMail'
  <2>1. PICK w \in Sweeps : sweeps' = [sweeps EXCEPT ![p] = w] /\ Takes(p, w)
    BY <1>3, TurnSteps
  <2>2. sweeps'[p] = w /\ \A q \in Procs : q # p => sweeps'[q] = sweeps[q]
    BY <2>1 DEF SweepShape
  <2>3. sweepHappened \subseteq sweepHappened' /\ OneSweep' /\ SweepShape'
    BY <1>3, TurnShape, OneSweepNext
  <2>4. \A g \in Gyms : mails[g].sent \in 0 .. 2 /\ mails[g].logged \in BOOLEAN
    BY DEF SweepShape, Mails
  <2>5. CASE UNCHANGED mails
    <3>1. w.at = "send" => w.gym \in Gyms /\ ~mails[w.gym].logged
      BY <2>1 DEF Takes, AtRest
    <3>2. w.at = "send" /\ "log" \notin sweepHappened => mails[w.gym].sent = 0
      BY <2>4, <3>1 DEF OneMail
    <3> QED BY <2>2, <2>3, <2>5, <3>2 DEF OneMail
  <2>6. ASSUME sweeps[p].at = "send", sweeps'[p].at = "digest",
               NEW m \in Mails, mails' = [mails EXCEPT ![sweeps[p].gym] = m], m.sent > 0,
               m.sent <= mails[sweeps[p].gym].sent + 1,
               m.logged \/ (m.logged = mails[sweeps[p].gym].logged /\ "log" \in sweepHappened')
        PROVE  OneMail'
    <3> DEFINE g == sweeps[p].gym
    <3>1. g \in Gyms /\ mails'[g] = m /\ \A x \in Gyms : x # g => mails'[x] = mails[x]
      BY <2>6 DEF SweepShape
    <3>2. m.sent \in Nat /\ mails[g].sent \in Nat
      BY <3>1 DEF SweepShape, Mails
    <3>3. sweepHappened' \cap {"overlap", "log"} = {} => m.sent <= 1
      BY <2>3, <2>6, <3>1, <3>2 DEF OneMail
    <3>4. sweepHappened' \cap {"overlap", "log"} = {} => \A q \in Procs : sweeps'[q].at # "send"
      BY <2>3, <2>6 DEF OneSweep
    <3>5. \A x \in Gyms : mails'[x].logged => mails'[x].sent > 0
      BY <2>6, <3>1 DEF OneMail
    <3>6. "log" \notin sweepHappened' => \A x \in Gyms : mails'[x].sent > 0 => mails'[x].logged
      BY <2>3, <2>6, <3>1 DEF OneMail
    <3>7. sweepHappened' \cap {"overlap", "log"} = {} => \A x \in Gyms : mails'[x].sent <= 1
      BY <2>3, <3>1, <3>3 DEF OneMail
    <3> QED BY <3>4, <3>5, <3>6, <3>7 DEF OneMail
  <2> QED BY <1>3, <2>5, <2>6, TurnTells
<1>4. CASE DayPasses
  BY <1>4, DayShape DEF OneMail
<1> QED BY <1>1, <1>2, <1>3, <1>4, MembersSteps, PressShape, DismissShape DEF SweepNext

LEMMA SweepRunStep == SweepRunInv /\ [SweepNext]_sweepVars => SweepRunInv'
<1> SUFFICES ASSUME SweepRunInv, [SweepNext]_sweepVars PROVE SweepRunInv'
  OBVIOUS
<1> USE DEF SweepRunInv
<1>1. CASE UNCHANGED sweepVars
  BY <1>1 DEF sweepVars, SweepShape, OneSyncEach, LocksAreHeld, OneAlert, OneSweep, OneMail
<1>2. CASE SweepNext
  <2>1. SweepShape'
    BY <1>2, MembersSteps, PressShape, DismissShape, DayShape, SyncShape, TurnShape DEF SweepNext
  <2>2. OneAlert'
    <3>1. CASE "lockdb" \in sweepHappened'
      BY <3>1 DEF OneAlert
    <3> QED BY <1>2, <3>1, OneAlertNext
  <2> QED BY <1>2, <2>1, <2>2, OneSyncNext, LocksNext, OneSweepNext, OneMailNext
<1> QED BY <1>1, <1>2

(* No gym has an alert open twice or, unless two processes sweep at once   *)
(* or the log is lost, two digests a day: for any number of gyms and       *)
(* processes, of manual syncs beside them and of faults of every kind.     *)
THEOREM AlertsAndMailsAreOne == SweepSpec => []OneOfEach
<1>1. SweepRunInv => OneOfEach
  <2> SUFFICES ASSUME SweepRunInv PROVE OneOfEach
    OBVIOUS
  <2>1. SweepTypeOK
    BY DEF SweepRunInv, SweepShape, OneSyncEach, LocksAreHeld, OneMail, SweepTypeOK, Persons, Alerts, Mails, Syncs, Sweeps, By
  <2> QED BY <2>1 DEF SweepRunInv, OneAlert, OneMail, OneOfEach
<1> QED BY <1>1, SweepInitInv, SweepRunStep, PTL DEF SweepSpec

(* What a gym put away is not opened again, as long as every sync could    *)
(* ask for its lock: between the look and the insert nobody can have       *)
(* dismissed it.                                                           *)
THEOREM DecidedStaysQuiet == SweepSpec => QuietOnceDecided
<1>1. SweepRunInv /\ [SweepNext]_sweepVars =>
        [\A g \in Gyms : alerts[g].quiet /\ "lockdb" \notin sweepHappened' => alerts'[g].open <= alerts[g].open]_sweepVars
  BY OneAlertNext DEF SweepRunInv
<1> QED BY <1>1, SweepInitInv, SweepRunStep, PTL DEF SweepSpec, QuietOnceDecided

-----------------------------------------------------------------------------
(* WixLists.                                                               *)

ReadClass == {"paying", "over", "absent"}
WalkRec == [page : Nat \ {0}, got : SUBSET Entries, class : [Entries -> ReadClass], done : BOOLEAN]
Inside(s) == {s[i] : i \in DOMAIN s}
Listed(src) == Inside(list[src])
Syncing == read.at \in {"first", "second", "folded"}

ListShape ==
  /\ list \in [Feeds -> Seq(Entries)]
  /\ \A src \in Feeds : Listed(src) \subseteq IdsOf(src) /\ Seqs!IsInjective(list[src])
  /\ read \in [at : {"idle", "first", "second", "folded", "aborted"}, walk : [Feeds -> WalkRec]]
  /\ \A src \in Feeds : read.walk[src].got \subseteq IdsOf(src)
  /\ firstRead \in [Entries -> ReadClass]

StoodIsListed == Syncing => stood \subseteq Shown \cap good /\ Shown \cap good \subseteq ever

(* Every page before this one was full and gave nothing twice.             *)
PagesWereFull ==
  Reading /\ ~read.walk["orders"].done /\ <<"orders", read.at>> \notin shrank
    => read.walk["orders"].got \subseteq Listed("orders") /\ Cardinality(read.walk["orders"].got) = Offset

ReadRight == Syncing =>
  \A e \in Entries : /\ ClassRead(e) = "paying" => e \in ever
                     /\ e \in stood \ Guests /\ e \in read.walk[SourceOf(e)].got => ClassRead(e) = "paying"
FirstReadRight == read.at \in {"second", "folded"} =>
  \A e \in Entries : /\ firstRead[e] = "paying" => e \in ever
                     /\ e \in stood \ Guests => firstRead[e] = "paying" \/ <<SourceOf(e), "first">> \in shrank
SecondReadRight == read.at = "folded" =>
  \A e \in stood \ Guests : ClassRead(e) = "paying" \/ <<SourceOf(e), "second">> \in shrank

ListInv == /\ ListShape /\ StoodIsListed /\ PagesWereFull /\ WholeOrRefused
           /\ ReadRight /\ FirstReadRight /\ SecondReadRight

LEMMA FeedsAre ==
  /\ Feeds = {"orders", "bookings"} /\ IdsOf("orders") = Ordered /\ IdsOf("bookings") = Booked
  /\ \A e \in Entries : SourceOf(e) \in Feeds /\ e \in IdsOf(SourceOf(e))
  /\ \A src \in Feeds : IdsOf(src) \subseteq Entries /\ \A e \in IdsOf(src) : SourceOf(e) = src
  /\ Shown = Listed("orders") \cup Listed("bookings")
BY WixListsAssumption DEF Feeds, IdsOf, SourceOf, Entries, Shown, Listed, Inside, Seqs!ToSet

(* A list that gains an entry, at either end, and one that loses one.      *)
LEMMA ListAppends ==
  ASSUME NEW s \in Seq(Entries), Seqs!IsInjective(s), NEW e \in Entries, e \notin Inside(s)
  PROVE  /\ Append(s, e) \in Seq(Entries) /\ Seqs!IsInjective(Append(s, e))
         /\ Inside(Append(s, e)) = Inside(s) \cup {e}
<1> DEFINE t == Append(s, e)
<1>0. Len(s) \in Nat /\ DOMAIN s = 1 .. Len(s) /\ \A i \in 1 .. Len(s) : s[i] \in Entries
  OBVIOUS
<1>n. \A i \in DOMAIN s : s[i] # e
  BY DEF Inside
<1>t. t \in Seq(Entries)
  OBVIOUS
<1>1. /\ DOMAIN t = 1 .. Len(s) + 1 /\ t[Len(s) + 1] = e
      /\ \A i \in 1 .. Len(s) : t[i] = s[i]
  OBVIOUS
<1> HIDE DEF t
<1>2. Seqs!IsInjective(t)
  BY <1>0, <1>1, <1>n DEF Seqs!IsInjective
<1>3. ASSUME NEW y \in Inside(s) \cup {e} PROVE y \in Inside(t)
  BY <1>0, <1>1, <1>3 DEF Inside
<1>4. ASSUME NEW i \in DOMAIN t PROVE t[i] \in Inside(s) \cup {e}
  BY <1>0, <1>1, <1>4 DEF Inside
<1>5. Inside(t) \subseteq Inside(s) \cup {e}
  BY <1>4 DEF Inside
<1>6. Inside(s) \cup {e} \subseteq Inside(t)
  BY <1>3
<1> QED BY <1>t, <1>2, <1>5, <1>6 DEF t

LEMMA ListPrepends ==
  ASSUME NEW s \in Seq(Entries), Seqs!IsInjective(s), NEW e \in Entries, e \notin Inside(s)
  PROVE  /\ <<e>> \o s \in Seq(Entries) /\ Seqs!IsInjective(<<e>> \o s)
         /\ Inside(<<e>> \o s) = Inside(s) \cup {e}
<1> DEFINE t == <<e>> \o s
<1>0. Len(s) \in Nat /\ DOMAIN s = 1 .. Len(s) /\ \A i \in 1 .. Len(s) : s[i] \in Entries
  OBVIOUS
<1>n. \A i \in DOMAIN s : s[i] # e
  BY DEF Inside
<1>t. t \in Seq(Entries)
  OBVIOUS
<1>1. /\ DOMAIN t = 1 .. Len(s) + 1 /\ t[1] = e
      /\ \A i \in 2 .. Len(s) + 1 : t[i] = s[i - 1]
  OBVIOUS
<1> HIDE DEF t
<1>2. Seqs!IsInjective(t)
  <2> SUFFICES ASSUME NEW i \in DOMAIN t, NEW k \in DOMAIN t, t[i] = t[k] PROVE i = k
    BY DEF Seqs!IsInjective
  <2>1. CASE i = 1 /\ k = 1
    BY <2>1
  <2>0. \A m \in DOMAIN t : m # 1 => t[m] # e
    <3> SUFFICES ASSUME NEW m \in DOMAIN t, m # 1 PROVE t[m] # e
      OBVIOUS
    <3>1. m \in 2 .. Len(s) + 1 /\ m - 1 \in DOMAIN s
      BY <1>0, <1>1
    <3> QED BY <1>1, <1>n, <3>1
  <2>2. CASE i = 1 /\ k # 1
    BY <1>1, <2>0, <2>2
  <2>3. CASE i # 1 /\ k = 1
    BY <1>1, <2>0, <2>3
  <2>4. CASE i # 1 /\ k # 1
    <3>1. i \in 2 .. Len(s) + 1 /\ k \in 2 .. Len(s) + 1 /\ i - 1 \in DOMAIN s /\ k - 1 \in DOMAIN s
      BY <1>0, <1>1, <2>4
    <3>2. s[i - 1] = s[k - 1]
      BY <1>1, <3>1
    <3>3. i - 1 = k - 1
      BY <3>1, <3>2 DEF Seqs!IsInjective
    <3> QED BY <3>1, <3>3
  <2> QED BY <2>1, <2>2, <2>3, <2>4
<1>3. ASSUME NEW y \in Inside(s) \cup {e} PROVE y \in Inside(t)
  <2>1. CASE y = e
    BY <1>0, <1>1, <2>1 DEF Inside
  <2>2. CASE \E i \in DOMAIN s : y = s[i]
    <3>1. PICK i \in DOMAIN s : y = s[i]
      BY <2>2
    <3>2. i + 1 \in DOMAIN t /\ t[i + 1] = s[i]
      BY <1>0, <1>1, <3>1
    <3> QED BY <3>1, <3>2 DEF Inside
  <2> QED BY <1>3, <2>1, <2>2 DEF Inside
<1>4. ASSUME NEW i \in DOMAIN t PROVE t[i] \in Inside(s) \cup {e}
  <2>1. CASE i = 1
    BY <1>1, <2>1
  <2>2. CASE i # 1
    <3>1. i \in 2 .. Len(s) + 1 /\ i - 1 \in DOMAIN s
      BY <1>0, <1>1, <2>2
    <3> QED BY <1>1, <3>1 DEF Inside
  <2> QED BY <2>1, <2>2
<1>5. Inside(t) \subseteq Inside(s) \cup {e}
  BY <1>4 DEF Inside
<1>6. Inside(s) \cup {e} \subseteq Inside(t)
  BY <1>3
<1> QED BY <1>t, <1>2, <1>5, <1>6 DEF t

(* The part of a list from its entry m to its entry n.                     *)
LEMMA PartOfList ==
  ASSUME NEW s \in Seq(Entries), NEW m \in Nat \ {0}, NEW n \in Nat, m <= n + 1, n <= Len(s), NEW l \in Nat, l = n - m + 1
  PROVE  /\ SubSeq(s, m, n) \in Seq(Entries) /\ Len(SubSeq(s, m, n)) = l
         /\ \A i \in 1 .. l : SubSeq(s, m, n)[i] = s[m - 1 + i]
<1> DEFINE p == SubSeq(s, m, n)
<1>0. Len(s) \in Nat /\ \A i \in 1 .. Len(s) : s[i] \in Entries
  OBVIOUS
<1>1. \A i \in m .. n : s[i] \in Entries
  BY <1>0
<1>2. m \in Int /\ n \in Int
  OBVIOUS
<1>3. /\ p \in Seq(Entries) /\ Len(p) = IF m <= n THEN n - m + 1 ELSE 0
      /\ \A i \in 1 .. n - m + 1 : p[i] = s[m + i - 1]
  BY <1>1, <1>2, SubSeqProperties
<1> HIDE DEF p
<1>4. Len(p) = l
  BY <1>3
<1>5. ASSUME NEW i \in 1 .. l PROVE p[i] = s[m - 1 + i]
  <2>1. i \in 1 .. n - m + 1 /\ m + i - 1 = m - 1 + i
    OBVIOUS
  <2> QED BY <1>3, <2>1
<1> QED BY <1>3, <1>4, <1>5 DEF p

LEMMA ListLoses ==
  ASSUME NEW s \in Seq(Entries), Seqs!IsInjective(s), NEW n \in DOMAIN s
  PROVE  LET t == Seqs!RemoveAt(s, n)
         IN  /\ t \in Seq(Entries) /\ Seqs!IsInjective(t)
             /\ Inside(t) = Inside(s) \ {s[n]}
<1> DEFINE t == Seqs!RemoveAt(s, n)
<1>0. Len(s) \in Nat /\ DOMAIN s = 1 .. Len(s) /\ n \in 1 .. Len(s) /\ \A i \in 1 .. Len(s) : s[i] \in Entries
  OBVIOUS
<1> DEFINE a == SubSeq(s, 1, n - 1)
           b == SubSeq(s, n + 1, Len(s))
<1>1. a \in Seq(Entries) /\ Len(a) = n - 1 /\ \A i \in 1 .. n - 1 : a[i] = s[i]
  <2>1. 1 \in Nat \ {0} /\ n - 1 \in Nat /\ 1 <= n - 1 + 1 /\ n - 1 <= Len(s) /\ n - 1 = n - 1 - 1 + 1
    BY <1>0
  <2>2. /\ a \in Seq(Entries) /\ Len(a) = n - 1
        /\ \A i \in 1 .. n - 1 : a[i] = s[1 - 1 + i]
    BY <2>1, PartOfList
  <2>3. \A i \in 1 .. n - 1 : 1 - 1 + i = i
    BY <1>0
  <2> HIDE DEF a
  <2> QED BY <2>2, <2>3
<1>2. b \in Seq(Entries) /\ Len(b) = Len(s) - n /\ \A i \in 1 .. Len(s) - n : b[i] = s[n + i]
  <2>1. n + 1 \in Nat \ {0} /\ Len(s) \in Nat /\ n + 1 <= Len(s) + 1 /\ Len(s) <= Len(s)
        /\ Len(s) - n \in Nat /\ Len(s) - n = Len(s) - (n + 1) + 1
    BY <1>0
  <2>2. /\ b \in Seq(Entries) /\ Len(b) = Len(s) - n
        /\ \A i \in 1 .. Len(s) - n : b[i] = s[n + 1 - 1 + i]
    BY <2>1, PartOfList
  <2>3. n + 1 - 1 = n
    BY <1>0
  <2> HIDE DEF b
  <2> QED BY <2>2, <2>3
<1>3. t = a \o b
  BY DEF Seqs!RemoveAt
<1> HIDE DEF a, b, t
<1>4. /\ t \in Seq(Entries) /\ Len(t) = Len(s) - 1 /\ DOMAIN t = 1 .. Len(s) - 1
      /\ \A i \in 1 .. Len(s) - 1 : t[i] = IF i <= n - 1 THEN a[i] ELSE b[i - (n - 1)]
  <2>1. /\ t \in Seq(Entries) /\ Len(t) = Len(a) + Len(b)
        /\ \A i \in 1 .. Len(a) + Len(b) : t[i] = IF i <= Len(a) THEN a[i] ELSE b[i - Len(a)]
    BY <1>1, <1>2, <1>3, ConcatProperties
  <2>2. Len(a) + Len(b) = Len(s) - 1 /\ Len(a) = n - 1
    BY <1>0, <1>1, <1>2
  <2>3. DOMAIN t = 1 .. Len(t)
    BY <2>1
  <2> QED BY <2>1, <2>2, <2>3
<1>5. /\ \A i \in 1 .. n - 1 : t[i] = s[i]
      /\ \A i \in n .. Len(s) - 1 : t[i] = s[i + 1]
  <2>1. ASSUME NEW i \in 1 .. n - 1 PROVE t[i] = s[i]
    BY <1>0, <1>1, <1>4
  <2>2. ASSUME NEW i \in n .. Len(s) - 1 PROVE t[i] = s[i + 1]
    <3>1. i \in 1 .. Len(s) - 1 /\ ~(i <= n - 1) /\ i - (n - 1) \in 1 .. Len(s) - n /\ n + (i - (n - 1)) = i + 1
      BY <1>0
    <3>2. t[i] = b[i - (n - 1)]
      BY <1>4, <3>1
    <3>3. b[i - (n - 1)] = s[n + (i - (n - 1))]
      BY <1>2, <3>1
    <3> QED BY <3>1, <3>2, <3>3
  <2> QED BY <2>1, <2>2
<1>6. \A i \in DOMAIN t : \E k \in DOMAIN s : k # n /\ t[i] = s[k] /\ k = (IF i < n THEN i ELSE i + 1)
  BY <1>0, <1>4, <1>5
<1>7. Seqs!IsInjective(t)
  <2> SUFFICES ASSUME NEW i \in DOMAIN t, NEW k \in DOMAIN t, t[i] = t[k] PROVE i = k
    BY DEF Seqs!IsInjective
  <2>1. PICK i1 \in DOMAIN s : i1 # n /\ t[i] = s[i1] /\ i1 = (IF i < n THEN i ELSE i + 1)
    BY <1>6
  <2>2. PICK k1 \in DOMAIN s : k1 # n /\ t[k] = s[k1] /\ k1 = (IF k < n THEN k ELSE k + 1)
    BY <1>6
  <2>3. i1 = k1
    BY <2>1, <2>2 DEF Seqs!IsInjective
  <2> QED BY <1>0, <1>4, <2>1, <2>2, <2>3
<1>8. ASSUME NEW k \in DOMAIN s, s[k] # s[n] PROVE s[k] \in Inside(t)
  <2>1. CASE k < n
    BY <1>0, <1>4, <1>5, <2>1 DEF Inside
  <2>2. CASE k > n
    <3>1. k - 1 \in n .. Len(s) - 1 /\ k - 1 \in DOMAIN t
      BY <1>0, <1>4, <2>2
    <3>2. t[k - 1] = s[k]
      BY <1>0, <1>5, <3>1
    <3> QED BY <3>1, <3>2 DEF Inside
  <2> QED BY <1>0, <1>8, <2>1, <2>2
<1>9. ASSUME NEW i \in DOMAIN t PROVE t[i] \in Inside(s) \ {s[n]}
  BY <1>6 DEF Seqs!IsInjective, Inside
<1>10. Inside(t) = Inside(s) \ {s[n]}
  BY <1>8, <1>9 DEF Inside
<1> QED BY <1>4, <1>7, <1>10 DEF t

LEMMA ListsBegin ==
  ASSUME ListsInit
  PROVE  ListInv
<1>1. /\ listLeft \in ListScenarios /\ list = listLeft.listed
      /\ read = NewRead("idle") /\ firstRead = NewWalk.class
  BY DEF ListsInit
<1>2. /\ list \in [Feeds -> Seq(Entries)]
      /\ \A src \in Feeds : Listed(src) \subseteq IdsOf(src) /\ Seqs!IsInjective(list[src])
  BY <1>1, WixListsAssumption DEF Listed, Inside, Seqs!ToSet
<1>3. NewWalk \in WalkRec /\ NewWalk.got = {} /\ NewWalk.class \in [Entries -> ReadClass]
  BY DEF NewWalk, WalkRec, ReadClass
<1>4. /\ read \in [at : {"idle", "first", "second", "folded", "aborted"}, walk : [Feeds -> WalkRec]]
      /\ read.at = "idle" /\ \A src \in Feeds : read.walk[src].got = {}
  BY <1>1, <1>3 DEF NewRead
<1>5. ListShape
  BY <1>1, <1>2, <1>3, <1>4 DEF ListShape
<1> QED BY <1>4, <1>5 DEF ListInv, StoodIsListed, Syncing, PagesWereFull, Reading, WholeOrRefused, ReadRight, FirstReadRight, SecondReadRight

(* Wix changes a list: what the walks have read stays right of what stood. *)
LEMMA WixChanges ==
  ASSUME ListInv, NEW k, Changes(k), good' \subseteq good \cup Entries,
         list' \in [Feeds -> Seq(Entries)],
         \A src \in Feeds : Listed(src)' \subseteq IdsOf(src) /\ Seqs!IsInjective(list'[src]),
         shrank \subseteq shrank',
         \A src \in Feeds : Listed(src) \subseteq Listed(src)' \/ <<src, read.at>> \in shrank'
  PROVE  ListInv'
<1>t. ListShape /\ StoodIsListed /\ PagesWereFull /\ WholeOrRefused /\ ReadRight /\ FirstReadRight /\ SecondReadRight
  BY DEF ListInv
<1>1. /\ read' = read /\ firstRead' = firstRead
      /\ stood' = stood \cap Shown' \cap good' /\ ever' = ever \cup (Shown' \cap good')
  BY DEF Changes, Shown
<1>2. stood' \subseteq stood /\ ever \subseteq ever'
  BY <1>1
<1>3. ListShape'
  BY <1>t, <1>1 DEF ListShape
<1>4. StoodIsListed'
  BY <1>1 DEF StoodIsListed, Syncing
<1>5. PagesWereFull'
  BY <1>t, <1>1, FeedsAre DEF PagesWereFull, Reading, Offset
<1>6. WholeOrRefused'
  BY <1>t, <1>1, <1>2 DEF WholeOrRefused, Reading
<1>7. ReadRight' /\ FirstReadRight' /\ SecondReadRight'
  BY <1>t, <1>1, <1>2 DEF ReadRight, FirstReadRight, SecondReadRight, Syncing, ClassRead
<1> QED BY <1>3, <1>4, <1>5, <1>6, <1>7 DEF ListInv

LEMMA BuysKeeps ==
  ASSUME ListInv, NEW e \in Entries, Buys(e)
  PROVE  ListInv'
<1> DEFINE src == SourceOf(e)
<1>t. ListShape
  BY DEF ListInv
<1>1. src \in Feeds /\ e \in IdsOf(src) /\ list[src] \in Seq(Entries) /\ Seqs!IsInjective(list[src])
  BY <1>t, FeedsAre DEF ListShape
<1>2. PICK s \in {<<e>> \o list[src], Append(list[src], e)} : list' = [list EXCEPT ![src] = s]
  BY DEF Buys
<1>3. e \notin Inside(list[src])
  BY <1>1, FeedsAre DEF Buys, Listed
<1>4. s \in Seq(Entries) /\ Seqs!IsInjective(s) /\ Inside(s) = Inside(list[src]) \cup {e}
  <2> DEFINE q == list[src]
  <2>1. q \in Seq(Entries) /\ Seqs!IsInjective(q) /\ e \notin Inside(q) /\ (s = <<e>> \o q \/ s = Append(q, e))
    BY <1>1, <1>2, <1>3
  <2> HIDE DEF q
  <2>2. s \in Seq(Entries) /\ Seqs!IsInjective(s) /\ Inside(s) = Inside(q) \cup {e}
    <3>1. CASE s = <<e>> \o q
      BY <2>1, <3>1, ListPrepends
    <3>2. CASE s = Append(q, e)
      BY <2>1, <3>2, ListAppends
    <3> QED BY <2>1, <3>1, <3>2
  <2> QED BY <2>2 DEF q
<1>5. list' \in [Feeds -> Seq(Entries)] /\ list'[src] = s /\ \A f \in Feeds : f # src => list'[f] = list[f]
  BY <1>t, <1>1, <1>2, <1>4 DEF ListShape
<1>6. Listed(src)' = Listed(src) \cup {e} /\ \A f \in Feeds : f # src => Listed(f)' = Listed(f)
  BY <1>4, <1>5 DEF Listed
<1>7. \A f \in Feeds : Listed(f)' \subseteq IdsOf(f) /\ Seqs!IsInjective(list'[f]) /\ Listed(f) \subseteq Listed(f)'
  BY <1>t, <1>1, <1>4, <1>5, <1>6 DEF ListShape
<1>8. Changes("place") /\ shrank' = shrank /\ good' \subseteq good \cup Entries
  BY DEF Buys
<1> QED BY <1>5, <1>7, <1>8, WixChanges

(* Without(e): the list less this entry.                                   *)
LEMMA WithoutIs ==
  ASSUME ListShape, NEW e \in Entries, e \in Shown
  PROVE  /\ Without(e) \in Seq(Entries) /\ Seqs!IsInjective(Without(e))
         /\ Inside(Without(e)) = Listed(SourceOf(e)) \ {e}
<1> DEFINE s == list[SourceOf(e)]
           n == CHOOSE i \in DOMAIN s : s[i] = e
<1>1. SourceOf(e) \in Feeds /\ s \in Seq(Entries) /\ Seqs!IsInjective(s)
  BY FeedsAre DEF ListShape
<1>2. e \in Listed(SourceOf(e))
  <2>1. PICK f \in Feeds : e \in Listed(f)
    BY FeedsAre
  <2>2. SourceOf(e) = f
    BY <2>1, FeedsAre DEF ListShape
  <2> QED BY <2>1, <2>2
<1>3. \E i \in DOMAIN s : s[i] = e
  BY <1>2 DEF Listed, Inside
<1>4. n \in DOMAIN s /\ s[n] = e
  BY <1>3
<1>5. Without(e) = Seqs!RemoveAt(s, n)
  BY DEF Without
<1> HIDE DEF s, n
<1>6. /\ Without(e) \in Seq(Entries) /\ Seqs!IsInjective(Without(e))
      /\ Inside(Without(e)) = Inside(s) \ {s[n]}
  <2>1. /\ Seqs!RemoveAt(s, n) \in Seq(Entries) /\ Seqs!IsInjective(Seqs!RemoveAt(s, n))
        /\ Inside(Seqs!RemoveAt(s, n)) = Inside(s) \ {s[n]}
    BY <1>1, <1>4, ListLoses
  <2> QED BY <1>5, <2>1, Zenon
<1> QED BY <1>4, <1>6 DEF Listed, s

LEMMA LosesKeeps ==
  ASSUME ListInv, NEW e \in Entries, Loses(e)
  PROVE  ListInv'
<1> DEFINE src == SourceOf(e)
<1>t. ListShape
  BY DEF ListInv
<1>1. src \in Feeds
  BY FeedsAre
<1>2. /\ Without(e) \in Seq(Entries) /\ Seqs!IsInjective(Without(e))
      /\ Inside(Without(e)) = Listed(src) \ {e}
  BY <1>t, WithoutIs DEF Loses
<1>3. /\ list' = [list EXCEPT ![src] = Without(e)] /\ shrank' = shrank \cup {<<src, read.at>>} /\ good' = good
      /\ Changes("lose")
  BY DEF Loses
<1>5. list' \in [Feeds -> Seq(Entries)] /\ list'[src] = Without(e) /\ \A f \in Feeds : f # src => list'[f] = list[f]
  BY <1>t, <1>1, <1>2, <1>3 DEF ListShape
<1>6. Listed(src)' = Listed(src) \ {e} /\ \A f \in Feeds : f # src => Listed(f)' = Listed(f)
  BY <1>2, <1>5 DEF Listed
<1>7. \A f \in Feeds : /\ Listed(f)' \subseteq IdsOf(f) /\ Seqs!IsInjective(list'[f])
                       /\ Listed(f) \subseteq Listed(f)' \/ <<f, read.at>> \in shrank'
  BY <1>t, <1>1, <1>2, <1>3, <1>5, <1>6 DEF ListShape
<1>8. good' \subseteq good \cup Entries /\ shrank \subseteq shrank'
  BY <1>3
<1> QED BY <1>3, <1>5, <1>7, <1>8, WixChanges

LEMMA ReordersKeeps ==
  ASSUME ListInv, NEW e \in Entries, Reorders(e)
  PROVE  ListInv'
<1>t. ListShape
  BY DEF ListInv
<1>1. e \in Shown /\ e \in Ordered /\ SourceOf(e) = "orders" /\ "orders" \in Feeds
  BY FeedsAre DEF Reorders
<1>2. /\ Without(e) \in Seq(Entries) /\ Seqs!IsInjective(Without(e))
      /\ Inside(Without(e)) = Listed("orders") \ {e}
  BY <1>t, <1>1, WithoutIs
<1>3. PICK s \in {<<e>> \o Without(e), Append(Without(e), e)} : ReordersTo(e, s)
  BY DEF Reorders
<1>5. s \in Seq(Entries) /\ Seqs!IsInjective(s) /\ Inside(s) = (Listed("orders") \ {e}) \cup {e}
  <2> DEFINE q == Without(e)
  <2>1. q \in Seq(Entries) /\ Seqs!IsInjective(q) /\ e \notin Inside(q) /\ (s = <<e>> \o q \/ s = Append(q, e))
    BY <1>2, <1>3
  <2> HIDE DEF q
  <2>2. s \in Seq(Entries) /\ Seqs!IsInjective(s) /\ Inside(s) = Inside(q) \cup {e}
    <3>1. CASE s = <<e>> \o q
      BY <2>1, <3>1, ListPrepends
    <3>2. CASE s = Append(q, e)
      BY <2>1, <3>2, ListAppends
    <3> QED BY <2>1, <3>1, <3>2
  <2> QED BY <1>2, <2>2 DEF q
<1>6. /\ list' = [list EXCEPT !["orders"] = s] /\ shrank' = shrank /\ good' = good /\ Changes("move")
  BY <1>3 DEF ReordersTo
<1>7. list' \in [Feeds -> Seq(Entries)] /\ list'["orders"] = s /\ \A f \in Feeds : f # "orders" => list'[f] = list[f]
  BY <1>t, <1>1, <1>5, <1>6 DEF ListShape
<1>8. e \in IdsOf("orders")
  BY <1>1, FeedsAre
<1>9. Listed("orders")' = (Listed("orders") \ {e}) \cup {e} /\ \A f \in Feeds : f # "orders" => Listed(f)' = Listed(f)
  BY <1>5, <1>7 DEF Listed
<1>10. \A f \in Feeds : Listed(f)' \subseteq IdsOf(f) /\ Seqs!IsInjective(list'[f]) /\ Listed(f) \subseteq Listed(f)'
  BY <1>t, <1>5, <1>7, <1>8, <1>9 DEF ListShape
<1> QED BY <1>6, <1>7, <1>10, WixChanges

LEMMA EndsOrReturnsKeeps ==
  ASSUME ListInv, NEW e \in Entries, EndsOrReturns(e)
  PROVE  ListInv'
<1>t. ListShape
  BY DEF ListInv
<1>1. list' = list /\ shrank' = shrank /\ Changes("status") /\ good' \subseteq good \cup Entries
  BY DEF EndsOrReturns
<1>2. /\ list' \in [Feeds -> Seq(Entries)]
      /\ \A f \in Feeds : Listed(f)' \subseteq IdsOf(f) /\ Seqs!IsInjective(list'[f]) /\ Listed(f) \subseteq Listed(f)'
  BY <1>t, <1>1 DEF ListShape, Listed
<1> QED BY <1>1, <1>2, WixChanges

(* A stretch of an injective list: as many entries as places.              *)
Stretch(s, lo, hi) == {s[i] : i \in {k \in DOMAIN s : lo < k /\ k <= hi}}
LEMMA StretchCounts ==
  ASSUME NEW s \in Seq(Entries), NEW lo \in Nat, NEW hi \in Nat, lo <= hi
  PROVE  /\ IsFiniteSet(Stretch(s, lo, hi)) /\ Cardinality(Stretch(s, lo, hi)) \in Nat
         /\ Cardinality(Stretch(s, lo, hi)) <= hi - lo
         /\ Seqs!IsInjective(s) /\ hi <= Len(s) => Cardinality(Stretch(s, lo, hi)) = hi - lo
<1> DEFINE D == Stretch(s, lo, hi)
           K == {k \in DOMAIN s : lo < k /\ k <= hi}
           f == [k \in K |-> s[k]]
<1>0. Len(s) \in Nat /\ DOMAIN s = 1 .. Len(s)
  OBVIOUS
<1>1. IsFiniteSet(lo + 1 .. hi) /\ Cardinality(lo + 1 .. hi) = hi - lo
  <2>1. lo + 1 \in Int /\ hi \in Int /\ (lo + 1 > hi => hi = lo) /\ hi - (lo + 1) + 1 = hi - lo
    OBVIOUS
  <2>2. IsFiniteSet(lo + 1 .. hi) /\ Cardinality(lo + 1 .. hi) = IF lo + 1 > hi THEN 0 ELSE hi - (lo + 1) + 1
    BY <2>1, FS_Interval
  <2> QED BY <2>1, <2>2
<1>2. K \subseteq lo + 1 .. hi
  BY <1>0
<1>3. IsFiniteSet(K) /\ Cardinality(K) \in Nat /\ Cardinality(K) <= hi - lo
  BY <1>1, <1>2, FS_Subset, FS_CardinalityType
<1>4. f \in Surjection(K, D)
  <2>1. f \in [K -> D]
    BY DEF Stretch
  <2>2. \A d \in D : \E k \in K : f[k] = d
    BY DEF Stretch
  <2> QED BY <2>1, <2>2 DEF Surjection
<1>5. IsFiniteSet(D) /\ Cardinality(D) <= Cardinality(K)
  BY <1>3, <1>4, FS_Surjection
<1>6. Cardinality(D) \in Nat
  BY <1>5, FS_CardinalityType
<1>7. ASSUME Seqs!IsInjective(s), hi <= Len(s) PROVE Cardinality(D) = hi - lo
  <2>1. K = lo + 1 .. hi
    BY <1>0, <1>7
  <2>2. f \in Injection(K, D)
    <3>1. f \in [K -> D]
      BY DEF Stretch
    <3>2. \A a, b \in DOMAIN f : f[a] = f[b] => a = b
      BY <1>7 DEF Seqs!IsInjective
    <3> QED BY <3>1, <3>2 DEF Injection, IsInjective
  <2>3. Cardinality(D) = Cardinality(K)
    BY <1>3, <1>4, <2>2, FS_Surjection
  <2> QED BY <1>1, <2>1, <2>3
<1> HIDE DEF K
<1> QED BY <1>3, <1>5, <1>6, <1>7

LEMMA OffsetIs ==
  ASSUME ListShape
  PROVE  /\ OrderLimit \in Nat \ {0} /\ BookingLimit \in Nat \ {0} /\ Offset \in Nat
         /\ list["orders"] \in Seq(Entries) /\ Seqs!IsInjective(list["orders"])
         /\ \A src \in Feeds : read.walk[src] \in WalkRec /\ IsFiniteSet(read.walk[src].got)
<1>1. "orders" \in Feeds
  BY FeedsAre
<1>2. \A src \in Feeds : read.walk[src] \in WalkRec
  BY DEF ListShape
<1>3. read.walk["orders"].page \in Nat \ {0}
  BY <1>1, <1>2 DEF WalkRec
<1>4. OrderLimit \in Nat \ {0} /\ BookingLimit \in Nat \ {0}
  BY WixListsAssumption
<1>5. Offset \in Nat
  <2>1. \A x, y \in Nat : x * y \in Nat
    OBVIOUS
  <2> QED BY <1>3, <1>4, <2>1 DEF Offset
<1>6. \A src \in Feeds : IsFiniteSet(read.walk[src].got)
  BY <1>2, WixListsAssumption, FS_Subset DEF WalkRec
<1> QED BY <1>1, <1>2, <1>4, <1>5, <1>6 DEF ListShape

(* A page is of the list; the last one leaves nothing unread.              *)
LEMMA PageIsListed ==
  ASSUME ListShape, NEW src \in Feeds, NEW data \in PagesAt(src)
  PROVE  data \subseteq Listed(src)
<1>1. CASE src = "orders"
  BY <1>1 DEF PagesAt, Listed, Inside
<1>2. CASE src = "bookings"
  <2>1. Ahead(src) \subseteq Listed(src)
    BY <1>2 DEF Ahead, Listed, Inside, Seqs!ToSet
  <2> QED BY <1>2, <2>1 DEF PagesAt
<1> QED BY <1>1, <1>2 DEF Feeds

LEMMA OrdersPage ==
  ASSUME ListShape, NEW data \in PagesAt("orders"),
         read.walk["orders"].got \subseteq Listed("orders"), Cardinality(read.walk["orders"].got) = Offset,
         data \cap read.walk["orders"].got = {}
  PROVE  /\ ~IsShort("orders", data) => Cardinality(read.walk["orders"].got \cup data) = Offset + OrderLimit
         /\ IsShort("orders", data) => Listed("orders") \subseteq read.walk["orders"].got \cup data
<1> DEFINE s == list["orders"]
           had == read.walk["orders"].got
           T == Stretch(s, 0, Offset)
<1>0. s \in Seq(Entries) /\ Seqs!IsInjective(s) /\ Offset \in Nat /\ OrderLimit \in Nat \ {0} /\ IsFiniteSet(had)
  BY OffsetIs, FeedsAre
<1>1. data = Stretch(s, Offset, Offset + OrderLimit)
  BY DEF PagesAt, Stretch
<1>2. Offset + OrderLimit \in Nat /\ Offset <= Offset + OrderLimit /\ Offset + OrderLimit - Offset = OrderLimit
  BY <1>0
<1>3. /\ IsFiniteSet(data) /\ Cardinality(data) \in Nat /\ Cardinality(data) <= OrderLimit
      /\ Offset + OrderLimit <= Len(s) => Cardinality(data) = OrderLimit
  <2> HIDE DEF s
  <2> QED BY <1>0, <1>1, <1>2, StretchCounts
<1>4. IsFiniteSet(T) /\ Cardinality(T) \in Nat /\ Cardinality(T) <= Offset
  <2> HIDE DEF s
  <2>1. 0 <= Offset /\ Offset - 0 = Offset
    BY <1>0
  <2> QED BY <1>0, <2>1, StretchCounts
<1>5. ASSUME ~IsShort("orders", data) PROVE Cardinality(had \cup data) = Offset + OrderLimit
  <2>1. Cardinality(data) = OrderLimit
    BY <1>0, <1>3, <1>5 DEF IsShort, LimitOf
  <2>2. Cardinality(had \cup data) = Cardinality(had) + Cardinality(data) - Cardinality(had \cap data)
    BY <1>0, <1>3, FS_Union
  <2>3. Cardinality(had \cap data) = 0
    BY FS_EmptySet
  <2> QED BY <1>0, <2>1, <2>2, <2>3
<1>6. ASSUME IsShort("orders", data) PROVE Listed("orders") \subseteq had \cup data
  <2>1. Cardinality(data) < OrderLimit
    BY <1>6 DEF IsShort, LimitOf
  <2>2. Len(s) \in Nat /\ DOMAIN s = 1 .. Len(s) /\ Len(s) < Offset + OrderLimit
    BY <1>0, <1>2, <1>3, <2>1
  <2>3. Listed("orders") = {s[i] : i \in DOMAIN s}
    BY DEF Listed, Inside
  <2>4. ASSUME NEW i \in DOMAIN s PROVE s[i] \in T \/ s[i] \in data
    BY <1>0, <1>1, <2>2 DEF Stretch
  <2>5. had \subseteq T
    BY <2>3, <2>4
  <2>6. had = T
    BY <1>0, <1>4, <2>5, FS_Subset
  <2> QED BY <2>3, <2>4, <2>6
<1> QED BY <1>5, <1>6

LEMMA BookingsPage ==
  ASSUME NEW data \in PagesAt("bookings"), NEW cut \in BOOLEAN,
         ~Truncated("bookings", data, cut), ~Full("bookings", data, cut), BookingLimit \in Nat \ {0}
  PROVE  Listed("bookings") \subseteq read.walk["bookings"].got \cup data
<1>1. data = Ahead("bookings")
  <2>1. CASE IsShort("bookings", data)
    BY <2>1 DEF PagesAt, IsShort, LimitOf
  <2>2. CASE ~IsShort("bookings", data)
    BY <2>2 DEF Full, Truncated
  <2> QED BY <2>1, <2>2
<1> QED BY <1>1 DEF Ahead, Listed, Inside, Seqs!ToSet

LEMMA AbortKeeps ==
  ASSUME ListInv, SyncAborts, UNCHANGED <<wixState, firstRead, shrank, stood, ever>>
  PROVE  ListInv'
<1>t. ListShape
  BY DEF ListInv
<1>1. NewWalk \in WalkRec /\ NewWalk.got = {}
  BY DEF NewWalk, WalkRec, ReadClass
<1>2. /\ read' \in [at : {"idle", "first", "second", "folded", "aborted"}, walk : [Feeds -> WalkRec]]
      /\ read'.at = "aborted" /\ \A src \in Feeds : read'.walk[src].got = {}
  BY <1>1 DEF SyncAborts, NewRead
<1>3. ListShape'
  BY <1>t, <1>2 DEF ListShape, wixState, Listed
<1> QED BY <1>2, <1>3 DEF ListInv, StoodIsListed, Syncing, PagesWereFull, Reading, WholeOrRefused, ReadRight, FirstReadRight, SecondReadRight

(* A page is taken.                                                        *)
LEMMA PageKeeps ==
  ASSUME ListInv, NEW src \in Feeds, Reading, ~read.walk[src].done,
         NEW data \in PagesAt(src), NEW cut \in BOOLEAN,
         ~SeenBefore(read.walk[src], data), ~Truncated(src, data, cut),
         read' = [read EXCEPT !.walk[src] = WithPage(src, data, ~Full(src, data, cut))],
         UNCHANGED <<wixState, firstRead, shrank, stood, ever>>
  PROVE  ListInv'
<1>t. ListShape /\ StoodIsListed /\ PagesWereFull /\ WholeOrRefused /\ ReadRight /\ FirstReadRight /\ SecondReadRight
  BY DEF ListInv
<1> DEFINE w == read.walk[src]
           last == ~Full(src, data, cut)
<1>1. w \in WalkRec /\ data \subseteq Listed(src) /\ data \subseteq IdsOf(src) /\ data \subseteq Entries /\ data \cap w.got = {}
  BY <1>t, PageIsListed, FeedsAre DEF ListShape, SeenBefore
<1>2. /\ list' = list /\ good' = good /\ firstRead' = firstRead /\ shrank' = shrank /\ stood' = stood /\ ever' = ever
      /\ \A f \in Feeds : Listed(f)' = Listed(f)
      /\ Shown' = Shown
  BY DEF wixState, Listed, Shown
<1>3. /\ read'.at = read.at /\ read'.walk \in [Feeds -> WalkRec]
      /\ read' \in [at : {"idle", "first", "second", "folded", "aborted"}, walk : [Feeds -> WalkRec]]
      /\ read'.walk[src].page = w.page + 1 /\ read'.walk[src].got = w.got \cup data /\ read'.walk[src].done = last
      /\ \A e \in Entries : read'.walk[src].class[e] = IF e \in data \ Guests THEN ClassOf(e) ELSE w.class[e]
      /\ \A f \in Feeds : f # src => read'.walk[f] = read.walk[f]
  <2> DEFINE nw == WithPage(src, data, last)
  <2>1. \A e \in Entries : ClassOf(e) \in ReadClass
    BY DEF ClassOf, ReadClass
  <2>2. /\ nw.page = w.page + 1 /\ nw.got = w.got \cup data /\ nw.done = last
        /\ nw.class = [e \in Entries |-> IF e \in data \ Guests THEN ClassOf(e) ELSE w.class[e]]
        /\ nw = [page |-> nw.page, got |-> nw.got, class |-> nw.class, done |-> nw.done]
    <3>1. /\ w = [page |-> w.page, got |-> w.got, class |-> w.class, done |-> w.done]
          /\ w.class \in [Entries -> ReadClass]
      BY <1>1 DEF WalkRec
    <3>2. nw = [w EXCEPT !.page = @ + 1, !.got = @ \cup data, !.done = last,
                         !.class = [e \in Entries |-> IF e \in data \ Guests THEN ClassOf(e) ELSE @[e]]]
      BY DEF WithPage
    <3> HIDE DEF w, last, nw
    <3> QED BY <3>1, <3>2
  <2>3. w.page + 1 \in Nat \ {0} /\ last \in BOOLEAN /\ w.got \cup data \in SUBSET Entries
    BY <1>1 DEF WalkRec, Full
  <2>4. nw.class \in [Entries -> ReadClass]
    BY <1>1, <2>1, <2>2 DEF WalkRec
  <2>5. nw \in WalkRec
    BY <2>2, <2>3, <2>4 DEF WalkRec
  <2>6. read' = [read EXCEPT !.walk[src] = nw]
    OBVIOUS
  <2> HIDE DEF nw
  <2>7. /\ read'.at = read.at /\ read'.walk = [read.walk EXCEPT ![src] = nw]
        /\ read' = [at |-> read'.at, walk |-> read'.walk]
    BY <1>t, <2>6 DEF ListShape
  <2>8. read'.walk \in [Feeds -> WalkRec] /\ read'.walk[src] = nw /\ \A f \in Feeds : f # src => read'.walk[f] = read.walk[f]
    BY <1>t, <2>5, <2>7 DEF ListShape
  <2>9. read' \in [at : {"idle", "first", "second", "folded", "aborted"}, walk : [Feeds -> WalkRec]]
    BY <1>t, <2>7, <2>8 DEF ListShape
  <2> QED BY <2>2, <2>7, <2>8, <2>9
<1> HIDE DEF w, last
<1>4. ListShape'
  <2>1. \A f \in Feeds : read'.walk[f].got \subseteq IdsOf(f)
    BY <1>t, <1>1, <1>3 DEF ListShape, w
  <2> QED BY <1>t, <1>2, <1>3, <2>1 DEF ListShape
<1>5. StoodIsListed'
  BY <1>t, <1>2, <1>3 DEF StoodIsListed, Syncing
<1>6. ASSUME src = "orders", <<"orders", read.at>> \notin shrank
      PROVE  /\ w.got \subseteq Listed("orders")
             /\ ~last => Cardinality(w.got \cup data) = Offset + OrderLimit
             /\ last => Listed("orders") \subseteq w.got \cup data
  <2>1. w.got \subseteq Listed("orders") /\ Cardinality(w.got) = Offset
    BY <1>t, <1>6 DEF PagesWereFull, w
  <2>2. last <=> IsShort("orders", data)
    BY <1>6 DEF last, Full
  <2> QED BY <1>t, <1>1, <1>6, <2>1, <2>2, OrdersPage DEF w
<1>7. PagesWereFull'
  <2> SUFFICES ASSUME Reading', ~read'.walk["orders"].done, <<"orders", read'.at>> \notin shrank'
               PROVE  read'.walk["orders"].got \subseteq Listed("orders")' /\ Cardinality(read'.walk["orders"].got) = Offset'
    BY DEF PagesWereFull
  <2>1. CASE src = "orders"
    <3>1. Offset' = Offset + OrderLimit
      <4>1. \A x, y \in Nat : (x + 1 - 1) * y = (x - 1) * y + y
        OBVIOUS
      <4>2. w.page \in Nat /\ OrderLimit \in Nat
        BY <1>t, <1>1, OffsetIs DEF WalkRec
      <4>3. Offset' = (read'.walk["orders"].page - 1) * OrderLimit /\ Offset = (read.walk["orders"].page - 1) * OrderLimit
        BY DEF Offset
      <4>4. read'.walk["orders"].page = w.page + 1 /\ read.walk["orders"].page = w.page
        BY <1>3, <2>1 DEF w
      <4> QED BY <4>1, <4>2, <4>3, <4>4
    <3> QED BY <1>1, <1>2, <1>3, <1>6, <2>1, <3>1
  <2>2. CASE src # "orders"
    <3>1. read'.walk["orders"] = read.walk["orders"]
      BY <1>3, <2>2, FeedsAre
    <3>2. Offset' = Offset
      BY <3>1 DEF Offset
    <3>3. read.walk["orders"].got \subseteq Listed("orders") /\ Cardinality(read.walk["orders"].got) = Offset
      BY <1>t, <1>2, <1>3, <3>1 DEF PagesWereFull
    <3>4. Listed("orders")' = Listed("orders")
      BY <1>2, FeedsAre
    <3> QED BY <3>1, <3>2, <3>3, <3>4
  <2> QED BY <2>1, <2>2
<1>8. WholeOrRefused'
  <2> SUFFICES ASSUME NEW f \in Feeds, read'.walk[f].done, <<f, read.at>> \notin shrank
               PROVE  stood \cap IdsOf(f) \subseteq read'.walk[f].got
    BY <1>2, <1>3 DEF WholeOrRefused
  <2>1. CASE f # src
    BY <1>t, <1>3, <2>1 DEF WholeOrRefused
  <2>2. CASE f = src
    <3>1. last
      BY <1>3, <2>2
    <3>2. Listed(f) \subseteq w.got \cup data
      <4>1. CASE f = "orders"
        BY <1>6, <2>2, <3>1, <4>1
      <4>2. CASE f = "bookings"
        BY <1>t, <2>2, <3>1, <4>2, BookingsPage, OffsetIs DEF last, w
      <4> QED BY <4>1, <4>2 DEF Feeds
    <3>3. stood \subseteq Listed("orders") \cup Listed("bookings")
      BY <1>t, FeedsAre DEF StoodIsListed, Syncing, Reading
    <3>4. \A g \in Feeds : Listed(g) \subseteq IdsOf(g)
      BY <1>t DEF ListShape
    <3>5. stood \cap IdsOf(f) \subseteq Listed(f)
      BY <3>3, <3>4, FeedsAre
    <3> QED BY <1>3, <2>2, <3>2, <3>5
  <2> QED BY <2>1, <2>2
<1>9. ReadRight'
  <2> SUFFICES ASSUME NEW e \in Entries
               PROVE  /\ ClassRead(e)' = "paying" => e \in ever
                      /\ e \in stood \ Guests /\ e \in read'.walk[SourceOf(e)].got => ClassRead(e)' = "paying"
    BY <1>2 DEF ReadRight
  <2>0. /\ ClassRead(e) = "paying" => e \in ever
        /\ e \in stood \ Guests /\ e \in read.walk[SourceOf(e)].got => ClassRead(e) = "paying"
        /\ stood \subseteq good /\ Shown \cap good \subseteq ever /\ data \subseteq Shown
    BY <1>t, <1>1, FeedsAre DEF ReadRight, Syncing, Reading, StoodIsListed
  <2>1. CASE SourceOf(e) = src
    <3>1. ClassRead(e)' = IF e \in data \ Guests THEN ClassOf(e) ELSE ClassRead(e)
      BY <1>3, <2>1 DEF ClassRead, w
    <3>2. read'.walk[SourceOf(e)].got = read.walk[SourceOf(e)].got \cup data
      BY <1>3, <2>1 DEF w
    <3> QED BY <2>0, <3>1, <3>2 DEF ClassOf
  <2>2. CASE SourceOf(e) # src
    <3>1. read'.walk[SourceOf(e)] = read.walk[SourceOf(e)]
      BY <1>3, <2>2, FeedsAre
    <3> QED BY <2>0, <3>1 DEF ClassRead
  <2> QED BY <2>1, <2>2
<1>10. FirstReadRight' /\ SecondReadRight'
  BY <1>t, <1>2, <1>3 DEF FirstReadRight, SecondReadRight, Reading
<1> QED BY <1>4, <1>5, <1>7, <1>8, <1>9, <1>10 DEF ListInv

LEMMA ReadsPageKeeps ==
  ASSUME ListInv, NEW src \in Feeds, ReadsPageOf(src)
  PROVE  ListInv'
<1>1. Reading /\ ~read.walk[src].done /\ UNCHANGED <<wixState, firstRead, shrank, stood, ever>>
  BY DEF ReadsPageOf
<1>2. PICK data \in PagesAt(src), cut \in BOOLEAN :
         IF \/ read.walk[src].page > MaxWixPages
            \/ SeenBefore(read.walk[src], data)
            \/ Truncated(src, data, cut)
         THEN SyncAborts
         ELSE read' = [read EXCEPT !.walk[src] = WithPage(src, data, ~Full(src, data, cut))]
  BY DEF ReadsPageOf
<1>3. CASE SyncAborts
  BY <1>1, <1>3, AbortKeeps
<1>4. CASE ~SyncAborts
  BY <1>1, <1>2, <1>4, PageKeeps
<1> QED BY <1>3, <1>4

LEMMA SyncStartsKeeps ==
  ASSUME ListInv, SyncStarts
  PROVE  ListInv'
<1>t. ListShape
  BY DEF ListInv
<1>1. /\ NewWalk \in WalkRec /\ NewWalk.got = {} /\ NewWalk.page = 1 /\ NewWalk.done = FALSE
      /\ \A e \in Entries : NewWalk.class[e] = "absent"
  BY DEF NewWalk, WalkRec, ReadClass
<1>2. /\ read' \in [at : {"idle", "first", "second", "folded", "aborted"}, walk : [Feeds -> WalkRec]]
      /\ read'.at = "first" /\ \A src \in Feeds : read'.walk[src] = NewWalk
  BY <1>1 DEF SyncStarts, NewRead
<1>3. /\ list' = list /\ good' = good /\ firstRead' = firstRead /\ shrank' = shrank
      /\ stood' = Shown \cap good /\ ever' = Shown \cap good /\ Shown' = Shown
      /\ \A src \in Feeds : Listed(src)' = Listed(src)
  BY DEF SyncStarts, wixState, Listed, Shown
<1>4. ListShape'
  BY <1>t, <1>1, <1>2, <1>3 DEF ListShape
<1>5. PagesWereFull'
  <2>1. Offset' = 0 /\ read'.walk["orders"].got = {}
    BY <1>t, <1>1, <1>2, FeedsAre, OffsetIs DEF Offset
  <2> QED BY <2>1, FS_EmptySet DEF PagesWereFull
<1>6. StoodIsListed' /\ WholeOrRefused' /\ ReadRight'
  BY <1>1, <1>2, <1>3, FeedsAre DEF StoodIsListed, WholeOrRefused, ReadRight, ClassRead
<1>7. FirstReadRight' /\ SecondReadRight'
  BY <1>2 DEF FirstReadRight, SecondReadRight
<1> QED BY <1>4, <1>5, <1>6, <1>7 DEF ListInv

LEMMA SecondReadKeeps ==
  ASSUME ListInv, SecondReadStarts
  PROVE  ListInv'
<1>t. ListShape /\ StoodIsListed /\ WholeOrRefused /\ ReadRight
  BY DEF ListInv
<1>1. /\ NewWalk \in WalkRec /\ NewWalk.got = {} /\ NewWalk.page = 1 /\ NewWalk.done = FALSE
      /\ \A e \in Entries : NewWalk.class[e] = "absent"
  BY DEF NewWalk, WalkRec, ReadClass
<1>2. /\ read' \in [at : {"idle", "first", "second", "folded", "aborted"}, walk : [Feeds -> WalkRec]]
      /\ read'.at = "second" /\ \A src \in Feeds : read'.walk[src] = NewWalk
  BY <1>1 DEF SecondReadStarts, NewRead
<1>3. /\ list' = list /\ good' = good /\ shrank' = shrank /\ stood' = stood /\ ever' = ever /\ Shown' = Shown
      /\ \A src \in Feeds : Listed(src)' = Listed(src)
      /\ firstRead' = [e \in Entries |-> ClassRead(e)]
      /\ read.at = "first" /\ Reading /\ Syncing /\ \A src \in Feeds : read.walk[src].done
  BY DEF SecondReadStarts, wixState, Listed, Shown, WalksDone, Reading, Syncing
<1>4. ListShape'
  <2>1. \A e \in Entries : ClassRead(e) \in ReadClass
    <3>1. \A src \in Feeds : read.walk[src] \in WalkRec
      BY <1>t DEF ListShape
    <3>2. \A src \in Feeds : read.walk[src].class \in [Entries -> ReadClass]
      BY <3>1 DEF WalkRec
    <3> QED BY <3>2, FeedsAre DEF ClassRead
  <2> QED BY <1>t, <1>1, <1>2, <1>3, <2>1 DEF ListShape
<1>5. PagesWereFull'
  <2>1. Offset' = 0 /\ read'.walk["orders"].got = {}
    BY <1>t, <1>1, <1>2, FeedsAre, OffsetIs DEF Offset
  <2> QED BY <2>1, FS_EmptySet DEF PagesWereFull
<1>6. StoodIsListed' /\ WholeOrRefused' /\ ReadRight' /\ SecondReadRight'
  BY <1>t, <1>1, <1>2, <1>3, FeedsAre DEF StoodIsListed, WholeOrRefused, ReadRight, SecondReadRight, ClassRead
<1>7. FirstReadRight'
  <2> SUFFICES ASSUME NEW e \in Entries
               PROVE  /\ ClassRead(e) = "paying" => e \in ever
                      /\ e \in stood \ Guests => ClassRead(e) = "paying" \/ <<SourceOf(e), "first">> \in shrank
    BY <1>3 DEF FirstReadRight
  <2>1. e \in stood /\ <<SourceOf(e), "first">> \notin shrank => e \in read.walk[SourceOf(e)].got
    BY <1>t, <1>3, FeedsAre DEF WholeOrRefused
  <2> QED BY <1>t, <1>3, <2>1 DEF ReadRight
<1> QED BY <1>4, <1>5, <1>6, <1>7 DEF ListInv

LEMMA FoldsKeeps ==
  ASSUME ListInv, Folds
  PROVE  ListInv'
<1>t. ListShape /\ StoodIsListed /\ WholeOrRefused /\ ReadRight /\ FirstReadRight
  BY DEF ListInv
<1>1. /\ read' = [read EXCEPT !.at = "folded"] /\ firstRead' = firstRead
      /\ list' = list /\ good' = good /\ shrank' = shrank /\ stood' = stood /\ ever' = ever /\ Shown' = Shown
      /\ \A src \in Feeds : Listed(src)' = Listed(src)
      /\ read.at = "second" /\ Reading /\ Syncing /\ \A src \in Feeds : read.walk[src].done
  BY DEF Folds, wixState, Listed, Shown, WalksDone, Reading, Syncing
<1>2. /\ read'.at = "folded" /\ read'.walk = read.walk
      /\ read' \in [at : {"idle", "first", "second", "folded", "aborted"}, walk : [Feeds -> WalkRec]]
  BY <1>t, <1>1 DEF ListShape
<1>3. ListShape'
  BY <1>t, <1>1, <1>2 DEF ListShape
<1>4. StoodIsListed' /\ PagesWereFull' /\ WholeOrRefused' /\ ReadRight' /\ FirstReadRight'
  BY <1>t, <1>1, <1>2 DEF StoodIsListed, PagesWereFull, WholeOrRefused, ReadRight, FirstReadRight, Reading, ClassRead
<1>5. SecondReadRight'
  <2> SUFFICES ASSUME NEW e \in stood \ Guests PROVE ClassRead(e) = "paying" \/ <<SourceOf(e), "second">> \in shrank
    BY <1>1, <1>2 DEF SecondReadRight, ClassRead
  <2>0. e \in Entries
    BY <1>t, <1>1, FeedsAre DEF StoodIsListed, ListShape
  <2>1. e \in stood /\ <<SourceOf(e), "second">> \notin shrank => e \in read.walk[SourceOf(e)].got
    BY <1>t, <1>1, <2>0, FeedsAre DEF WholeOrRefused
  <2> QED BY <1>t, <1>1, <2>0, <2>1 DEF ReadRight
<1> QED BY <1>3, <1>4, <1>5 DEF ListInv

LEMMA ListStep ==
  ASSUME ListInv, [ListsNext]_listVars
  PROVE  ListInv'
<1>1. ASSUME NEW e \in Entries, Buys(e) \/ Loses(e) \/ Reorders(e) \/ EndsOrReturns(e) PROVE ListInv'
  BY <1>1, BuysKeeps, LosesKeeps, ReordersKeeps, EndsOrReturnsKeeps
<1>2. CASE PageBreaks
  BY <1>2, AbortKeeps DEF PageBreaks
<1>3. CASE UNCHANGED listVars
  BY <1>3 DEF listVars, ListInv, ListShape, Listed, StoodIsListed, Syncing, Shown, PagesWereFull, Offset, Reading,
              WholeOrRefused, ReadRight, FirstReadRight, SecondReadRight, ClassRead
<1> QED BY <1>1, <1>2, <1>3, SyncStartsKeeps, ReadsPageKeeps, SecondReadKeeps, FoldsKeeps DEF ListsNext

LEMMA PayersSeen ==
  ASSUME ListInv
  PROVE  ListsHold
<1>t. ListShape /\ StoodIsListed /\ WholeOrRefused /\ ReadRight /\ FirstReadRight /\ SecondReadRight
  BY DEF ListInv
<1>1. SUFFICES ASSUME read.at = "folded"
               PROVE  /\ \A e \in stood \ Guests :
                           BestOf(PairOf[e]) = "paying" \/ \A at \in {"first", "second"} : <<SourceOf(e), at>> \in shrank
                      /\ \A p \in Pairs : BestOf(p) = "paying" => \E e \in ever : PairOf[e] = p
  BY <1>t DEF ListsHold, PayersAreSeen
<1>2. stood \subseteq Entries
  BY <1>t, <1>1, FeedsAre DEF StoodIsListed, Syncing, ListShape
<1>3. ASSUME NEW e \in stood \ Guests PROVE BestOf(PairOf[e]) = "paying" \/ \A at \in {"first", "second"} : <<SourceOf(e), at>> \in shrank
  <2>1. CASE firstRead[e] = "paying" \/ ClassRead(e) = "paying"
    BY <1>2, <2>1 DEF BestOf
  <2>2. CASE ~(firstRead[e] = "paying" \/ ClassRead(e) = "paying")
    BY <1>t, <1>1, <1>2, <2>2 DEF FirstReadRight, SecondReadRight
  <2> QED BY <2>1, <2>2
<1>4. ASSUME NEW p \in Pairs, BestOf(p) = "paying" PROVE \E e \in ever : PairOf[e] = p
  <2>1. PICK e \in Entries : PairOf[e] = p /\ (firstRead[e] = "paying" \/ ClassRead(e) = "paying")
    BY <1>4 DEF BestOf
  <2> QED BY <1>t, <1>1, <2>1 DEF FirstReadRight, ReadRight, Syncing
<1> QED BY <1>3, <1>4

(***************************************************************************)
(* A walk of the orders or the bookings that ends is whole unless the list *)
(* lost an entry meanwhile, and after the two reads nobody who paid all    *)
(* along is read otherwise, for every list, page size, page cap and any    *)
(* number of changes between two pages (wix-plans-api.js _fetchAllOrders,  *)
(* reconciliation.js _readWixTwice).                                       *)
(***************************************************************************)
THEOREM ListsAreWhole == ListsSpec => []ListsHold
<1>1. ListsInit => ListInv
  BY ListsBegin
<1>2. ListInv /\ [ListsNext]_listVars => ListInv'
  BY ListStep
<1>3. ListInv => ListsHold
  BY PayersSeen
<1> QED BY <1>1, <1>2, <1>3, PTL DEF ListsSpec
=============================================================================
