---------------------------- MODULE PeopleProofs ----------------------------
(***************************************************************************)
(* Proofs about a holder's seats, the check of a member, and a login that  *)
(* changes (HolderSeats, MemberCheck, LoginEmailSwap).                     *)
(*                                                                         *)
(* A household that asks for one thing at a time never holds more places   *)
(* than its plan has, and whoever left or was removed has no door when     *)
(* their jobs are done.  The count of the places is read before the write  *)
(* it decides, so the invariant keeps the place free in between: for the   *)
(* draft of an open request, and for the holder from the claim to the end  *)
(* of the grant.                                                           *)
(*                                                                         *)
(* A check takes no role from anyone, and what it calls whole is whole.    *)
(*                                                                         *)
(* A change of the login locks nobody out, leaves the records true, and    *)
(* tells of a Kisi user it leaves over.                                    *)
(***************************************************************************)
EXTENDS HolderSeats, LoginEmailSwap, MemberCheck, FiniteSetTheorems, TLAPS

(* The households the theorem is about, if they ask one thing at a time: a *)
(* plan of at least one, no renewal (it seats a holder who left, see       *)
(* LeftAndRenewed), no job refused by the queue.                           *)
Orderly(s) == s.patient => s.cap >= 1 /\ s.renewals = 0 /\ "enqueue" \notin s.kinds

JobRun  == [kind : {"none", "grant", "revoke", "cancel", "renewal"},
            step : {"idle", "open", "complete", "done", "close", "carry", "insert", "lock", "revoke"}, carry : BOOLEAN]
RowSt   == {"none", "draft", "pending_hardware", "active"}
SeatRec == [at : {"none", "pending_identity", "in_flight", "active", "inactive", "removing", "deleted"}, row : RowSt,
            sub : BOOLEAN, user : BOOLEAN, role : BOOLEAN]
AskRec  == [op : HubOps \cup {"none"}, step : {"idle", "create", "flip", "queue", "act", "flag"},
            who : SUBSET People, row : RowSt, user : BOOLEAN]
HubJob  == [kind : {"grant", "revoke", "cancel", "renewal"}, of : People]

SeatsShape ==
  /\ hubLeft \in HouseholdScenario /\ ordered \in BOOLEAN
  /\ cycles \in Seq([seated : BOOLEAN, open : BOOLEAN]) /\ cycles # <<>>
  /\ holder \in [at : {"in_flight", "active", "inactive"}, row : {"none", "active", "cancelled"}, role : BOOLEAN]
  /\ seat \in [Seats -> SeatRec]
  /\ hubJobs \subseteq HubJob
  /\ hubRun \in [People -> JobRun]
  /\ hubReq \in [HubRequests -> AskRec]
  /\ answered \in [removed : SUBSET Seats, left : BOOLEAN]
  /\ \A s \in Seats : seat[s].row # "none" => seat[s].at # "none"
  /\ \A p \in People : hubRun[p].step \in {"lock", "revoke"} => hubRun[p].kind \in {"cancel", "revoke"}

Waits(kind, p) == [kind |-> kind, of |-> p] \in hubJobs
Under(kind, p) == Waits(kind, p) \/ hubRun[p].kind = kind

Unserved == {"draft", "pending_hardware"}

(* A seat: the grant under way finds it submitted, and once; a door comes  *)
(* with a Kisi user on record, and of one who was removed a revoke is      *)
(* under way, unless it failed.                                            *)
SeatFits(s) ==
  /\ seat[s].row # "none" => seat[s].at \notin {"none", "deleted"}
  /\ Under("grant", s) => seat[s].sub /\ seat[s].row = "pending_hardware"
  /\ hubRun[s].kind = "grant" => ~Waits("grant", s) /\ hubRun[s].step \in {"open", "complete"}
  /\ hubRun[s].kind = "grant" /\ hubRun[s].step = "complete" => seat[s].user
  /\ seat[s].role => seat[s].user /\ (seat[s].row = "active" \/ hubRun[s].kind = "grant")
  /\ seat[s].row = "active" => seat[s].user
  /\ seat[s].user /\ ~Under("grant", s) => seat[s].row \notin Unserved
  /\ Under("revoke", s) => seat[s].row \notin Unserved /\ (s \in answered.removed \/ seat[s].at # "none")
  /\ s \in answered.removed => seat[s].row \notin Unserved
  /\ s \in answered.removed /\ "job" \notin hubHappened /\ seat[s].role => Under("revoke", s)

Open(r) == hubReq[r] # NoAsk
OneAsk  == \A r, q \in HubRequests : Open(r) /\ Open(q) => r = q

Claiming    == \E r \in HubRequests : hubReq[r].op = "claim"
ClaimedFlag == \E r \in HubRequests : hubReq[r].op = "claim" /\ hubReq[r].step = "queue"

(* An open request: what it read is still so.                              *)
AddFits(q)    == q.op = "add" => Occupied < hubLeft.cap
SubmitFits(q) ==
  q.op = "submit" =>
    \A s \in q.who : /\ s \in Seats /\ seat[s].sub /\ ~Under("grant", s)
                     /\ seat[s].row = IF q.step = "flip" THEN "draft" ELSE "pending_hardware"
RemoveFits(q) ==
  q.op = "remove" =>
    \E s \in Seats :
      /\ q.who = {s} /\ ~Under("grant", s)
      /\ q.row = "draft" => seat[s].row = "draft"
      /\ ~q.user => ~seat[s].user
      /\ q.row # "draft" /\ q.user => seat[s].row \notin Unserved
      /\ q.step = "queue" => q.row # "draft" /\ q.user
HolderAsks(q) ==
  /\ q.op = "claim" /\ q.step = "queue" => ~SeatReleased
  /\ q.op = "claim" /\ q.step # "queue" => ~Under("revoke", Holder) \/ ~ordered
  /\ q.op = "release" /\ q.step = "queue" => SeatReleased
AskFits(r) ==
  /\ hubReq[r].op = "none" => hubReq[r] = NoAsk
  /\ AddFits(hubReq[r]) /\ SubmitFits(hubReq[r]) /\ RemoveFits(hubReq[r]) /\ HolderAsks(hubReq[r])

(* What may leave a holder who left with the role: the sweep closed the    *)
(* row before the revoke looked for them, or a revoke failed.              *)
KeepsRole == holder.row = "cancelled" \/ "job" \in hubHappened

(* The holder: who pays and did not leave is in, or on the way in; who     *)
(* left is out, or on the way out; and a place is kept for who comes.      *)
HolderFits ==
  /\ ordered /\ ~SeatReleased => (holder.row = "active" /\ holder.role) \/ ClaimedFlag \/ Under("grant", Holder)
  /\ Under("revoke", Holder) => SeatReleased \/ ~ordered
  /\ Under("cancel", Holder) => ~ordered
  /\ Under("grant", Holder) => ~SeatReleased /\ \A r \in HubRequests : Open(r) => ClaimedFlag
  /\ hubRun[Holder].kind = "grant" => holder.role
  /\ holder.role => holder.row # "none" \/ Under("grant", Holder)
  /\ answered.left => ClaimedFlag \/ (SeatReleased /\ (holder.role => Under("revoke", Holder) \/ Under("cancel", Holder) \/ KeepsRole))
  /\ Claiming \/ Under("grant", Holder) => holder.row = "active" \/ SubSlots < hubLeft.cap

Patient ==
  /\ Len(cycles) = 1 /\ cycles[1].open /\ ~Under("renewal", Holder)
  /\ OneAsk /\ (\A s \in Seats : SeatFits(s)) /\ (\A r \in HubRequests : AskFits(r)) /\ HolderFits
  /\ Occupied <= hubLeft.cap

SeatsInv == SeatsShape /\ Orderly(hubLeft) /\ (hubLeft.patient => Patient)

-----------------------------------------------------------------------------
(* The types.                                                              *)

LEMMA ConstRecords ==
  /\ NoJobRun \in JobRun /\ NoJobRun.kind = "none" /\ NoJobRun.step = "idle"
  /\ NoAsk \in AskRec /\ NoAsk.op = "none"
  /\ Nowhere \in SeatRec /\ Nowhere.at = "none" /\ Nowhere.row = "none" /\ ~Nowhere.sub /\ ~Nowhere.user /\ ~Nowhere.role
BY DEF NoJobRun, JobRun, NoAsk, AskRec, Nowhere, SeatRec, RowSt

LEMMA PeopleAre == Holder \in People /\ Seats \subseteq People /\ Holder \notin Seats
BY HolderSeatsAssumption DEF People

(* What is left of a scenario: only less.                                  *)
LeftGoes ==
  /\ hubLeft' \in HouseholdScenario
  /\ hubLeft'.cap = hubLeft.cap /\ hubLeft'.patient = hubLeft.patient /\ hubLeft'.kinds = hubLeft.kinds
  /\ hubLeft'.renewals <= hubLeft.renewals
  /\ hubHappened \subseteq hubHappened'

LEMMA SlipGoes ==
  ASSUME SeatsShape, NEW f, Slip(f)
  PROVE  LeftGoes /\ f \in hubLeft.kinds
<1>1. hubLeft \in HouseholdScenario
  BY DEF SeatsShape
<1>2. /\ f \in hubLeft.kinds /\ hubLeft.faults \in Nat /\ hubLeft.faults - 1 \in Nat /\ hubLeft.renewals \in Nat
      /\ hubLeft' = [hubLeft EXCEPT !.faults = hubLeft.faults - 1] /\ hubHappened \subseteq hubHappened'
  BY <1>1 DEF Slip, HouseholdScenario
<1> QED  BY <1>1, <1>2 DEF LeftGoes, HouseholdScenario

LEMMA SmoothGoes ==
  ASSUME SeatsShape, Smooth
  PROVE  LeftGoes
<1>1. hubLeft \in HouseholdScenario /\ hubLeft' = hubLeft /\ hubHappened' = hubHappened
  BY DEF SeatsShape, Smooth
<1> QED  BY <1>1 DEF LeftGoes, HouseholdScenario

LEMMA AskGoes ==
  ASSUME SeatsShape, NEW r, NEW op, MayAsk(r, op)
  PROVE  LeftGoes
<1>1. hubLeft \in HouseholdScenario
  BY DEF SeatsShape
<1>2. /\ hubLeft.asks \in Nat /\ hubLeft.asks - 1 \in Nat /\ hubLeft.renewals \in Nat
      /\ hubLeft' = [hubLeft EXCEPT !.asks = hubLeft.asks - 1] /\ hubHappened' = hubHappened
  BY <1>1 DEF MayAsk, HouseholdScenario
<1> QED  BY <1>1, <1>2 DEF LeftGoes, HouseholdScenario

LEMMA RenewGoes ==
  ASSUME SeatsShape, OrderRenews
  PROVE  LeftGoes /\ hubLeft.renewals > 0
<1>1. hubLeft \in HouseholdScenario
  BY DEF SeatsShape
<1>2. /\ hubLeft.renewals \in Nat /\ hubLeft.renewals - 1 \in Nat /\ hubLeft.renewals > 0
      /\ hubLeft' = [hubLeft EXCEPT !.renewals = hubLeft.renewals - 1] /\ hubHappened' = hubHappened
  BY <1>1 DEF OrderRenews, HouseholdScenario
<1> QED  BY <1>1, <1>2 DEF LeftGoes, HouseholdScenario

LEMMA AskTyped ==
  ASSUME SeatsShape, NEW r \in HubRequests, NEW op \in HubOps, NEW step \in {"idle", "create", "flip", "queue", "act", "flag"},
         NEW who \in SUBSET People, NEW st \in RowSt, NEW user \in BOOLEAN, Ask(r, op, step, who, st, user)
  PROVE  /\ hubReq' \in [HubRequests -> AskRec]
         /\ hubReq'[r] = [op |-> op, step |-> step, who |-> who, row |-> st, user |-> user]
         /\ \A q \in HubRequests : q # r => hubReq'[q] = hubReq[q]
<1> DEFINE x == [op |-> op, step |-> step, who |-> who, row |-> st, user |-> user]
<1>1. x \in AskRec
  BY DEF AskRec
<1>2. hubReq' = [hubReq EXCEPT ![r] = x]
  BY DEF Ask
<1> HIDE DEF x
<1>3. hubReq' \in [HubRequests -> AskRec] /\ hubReq'[r] = x /\ \A q \in HubRequests : q # r => hubReq'[q] = hubReq[q]
  BY <1>1, <1>2 DEF SeatsShape
<1> QED  BY <1>3 DEF x

LEMMA StepTyped ==
  ASSUME SeatsShape, NEW r \in HubRequests, NEW step \in {"idle", "create", "flip", "queue", "act", "flag"}, Step(r, step)
  PROVE  /\ hubReq' \in [HubRequests -> AskRec]
         /\ hubReq'[r].step = step /\ hubReq'[r].op = hubReq[r].op /\ hubReq'[r].who = hubReq[r].who
         /\ hubReq'[r].row = hubReq[r].row /\ hubReq'[r].user = hubReq[r].user
         /\ \A q \in HubRequests : q # r => hubReq'[q] = hubReq[q]
<1> DEFINE x == [hubReq[r] EXCEPT !.step = step]
<1>1. /\ x \in AskRec /\ x.step = step /\ x.op = hubReq[r].op /\ x.who = hubReq[r].who
      /\ x.row = hubReq[r].row /\ x.user = hubReq[r].user
  BY DEF AskRec, SeatsShape
<1>2. hubReq' = [hubReq EXCEPT ![r] = x]
  BY DEF Step
<1> HIDE DEF x
<1> QED  BY <1>1, <1>2 DEF SeatsShape

LEMMA ReplyTyped ==
  ASSUME SeatsShape, NEW r \in HubRequests, Reply(r)
  PROVE  /\ hubReq' \in [HubRequests -> AskRec] /\ hubReq'[r] = NoAsk
         /\ \A q \in HubRequests : q # r => hubReq'[q] = hubReq[q]
BY ConstRecords DEF SeatsShape, Reply

(* The slot of a person's job.                                             *)
LEMMA TakesTyped ==
  ASSUME SeatsShape, NEW p \in People, NEW kind \in {"grant", "revoke", "cancel", "renewal"},
         NEW step \in {"open", "complete", "done", "close", "carry", "insert", "revoke"}, Takes(kind, p, step)
  PROVE  /\ hubRun' \in [People -> JobRun] /\ hubJobs' \subseteq HubJob
         /\ hubRun'[p].kind = kind /\ hubRun'[p].step = step /\ hubRun[p].kind = "none" /\ hubRun[p].step = "idle"
         /\ \A q \in People : q # p => hubRun'[q] = hubRun[q]
         /\ Waits(kind, p)
         /\ \A k, q : Waits(k, q)' <=> Waits(k, q) /\ ~(k = kind /\ q = p)
<1> DEFINE x == [kind |-> kind, step |-> step, carry |-> TRUE]
<1>1. x \in JobRun /\ x.kind = kind /\ x.step = step
  BY DEF JobRun
<1>2. hubRun' = [hubRun EXCEPT ![p] = x] /\ hubJobs' = hubJobs \ {[kind |-> kind, of |-> p]} /\ Waits(kind, p)
      /\ hubRun[p] = NoJobRun
  BY DEF Takes, Waits
<1> HIDE DEF x
<1>3. \A k, q : [kind |-> k, of |-> q] = [kind |-> kind, of |-> p] <=> k = kind /\ q = p
  OBVIOUS
<1>4. \A k, q : Waits(k, q)' <=> Waits(k, q) /\ ~(k = kind /\ q = p)
  BY <1>2, <1>3 DEF Waits
<1> QED  BY <1>1, <1>2, <1>4, ConstRecords DEF SeatsShape

LEMMA EndsTyped ==
  ASSUME SeatsShape, NEW p \in People, hubRun' = [hubRun EXCEPT ![p] = NoJobRun]
  PROVE  /\ hubRun' \in [People -> JobRun]
         /\ hubRun'[p].kind = "none" /\ hubRun'[p].step = "idle"
         /\ \A q \in People : q # p => hubRun'[q] = hubRun[q]
BY ConstRecords DEF SeatsShape

LEMMA GoesTyped ==
  ASSUME SeatsShape, NEW p \in People, NEW step \in {"open", "complete", "done", "close", "carry", "insert", "revoke"}, Goes(p, step)
  PROVE  /\ hubRun' \in [People -> JobRun] /\ hubJobs' = hubJobs
         /\ hubRun'[p].kind = hubRun[p].kind /\ hubRun'[p].step = step
         /\ \A q \in People : q # p => hubRun'[q] = hubRun[q]
<1> DEFINE x == [hubRun[p] EXCEPT !.step = step]
<1>1. x \in JobRun /\ x.kind = hubRun[p].kind /\ x.step = step
  BY DEF JobRun, SeatsShape
<1>2. hubRun' = [hubRun EXCEPT ![p] = x] /\ hubJobs' = hubJobs
  BY DEF Goes
<1> HIDE DEF x
<1> QED  BY <1>1, <1>2 DEF SeatsShape

(* Jobs are put in the queue.                                              *)
LEMMA QueuedTyped ==
  ASSUME SeatsShape, NEW kind \in {"grant", "revoke", "cancel", "renewal"}, NEW who \in SUBSET People,
         hubJobs' = hubJobs \cup {[kind |-> kind, of |-> p] : p \in who}
  PROVE  /\ hubJobs' \subseteq HubJob
         /\ \A k, q : Waits(k, q)' <=> Waits(k, q) \/ (k = kind /\ q \in who)
<1>1. {[kind |-> kind, of |-> p] : p \in who} \subseteq HubJob
  BY DEF HubJob
<1>2. \A k, q : [kind |-> k, of |-> q] \in {[kind |-> kind, of |-> p] : p \in who} <=> k = kind /\ q \in who
  OBVIOUS
<1>3. \A k, q : Waits(k, q)' <=> Waits(k, q) \/ (k = kind /\ q \in who)
  BY <1>2 DEF Waits
<1> QED  BY <1>1, <1>3 DEF SeatsShape

LEMMA OneQueued ==
  ASSUME SeatsShape, NEW kind \in {"grant", "revoke", "cancel", "renewal"}, NEW p \in People,
         hubJobs' = hubJobs \cup {[kind |-> kind, of |-> p]}
  PROVE  /\ hubJobs' \subseteq HubJob
         /\ \A k, q : Waits(k, q)' <=> Waits(k, q) \/ (k = kind /\ q = p)
<1>1. [kind |-> kind, of |-> p] \in HubJob
  BY DEF HubJob
<1>2. \A k, q : [kind |-> k, of |-> q] = [kind |-> kind, of |-> p] <=> k = kind /\ q = p
  OBVIOUS
<1>3. \A k, q : Waits(k, q)' <=> Waits(k, q) \/ (k = kind /\ q = p)
  BY <1>2 DEF Waits
<1> QED  BY <1>1, <1>3 DEF SeatsShape

-----------------------------------------------------------------------------
(* Counting the places.                                                    *)

LEMMA Sums ==
  ASSUME HolderSlots \in Nat, HolderSlots' \in Nat, SubSlots \in Nat, SubSlots' \in Nat,
         HolderSlots' <= HolderSlots, SubSlots' <= SubSlots
  PROVE  Occupied' <= Occupied /\ Occupied \in Nat /\ Occupied' \in Nat
<1>1. PICK a, b, c, d \in Nat : a = HolderSlots' /\ b = SubSlots' /\ c = HolderSlots /\ d = SubSlots
  OBVIOUS
<1>2. a <= c /\ b <= d
  BY <1>1
<1>3. a + b <= c + d /\ a + b \in Nat /\ c + d \in Nat
  BY <1>2
<1>4. Occupied' = a + b /\ Occupied = c + d
  BY <1>1 DEF Occupied
<1> QED  BY <1>3, <1>4

Taking(s) == seat[s].sub /\ seat[s].row \in TakesSlot

LEMMA SlotsNat ==
  ASSUME IsFiniteSet(Seats)
  PROVE  SubSlots \in Nat /\ IsFiniteSet({s \in Seats : Taking(s)}) /\ SubSlots = Cardinality({s \in Seats : Taking(s)})
<1>1. {s \in Seats : Taking(s)} \subseteq Seats
  OBVIOUS
<1>2. SubSlots = Cardinality({s \in Seats : Taking(s)})
  BY DEF SubSlots, Taking
<1> QED  BY <1>1, <1>2, FS_Subset, FS_CardinalityType

LEMMA SlotsFewer ==
  ASSUME IsFiniteSet(Seats), \A s \in Seats : Taking(s)' => Taking(s)
  PROVE  SubSlots' <= SubSlots /\ SubSlots' \in Nat /\ SubSlots \in Nat
<1> DEFINE A == {s \in Seats : Taking(s)}
           B == {s \in Seats : Taking(s)'}
<1>1. SubSlots \in Nat /\ IsFiniteSet(A) /\ SubSlots = Cardinality(A)
  BY SlotsNat
<1>2. SubSlots' = Cardinality(B)
  BY DEF SubSlots, Taking
<1>3. B \subseteq A
  OBVIOUS
<1> HIDE DEF A, B
<1> QED  BY <1>1, <1>2, <1>3, FS_Subset, FS_CardinalityType

LEMMA SlotsOneMore ==
  ASSUME IsFiniteSet(Seats), NEW x \in Seats, \A s \in Seats : Taking(s)' => Taking(s) \/ s = x
  PROVE  SubSlots' <= SubSlots + 1 /\ SubSlots' \in Nat /\ SubSlots \in Nat
<1> DEFINE A == {s \in Seats : Taking(s)}
           B == {s \in Seats : Taking(s)'}
<1>1. SubSlots \in Nat /\ IsFiniteSet(A) /\ SubSlots = Cardinality(A)
  BY SlotsNat
<1>2. SubSlots' = Cardinality(B)
  BY DEF SubSlots, Taking
<1>3. B \subseteq A \cup {x}
  OBVIOUS
<1> HIDE DEF A, B
<1>4. IsFiniteSet(A \cup {x}) /\ Cardinality(A \cup {x}) <= Cardinality(A) + 1 /\ Cardinality(A) \in Nat
  <2>1. Cardinality(A) \in Nat
    BY <1>1, FS_CardinalityType
  <2>2. CASE x \in A
    <3>1. A \cup {x} = A
      BY <2>2
    <3>2. PICK n \in Nat : n = Cardinality(A)
      BY <2>1
    <3>3. n <= n + 1
      OBVIOUS
    <3> QED  BY <1>1, <2>1, <3>1, <3>2, <3>3
  <2>3. CASE x \notin A
    <3>1. IsFiniteSet(A \cup {x}) /\ Cardinality(A \cup {x}) = Cardinality(A) + 1
      BY <1>1, <2>3, FS_AddElement
    <3>2. PICK n \in Nat : n = Cardinality(A)
      BY <2>1
    <3>3. n + 1 <= n + 1
      OBVIOUS
    <3> QED  BY <2>1, <3>1, <3>2, <3>3
  <2> QED  BY <2>2, <2>3
<1>5. Cardinality(B) <= Cardinality(A \cup {x}) /\ Cardinality(B) \in Nat /\ Cardinality(A \cup {x}) \in Nat
  BY <1>3, <1>4, FS_Subset, FS_CardinalityType
<1>6. PICK a, b, c \in Nat : a = Cardinality(A) /\ b = Cardinality(B) /\ c = Cardinality(A \cup {x})
  BY <1>4, <1>5
<1>7. b <= a + 1
  BY <1>4, <1>5, <1>6
<1> QED  BY <1>1, <1>2, <1>6, <1>7

-----------------------------------------------------------------------------
(* What a step that is not about it leaves alone.                          *)

LEMMA SeatStays ==
  ASSUME NEW s \in Seats, SeatFits(s), seat'[s] = seat[s], hubRun'[s] = hubRun[s],
         Waits("grant", s)' <=> Waits("grant", s), Waits("revoke", s)' <=> Waits("revoke", s),
         s \in answered'.removed <=> s \in answered.removed, hubHappened \subseteq hubHappened'
  PROVE  SeatFits(s)'
BY DEF SeatFits, Under

(* How a seat may go on beside an open request.                            *)
Onward(s) ==
  /\ Under("grant", s)' => Under("grant", s)
  /\ ~Under("grant", s) => /\ seat'[s].user => seat[s].user
                           /\ seat[s].row \in Unserved => seat'[s].row = seat[s].row /\ seat'[s].sub = seat[s].sub
  /\ seat[s].row \notin Unserved => seat'[s].row \notin Unserved

LEMMA QuietAsks ==
  ASSUME SeatsShape, Patient, LeftGoes, hubReq' = hubReq, cycles' = cycles, ordered' => ordered,
         \A s \in Seats : Onward(s),
         Under("revoke", Holder)' => Under("revoke", Holder) \/ ~ordered,
         (\E r \in HubRequests : hubReq[r].op = "add") => Occupied' <= Occupied /\ Occupied \in Nat /\ Occupied' \in Nat
  PROVE  OneAsk' /\ \A r \in HubRequests : AskFits(r)'
<1>1. OneAsk'
  BY DEF Patient, OneAsk, Open
<1>2. ASSUME NEW r \in HubRequests PROVE AskFits(r)'
  <2> DEFINE q == hubReq[r]
  <2>1. AskFits(r) /\ hubReq'[r] = q
    BY DEF Patient
  <2>2. AddFits(q)'
    <3> SUFFICES ASSUME q.op = "add" PROVE Occupied' < hubLeft'.cap
      BY <2>1 DEF AddFits
    <3>1. Occupied < hubLeft.cap /\ hubLeft'.cap = hubLeft.cap /\ hubLeft.cap \in Nat
      BY <2>1 DEF AskFits, AddFits, LeftGoes, SeatsShape, HouseholdScenario
    <3> QED  BY <3>1
  <2>3. SubmitFits(q)'
    BY <2>1 DEF AskFits, SubmitFits, Onward, Unserved
  <2>4. RemoveFits(q)'
    <3> SUFFICES ASSUME q.op = "remove" PROVE RemoveFits(q)'
      BY <2>1 DEF RemoveFits
    <3>1. PICK s \in Seats :
             /\ q.who = {s} /\ ~Under("grant", s)
             /\ q.row = "draft" => seat[s].row = "draft"
             /\ ~q.user => ~seat[s].user
             /\ q.row # "draft" /\ q.user => seat[s].row \notin Unserved
             /\ q.step = "queue" => q.row # "draft" /\ q.user
      BY <2>1 DEF AskFits, RemoveFits
    <3> QED  BY <2>1, <3>1 DEF RemoveFits, Onward, Unserved
  <2>5. HolderAsks(q)'
    BY <2>1 DEF AskFits, HolderAsks, SeatReleased
  <2> QED  BY <2>1, <2>2, <2>3, <2>4, <2>5 DEF AskFits
<1> QED  BY <1>1, <1>2

LEMMA HolderStays ==
  ASSUME SeatsShape, Patient, LeftGoes, IsFiniteSet(Seats), hubReq' = hubReq, UNCHANGED <<ordered, cycles, holder>>,
         answered'.left = answered.left, hubRun'[Holder] = hubRun[Holder],
         \A k : Waits(k, Holder)' <=> Waits(k, Holder),
         \A s \in Seats : Taking(s)' => Taking(s)
  PROVE  /\ HolderFits' /\ Occupied' <= hubLeft'.cap /\ Occupied' <= Occupied /\ Occupied \in Nat /\ Occupied' \in Nat
         /\ ~Under("renewal", Holder)' /\ Len(cycles') = 1 /\ cycles'[1].open
<1>1. SubSlots' <= SubSlots /\ SubSlots' \in Nat /\ SubSlots \in Nat
  BY SlotsFewer
<1>2. \A k : Under(k, Holder)' <=> Under(k, Holder)
  BY DEF Under
<1>3. HolderSlots' = HolderSlots /\ HolderSlots \in Nat
  BY DEF HolderSlots
<1>4. hubLeft'.cap = hubLeft.cap /\ hubLeft.cap \in Nat
  BY DEF LeftGoes, SeatsShape, HouseholdScenario
<1>5. (ClaimedFlag <=> ClaimedFlag') /\ (Claiming <=> Claiming') /\ (\A r \in HubRequests : Open(r)' <=> Open(r))
  BY DEF ClaimedFlag, Claiming, Open
<1>6. SeatReleased' <=> SeatReleased
  BY DEF SeatReleased
<1>7. HolderFits /\ Occupied <= hubLeft.cap /\ ~Under("renewal", Holder) /\ Len(cycles) = 1 /\ cycles[1].open
  BY DEF Patient
<1>8. Occupied' <= Occupied /\ Occupied \in Nat /\ Occupied' \in Nat
  BY <1>1, <1>3, Sums
<1>9. HolderFits'
  BY <1>1, <1>2, <1>4, <1>5, <1>6, <1>7 DEF HolderFits, KeepsRole, LeftGoes
<1> QED  BY <1>2, <1>4, <1>7, <1>8, <1>9

(* One seat goes on, by a job of its own or by the sweep.                  *)
LEMMA SeatStep ==
  ASSUME SeatsInv, SeatsShape', LeftGoes, IsFiniteSet(Seats), NEW x \in Seats,
         UNCHANGED <<ordered, cycles, holder, hubReq, answered>>,
         \A s \in Seats : s # x => seat'[s] = seat[s],
         \A p \in People : p # x => hubRun'[p] = hubRun[p],
         \A k, p : p # x => (Waits(k, p)' <=> Waits(k, p)),
         hubLeft.patient => SeatFits(x)' /\ Onward(x) /\ (Taking(x)' => Taking(x))
  PROVE  SeatsInv'
<1>1. Orderly(hubLeft)'
  BY DEF SeatsInv, Orderly, LeftGoes, SeatsShape, HouseholdScenario
<1>2. ASSUME hubLeft.patient PROVE Patient'
  <2>0. SeatsShape /\ Patient
    BY <1>2 DEF SeatsInv
  <2>1. \A s \in Seats : s # x => Onward(s) /\ (Taking(s)' => Taking(s))
    BY PeopleAre DEF Onward, Under, Taking
  <2>2. \A s \in Seats : Onward(s) /\ (Taking(s)' => Taking(s))
    BY <1>2, <2>1
  <2>3. x # Holder
    BY PeopleAre
  <2>4. /\ HolderFits' /\ Occupied' <= hubLeft'.cap /\ Occupied' <= Occupied /\ Occupied \in Nat /\ Occupied' \in Nat
        /\ ~Under("renewal", Holder)' /\ Len(cycles') = 1 /\ cycles'[1].open
    BY <2>0, <2>2, <2>3, PeopleAre, HolderStays
  <2>5. Under("revoke", Holder)' => Under("revoke", Holder)
    BY <2>3, PeopleAre DEF Under
  <2>6. OneAsk' /\ \A r \in HubRequests : AskFits(r)'
    BY <2>0, <2>2, <2>4, <2>5, QuietAsks
  <2>7. ASSUME NEW s \in Seats PROVE SeatFits(s)'
    <3>1. CASE s = x
      BY <1>2, <3>1
    <3>2. CASE s # x
      <4>1. SeatFits(s) /\ hubHappened \subseteq hubHappened'
        BY <2>0 DEF Patient, LeftGoes
      <4> QED  BY <3>2, <4>1, PeopleAre, SeatStays
    <3> QED  BY <3>1, <3>2
  <2> QED  BY <2>4, <2>6, <2>7 DEF Patient
<1> QED  BY <1>1, <1>2 DEF SeatsInv, LeftGoes

LEMMA SeatAction ==
  ASSUME SeatsInv, LeftGoes, IsFiniteSet(Seats), NEW x \in Seats, NEW v \in SeatRec, v.row # "none" => v.at # "none",
         seat' = [seat EXCEPT ![x] = v],
         UNCHANGED <<ordered, cycles, holder, hubReq, answered>>,
         hubRun' \in [People -> JobRun], hubJobs' \subseteq HubJob,
         hubRun'[x].step \in {"lock", "revoke"} => hubRun'[x].kind \in {"cancel", "revoke"},
         \A p \in People : p # x => hubRun'[p] = hubRun[p],
         \A k, p : p # x => (Waits(k, p)' <=> Waits(k, p)),
         hubLeft.patient => SeatFits(x)' /\ Onward(x) /\ (v.sub /\ v.row \in TakesSlot => Taking(x))
  PROVE  SeatsInv'
<1>1. SeatsShape
  BY DEF SeatsInv
<1>2. seat' \in [Seats -> SeatRec] /\ seat'[x] = v /\ \A s \in Seats : s # x => seat'[s] = seat[s]
  BY <1>1 DEF SeatsShape
<1>3. SeatsShape'
  <2>1. \A s \in Seats : seat'[s].row # "none" => seat'[s].at # "none"
    BY <1>1, <1>2 DEF SeatsShape
  <2>2. \A p \in People : hubRun'[p].step \in {"lock", "revoke"} => hubRun'[p].kind \in {"cancel", "revoke"}
    BY <1>1 DEF SeatsShape
  <2>3. hubLeft' \in HouseholdScenario
    BY DEF LeftGoes
  <2> QED  BY <1>1, <1>2, <2>1, <2>2, <2>3 DEF SeatsShape
<1>4. hubLeft.patient => SeatFits(x)' /\ Onward(x) /\ (Taking(x)' => Taking(x))
  BY <1>2 DEF Taking, TakesSlot
<1> QED  BY <1>2, <1>3, <1>4, SeatStep

LEMMA GrantStartsStep ==
  ASSUME SeatsInv, IsFiniteSet(Seats), NEW s \in Seats, GrantStarts(s)
  PROVE  SeatsInv'
<1> DEFINE v == [seat[s] EXCEPT !.at = "in_flight", !.user = seat[s].user /\ seat[s].at # "deleted"]
<1>1. SeatsShape /\ s \in People /\ seat[s] \in SeatRec
  BY PeopleAre DEF SeatsInv, SeatsShape
<1>2. LeftGoes
  BY <1>1, SmoothGoes DEF GrantStarts
<1>3. /\ v \in SeatRec /\ v.at = "in_flight" /\ v.user = (seat[s].user /\ seat[s].at # "deleted")
      /\ v.row = seat[s].row /\ v.sub = seat[s].sub /\ v.role = seat[s].role
  BY <1>1 DEF SeatRec
<1>4. seat' = [seat EXCEPT ![s] = v] /\ Takes("grant", s, "open") /\ hubHappened' = hubHappened
      /\ UNCHANGED <<ordered, cycles, holder, hubReq, answered>>
  BY DEF GrantStarts, money, request, Smooth
<1> HIDE DEF v
<1>5. /\ hubRun' \in [People -> JobRun] /\ hubJobs' \subseteq HubJob
      /\ hubRun'[s].kind = "grant" /\ hubRun'[s].step = "open" /\ hubRun[s].kind = "none"
      /\ \A q \in People : q # s => hubRun'[q] = hubRun[q]
      /\ Waits("grant", s)
      /\ \A k, q : Waits(k, q)' <=> Waits(k, q) /\ ~(k = "grant" /\ q = s)
  BY <1>1, <1>4, TakesTyped
<1>6. seat'[s] = v
  BY <1>1, <1>4 DEF SeatsShape
<1>7. ASSUME hubLeft.patient PROVE SeatFits(s)' /\ Onward(s) /\ (v.sub /\ v.row \in TakesSlot => Taking(s))
  <2>1. SeatFits(s) /\ Under("grant", s)
    BY <1>5, <1>7 DEF SeatsInv, Patient, Under
  <2>2. seat[s].sub /\ seat[s].row = "pending_hardware" /\ seat[s].at \notin {"none", "deleted"} /\ v.user = seat[s].user
        /\ ~Under("revoke", s) /\ s \notin answered.removed /\ (seat[s].role => seat[s].user)
    BY <1>1, <1>3, <2>1 DEF SeatFits, Unserved, SeatRec
  <2>3. Under("grant", s)' /\ ~Under("revoke", s)' /\ ~Waits("grant", s)'
    BY <1>5, <2>2 DEF Under
  <2>4. SeatFits(s)'
    BY <1>3, <1>4, <1>5, <1>6, <2>2, <2>3 DEF SeatFits
  <2>5. Onward(s) /\ (v.sub /\ v.row \in TakesSlot => Taking(s))
    BY <1>3, <2>1, <2>2 DEF Onward, Unserved, Taking, TakesSlot
  <2> QED  BY <2>4, <2>5
<1> QED  BY <1>1, <1>2, <1>3, <1>4, <1>5, <1>7, SeatAction DEF SeatsShape

LEMMA GrantOpensStep ==
  ASSUME SeatsInv, IsFiniteSet(Seats), NEW s \in Seats, GrantOpens(s)
  PROVE  SeatsInv'
<1> DEFINE v == [seat[s] EXCEPT !.role = TRUE, !.user = seat[s].at # "none"]
<1>1. SeatsShape /\ s \in People /\ seat[s] \in SeatRec
  BY PeopleAre DEF SeatsInv, SeatsShape
<1>2. LeftGoes
  BY <1>1, SmoothGoes DEF GrantOpens
<1>3. /\ v \in SeatRec /\ v.at = seat[s].at /\ v.user = (seat[s].at # "none")
      /\ v.row = seat[s].row /\ v.sub = seat[s].sub /\ v.role
  BY <1>1 DEF SeatRec
<1>4. seat' = [seat EXCEPT ![s] = v] /\ Goes(s, "complete") /\ hubRun[s].kind = "grant" /\ hubHappened' = hubHappened
      /\ UNCHANGED <<ordered, cycles, holder, hubReq, answered>>
  BY <1>1 DEF GrantOpens, money, request, Smooth, At, SeatsShape
<1> HIDE DEF v
<1>5. /\ hubRun' \in [People -> JobRun] /\ hubJobs' = hubJobs
      /\ hubRun'[s].kind = "grant" /\ hubRun'[s].step = "complete"
      /\ \A q \in People : q # s => hubRun'[q] = hubRun[q]
      /\ \A k, q : Waits(k, q)' <=> Waits(k, q)
  BY <1>1, <1>4, GoesTyped DEF Waits
<1>6. seat'[s] = v
  BY <1>1, <1>4 DEF SeatsShape
<1>7. ASSUME hubLeft.patient PROVE SeatFits(s)' /\ Onward(s) /\ (v.sub /\ v.row \in TakesSlot => Taking(s))
  <2>1. SeatFits(s) /\ Under("grant", s)
    BY <1>4, <1>7 DEF SeatsInv, Patient, Under
  <2>2. seat[s].sub /\ seat[s].row = "pending_hardware" /\ seat[s].at \notin {"none", "deleted"} /\ v.user
        /\ ~Under("revoke", s) /\ s \notin answered.removed /\ ~Waits("grant", s)
    BY <1>1, <1>3, <1>4, <2>1 DEF SeatFits, Unserved, SeatRec
  <2>3. Under("grant", s)' /\ ~Under("revoke", s)' /\ ~Waits("grant", s)'
    BY <1>5, <2>2 DEF Under
  <2>4. SeatFits(s)'
    BY <1>3, <1>4, <1>5, <1>6, <2>2, <2>3 DEF SeatFits
  <2>5. Onward(s) /\ (v.sub /\ v.row \in TakesSlot => Taking(s))
    BY <1>3, <2>1, <2>2 DEF Onward, Unserved, Taking, TakesSlot
  <2> QED  BY <2>4, <2>5
<1> QED  BY <1>1, <1>2, <1>3, <1>4, <1>5, <1>7, SeatAction DEF SeatsShape

LEMMA GrantCompletesStep ==
  ASSUME SeatsInv, IsFiniteSet(Seats), NEW s \in Seats, GrantCompletes(s)
  PROVE  SeatsInv'
<1> DEFINE v == IF seat[s].at = "none" THEN seat[s] ELSE [seat[s] EXCEPT !.at = "active", !.row = "active"]
<1>1. SeatsShape /\ s \in People /\ seat[s] \in SeatRec
  BY PeopleAre DEF SeatsInv, SeatsShape
<1>2. LeftGoes
  BY <1>1, SmoothGoes DEF GrantCompletes
<1>3. /\ v \in SeatRec /\ v.user = seat[s].user /\ v.sub = seat[s].sub /\ v.role = seat[s].role
      /\ seat[s].at # "none" => v.at = "active" /\ v.row = "active"
      /\ seat[s].at = "none" => v = seat[s]
  BY <1>1 DEF SeatRec, RowSt
<1>4. /\ seat' = [seat EXCEPT ![s] = v] /\ hubRun' = [hubRun EXCEPT ![s] = NoJobRun] /\ hubHappened' = hubHappened
      /\ hubRun[s].kind = "grant" /\ hubRun[s].step = "complete"
      /\ UNCHANGED <<ordered, cycles, holder, hubReq, answered>>
      /\ hubJobs' = hubJobs \/ (seat[s].at = "none" /\ hubJobs' = hubJobs \cup {[kind |-> "grant", of |-> s]})
  BY <1>1 DEF GrantCompletes, money, request, Smooth, At, SeatsShape
<1> HIDE DEF v
<1>5. /\ hubRun' \in [People -> JobRun]
      /\ hubRun'[s].kind = "none" /\ hubRun'[s].step = "idle"
      /\ \A q \in People : q # s => hubRun'[q] = hubRun[q]
  BY <1>1, <1>4, EndsTyped
<1>6. /\ hubJobs' \subseteq HubJob
      /\ seat[s].at # "none" => hubJobs' = hubJobs
      /\ \A k, q : q # s => (Waits(k, q)' <=> Waits(k, q))
  <2>1. CASE hubJobs' = hubJobs
    BY <1>1, <2>1 DEF Waits, SeatsShape
  <2>2. CASE seat[s].at = "none" /\ hubJobs' = hubJobs \cup {[kind |-> "grant", of |-> s]}
    BY <1>1, <2>2, OneQueued
  <2> QED  BY <1>4, <2>1, <2>2
<1>7. seat'[s] = v
  BY <1>1, <1>4 DEF SeatsShape
<1>8. v.row # "none" => v.at # "none"
  BY <1>1, <1>3 DEF SeatsShape
<1>9. ASSUME hubLeft.patient PROVE SeatFits(s)' /\ Onward(s) /\ (v.sub /\ v.row \in TakesSlot => Taking(s))
  <2>1. SeatFits(s) /\ Under("grant", s)
    BY <1>4, <1>9 DEF SeatsInv, Patient, Under
  <2>2. seat[s].sub /\ seat[s].row = "pending_hardware" /\ seat[s].at \notin {"none", "deleted"} /\ seat[s].user
        /\ ~Waits("revoke", s) /\ s \notin answered.removed /\ ~Waits("grant", s)
    BY <1>1, <1>4, <2>1 DEF SeatFits, Unserved, SeatRec, Under
  <2>3. ~Under("grant", s)' /\ ~Under("revoke", s)'
    BY <1>5, <1>6, <2>2 DEF Under, Waits
  <2>4. SeatFits(s)'
    BY <1>3, <1>4, <1>5, <1>7, <2>2, <2>3 DEF SeatFits, Unserved
  <2>5. Onward(s) /\ (v.sub /\ v.row \in TakesSlot => Taking(s))
    BY <1>3, <2>1, <2>2, <2>3 DEF Onward, Unserved, Taking, TakesSlot
  <2> QED  BY <2>4, <2>5
<1> QED  BY <1>2, <1>3, <1>4, <1>5, <1>6, <1>8, <1>9, SeatAction

LEMMA SkipsTyped ==
  ASSUME SeatsShape, NEW kind, NEW p \in People, Skips(kind, p)
  PROVE  /\ hubRun' = hubRun /\ hubJobs' \subseteq HubJob /\ Waits(kind, p) /\ hubRun[p].kind = "none"
         /\ \A k, q : Waits(k, q)' <=> Waits(k, q) /\ ~(k = kind /\ q = p)
<1>1. \A k, q : [kind |-> k, of |-> q] = [kind |-> kind, of |-> p] <=> k = kind /\ q = p
  OBVIOUS
<1> QED  BY <1>1, ConstRecords DEF Skips, Waits, SeatsShape

LEMMA RevokesSeatStep ==
  ASSUME SeatsInv, IsFiniteSet(Seats), NEW s \in Seats, RevokesSeat(s)
  PROVE  SeatsInv'
<1> DEFINE v == IF Found(s) THEN [seat[s] EXCEPT !.at = "in_flight"] ELSE seat[s]
<1>1. SeatsShape /\ s \in People /\ seat[s] \in SeatRec /\ (seat[s].row # "none" => seat[s].at # "none")
  BY PeopleAre DEF SeatsInv, SeatsShape
<1>2. LeftGoes
  BY <1>1, SmoothGoes DEF RevokesSeat
<1>3. /\ v \in SeatRec /\ v.at \in {seat[s].at, "in_flight"} /\ v.user = seat[s].user
      /\ v.row = seat[s].row /\ v.sub = seat[s].sub /\ v.role = seat[s].role
  BY <1>1 DEF SeatRec
<1>4. /\ seat' = [seat EXCEPT ![s] = v] /\ hubHappened' = hubHappened
      /\ UNCHANGED <<ordered, cycles, holder, hubReq, answered>>
      /\ (Found(s) /\ Takes("revoke", s, "done")) \/ (~Found(s) /\ Skips("revoke", s))
  BY <1>1 DEF RevokesSeat, money, request, Smooth, SeatsShape
<1> HIDE DEF v
<1>5. /\ hubRun' \in [People -> JobRun] /\ hubJobs' \subseteq HubJob /\ hubRun[s].kind = "none"
      /\ (hubRun'[s].kind = "revoke" /\ hubRun'[s].step = "done") \/ (~Found(s) /\ hubRun'[s] = hubRun[s])
      /\ \A q \in People : q # s => hubRun'[q] = hubRun[q]
      /\ Waits("revoke", s)
      /\ \A k, q : Waits(k, q)' <=> Waits(k, q) /\ ~(k = "revoke" /\ q = s)
  <2>1. CASE Takes("revoke", s, "done")
    BY <1>1, <2>1, TakesTyped
  <2>2. CASE ~Found(s) /\ Skips("revoke", s)
    BY <1>1, <2>2, SkipsTyped DEF SeatsShape
  <2> QED  BY <1>4, <2>1, <2>2
<1>6. seat'[s] = v
  BY <1>1, <1>4 DEF SeatsShape
<1>7. ASSUME hubLeft.patient PROVE SeatFits(s)' /\ Onward(s) /\ (v.sub /\ v.row \in TakesSlot => Taking(s))
  <2>1. SeatFits(s) /\ Under("revoke", s)
    BY <1>5, <1>7 DEF SeatsInv, Patient, Under
  <2>2. seat[s].row \notin Unserved /\ (s \in answered.removed \/ seat[s].at # "none") /\ ~Under("grant", s)
    BY <2>1 DEF SeatFits, Unserved
  <2>3. ~Under("grant", s)' /\ ~Waits("grant", s)' /\ hubRun'[s].kind # "grant" /\ (Under("revoke", s)' => Under("revoke", s))
    BY <1>5, <2>1, <2>2 DEF Under
  <2>4. seat[s].role => Under("revoke", s)'
    <3>1. seat[s].role => seat[s].row = "active" /\ seat[s].at # "deleted"
      BY <1>5, <2>1 DEF SeatFits
    <3>2. seat[s].role => Found(s)
      BY <3>1 DEF Found
    <3> QED  BY <1>5, <3>2 DEF Under
  <2>5. SeatFits(s)'
    BY <1>3, <1>4, <1>5, <1>6, <2>1, <2>2, <2>3, <2>4 DEF SeatFits
  <2>6. Onward(s) /\ (v.sub /\ v.row \in TakesSlot => Taking(s))
    BY <1>3, <1>6, <2>2, <2>3 DEF Onward, Taking
  <2> QED  BY <2>5, <2>6
<1>8. hubRun'[s].step \in {"lock", "revoke"} => hubRun'[s].kind \in {"cancel", "revoke"}
  BY <1>1, <1>5 DEF SeatsShape
<1> QED  BY <1>1, <1>2, <1>3, <1>4, <1>5, <1>7, <1>8, SeatAction

LEMMA RevokeDoneStep ==
  ASSUME SeatsInv, IsFiniteSet(Seats), NEW s \in Seats, RevokeDone(s)
  PROVE  SeatsInv'
<1> DEFINE w == [seat[s] EXCEPT !.at = "deleted", !.row = "none", !.user = FALSE, !.role = FALSE]
<1>1. SeatsShape /\ s \in People /\ seat[s] \in SeatRec /\ (seat[s].row # "none" => seat[s].at # "none")
  BY PeopleAre DEF SeatsInv, SeatsShape
<1>2. w \in SeatRec /\ w.at = "deleted" /\ w.row = "none" /\ ~w.user /\ ~w.role /\ w.sub = seat[s].sub
  <2> DEFINE w1 == [seat[s] EXCEPT !.at = "deleted"]
             w2 == [w1 EXCEPT !.row = "none"]
             w3 == [w2 EXCEPT !.user = FALSE]
             w4 == [w3 EXCEPT !.role = FALSE]
  <2>1. w1 \in SeatRec /\ w1.at = "deleted" /\ w1.sub = seat[s].sub
    BY <1>1 DEF SeatRec
  <2>2. w2 \in SeatRec /\ w2.at = "deleted" /\ w2.row = "none" /\ w2.sub = seat[s].sub
    <3> HIDE DEF w1
    <3> QED  BY <2>1 DEF SeatRec, RowSt
  <2>3. w3 \in SeatRec /\ w3.at = "deleted" /\ w3.row = "none" /\ ~w3.user /\ w3.sub = seat[s].sub
    <3> HIDE DEF w2
    <3> QED  BY <2>2 DEF SeatRec
  <2>4. w4 \in SeatRec /\ w4.at = "deleted" /\ w4.row = "none" /\ ~w4.user /\ ~w4.role /\ w4.sub = seat[s].sub
    <3> HIDE DEF w3
    <3> QED  BY <2>3 DEF SeatRec
  <2>5. w4 = w
    BY Zenon
  <2> HIDE DEF w, w4
  <2> QED  BY <2>4, <2>5
<1> DEFINE u == [seat[s] EXCEPT !.at = IF seat[s].at = "none" THEN seat[s].at ELSE RolledUp(seat[s].row)]
<1>a. /\ u \in SeatRec /\ u.user = seat[s].user /\ u.row = seat[s].row /\ u.sub = seat[s].sub /\ u.role = seat[s].role
      /\ (u.at = "none" <=> seat[s].at = "none") /\ u.at \in {"none", "active", "inactive"}
  BY <1>1 DEF SeatRec, RolledUp
<1>3. PICK v : /\ (v = seat[s] /\ Smooth /\ seat[s].at = "none") \/ (v = w /\ Smooth) \/ (v = u /\ Slip("job"))
               /\ seat' = [seat EXCEPT ![s] = v]
  <2>1. CASE Slip("job") /\ seat' = [seat EXCEPT ![s] = u]
    BY <2>1
  <2>2. CASE Smooth /\ seat' = seat /\ seat[s].at = "none"
    BY <1>1, <2>2 DEF SeatsShape
  <2>3. CASE Smooth /\ seat' = [seat EXCEPT ![s] = w]
    BY <2>3
  <2>4. (seat' = (IF seat[s].at = "none" THEN seat ELSE [seat EXCEPT ![s] = w]) /\ Smooth)
        \/ (Slip("job") /\ seat' = [seat EXCEPT ![s] = u])
    BY <1>1 DEF RevokeDone, w, u, SeatsShape
  <2> HIDE DEF w, u
  <2> QED  BY <2>1, <2>2, <2>3, <2>4
<1> HIDE DEF w, u
<1>4. LeftGoes
  BY <1>1, <1>3, SmoothGoes, SlipGoes
<1>5. v \in SeatRec /\ (v.row # "none" => v.at # "none") /\ v.sub = seat[s].sub
  BY <1>1, <1>2, <1>a, <1>3
<1>6. /\ hubRun[s].kind = "revoke" /\ Ends(s) /\ UNCHANGED <<ordered, cycles, holder, hubReq, answered>>
  BY DEF RevokeDone, At, money, request
<1>7. /\ hubRun' \in [People -> JobRun] /\ hubJobs' = hubJobs
      /\ hubRun'[s].kind = "none" /\ hubRun'[s].step = "idle"
      /\ \A q \in People : q # s => hubRun'[q] = hubRun[q]
      /\ \A k, q : Waits(k, q)' <=> Waits(k, q)
  BY <1>1, <1>6, EndsTyped DEF Ends, Waits
<1>8. seat'[s] = v
  BY <1>1, <1>3 DEF SeatsShape
<1>9. ASSUME hubLeft.patient PROVE SeatFits(s)' /\ Onward(s) /\ (v.sub /\ v.row \in TakesSlot => Taking(s))
  <2>1. SeatFits(s) /\ Under("revoke", s)
    BY <1>6, <1>9 DEF SeatsInv, Patient, Under
  <2>2. seat[s].row \notin Unserved /\ (s \in answered.removed \/ seat[s].at # "none") /\ ~Under("grant", s)
    BY <2>1 DEF SeatFits, Unserved
  <2>3. ~Under("grant", s)' /\ (Under("revoke", s)' => Under("revoke", s)) /\ hubRun'[s].kind # "grant" /\ ~Waits("grant", s)'
    BY <1>7, <2>1, <2>2 DEF Under
  <2>4. SeatFits(s)'
    <3>1. CASE v = w
      BY <1>2, <1>6, <1>8, <2>3, <3>1 DEF SeatFits, Unserved
    <3>2. CASE v = u /\ Slip("job")
      <4>1. "job" \in hubHappened'
        BY <3>2 DEF Slip
      <4>2. u.row # "none" => u.at \notin {"none", "deleted"}
        BY <1>1, <1>a
      <4> QED  BY <1>6, <1>8, <1>a, <2>1, <2>2, <2>3, <3>2, <4>1, <4>2 DEF SeatFits
    <3>3. CASE v = seat[s] /\ Smooth /\ seat[s].at = "none"
      <4>1. seat[s].row = "none" /\ ~seat[s].role
        BY <1>1, <1>6, <2>1, <3>3 DEF SeatFits
      <4> QED  BY <1>6, <1>8, <2>1, <2>2, <2>3, <3>3, <4>1 DEF SeatFits, Unserved
    <3> QED  BY <1>3, <3>1, <3>2, <3>3
  <2>5. Onward(s) /\ (v.sub /\ v.row \in TakesSlot => Taking(s))
    BY <1>2, <1>a, <1>3, <1>8, <2>2, <2>3 DEF Onward, Taking, Unserved, TakesSlot
  <2> QED  BY <2>4, <2>5
<1> QED  BY <1>1, <1>3, <1>4, <1>5, <1>6, <1>7, <1>9, SeatAction DEF SeatsShape

LEMMA SweepLapsesStep ==
  ASSUME SeatsInv, IsFiniteSet(Seats), NEW s \in Seats, SweepLapses(s)
  PROVE  SeatsInv'
<1> DEFINE v == [seat[s] EXCEPT !.at = "removing"]
<1>1. SeatsShape /\ s \in People /\ seat[s] \in SeatRec
  BY PeopleAre DEF SeatsInv, SeatsShape
<1>2. LeftGoes
  BY <1>1, SmoothGoes, SlipGoes DEF SweepLapses
<1>3. /\ v \in SeatRec /\ v.at = "removing" /\ v.user = seat[s].user
      /\ v.row = seat[s].row /\ v.sub = seat[s].sub /\ v.role = seat[s].role
  BY <1>1 DEF SeatRec
<1>4. /\ seat' = [seat EXCEPT ![s] = v] /\ hubHappened \subseteq hubHappened'
      /\ hubJobs' = hubJobs \/ hubJobs' = hubJobs \cup {[kind |-> "revoke", of |-> s]}
      /\ UNCHANGED <<ordered, cycles, holder, hubReq, answered>> /\ hubRun' = hubRun
      /\ seat[s].sub /\ seat[s].row = "active" /\ seat[s].at = "active"
  BY <1>2 DEF SweepLapses, Lapsed, money, request, LeftGoes
<1> HIDE DEF v
<1>5. /\ hubJobs' \subseteq HubJob
      /\ \A k, q : Waits(k, q) => Waits(k, q)'
      /\ \A k, q : Waits(k, q)' => Waits(k, q) \/ (k = "revoke" /\ q = s)
  <2>1. CASE hubJobs' = hubJobs
    BY <1>1, <2>1 DEF Waits, SeatsShape
  <2>2. CASE hubJobs' = hubJobs \cup {[kind |-> "revoke", of |-> s]}
    BY <1>1, <2>2, OneQueued
  <2> QED  BY <1>4, <2>1, <2>2
<1>6. seat'[s] = v
  BY <1>1, <1>4 DEF SeatsShape
<1>7. ASSUME hubLeft.patient PROVE SeatFits(s)' /\ Onward(s) /\ (v.sub /\ v.row \in TakesSlot => Taking(s))
  <2>1. SeatFits(s) /\ ~Under("grant", s)
    BY <1>4, <1>7 DEF SeatsInv, Patient, SeatFits
  <2>2. ~Under("grant", s)' /\ (Under("revoke", s) => Under("revoke", s)')
    BY <1>4, <1>5, <2>1 DEF Under
  <2>3. SeatFits(s)'
    BY <1>3, <1>4, <1>5, <1>6, <2>1, <2>2 DEF SeatFits, Unserved
  <2> QED  BY <1>3, <1>4, <1>6, <2>2, <2>3 DEF Onward, Taking
<1>8. \A k, p : p # s => (Waits(k, p)' <=> Waits(k, p))
  BY <1>5
<1> QED  BY <1>1, <1>2, <1>3, <1>4, <1>5, <1>7, <1>8, SeatAction DEF SeatsShape

LEMMA SeatJobStep ==
  ASSUME SeatsInv, IsFiniteSet(Seats), NEW s \in Seats, SeatJob(s)
  PROVE  SeatsInv'
BY GrantStartsStep, GrantOpensStep, GrantCompletesStep, RevokesSeatStep, RevokeDoneStep DEF SeatJob

-----------------------------------------------------------------------------
(* The holder.                                                             *)

LEMMA PlaceKept ==
  ASSUME IsFiniteSet(Seats), hubLeft.cap \in Nat
  PROVE  /\ SubSlots \in Nat /\ Occupied \in Nat
         /\ holder.row = "active" => (Occupied <= hubLeft.cap <=> SubSlots < hubLeft.cap)
         /\ holder.row # "active" => (Occupied <= hubLeft.cap <=> SubSlots <= hubLeft.cap)
<1>1. PICK b, c \in Nat : b = SubSlots /\ c = hubLeft.cap
  BY SlotsNat
<1>2. Occupied = (IF holder.row = "active" THEN 1 ELSE 0) + b
  BY <1>1 DEF Occupied, HolderSlots
<1>3. 1 + b \in Nat /\ 0 + b \in Nat /\ (1 + b <= c <=> b < c) /\ (0 + b <= c <=> b <= c)
  OBVIOUS
<1> QED  BY <1>1, <1>2, <1>3

(* The places when no seat changed; the row of the holder may.             *)
LEMMA PlacesThen ==
  ASSUME IsFiniteSet(Seats), hubLeft.cap \in Nat, hubLeft'.cap = hubLeft.cap, seat' = seat
  PROVE  /\ SubSlots' = SubSlots /\ Occupied' \in Nat
         /\ (holder'.row = holder.row \/ holder'.row # "active") => Occupied' <= Occupied
         /\ holder'.row = "active" => (Occupied' <= hubLeft'.cap <=> SubSlots < hubLeft.cap)
         /\ holder'.row # "active" => (Occupied' <= hubLeft'.cap <=> SubSlots <= hubLeft.cap)
<1>1. SubSlots' = SubSlots
  BY DEF SubSlots
<1>2. PICK b, c \in Nat : b = SubSlots /\ c = hubLeft.cap
  BY SlotsNat
<1>3. /\ Occupied' = (IF holder'.row = "active" THEN 1 ELSE 0) + b
      /\ Occupied = (IF holder.row = "active" THEN 1 ELSE 0) + b
  BY <1>1, <1>2 DEF Occupied, HolderSlots
<1>4. /\ 1 + b \in Nat /\ 0 + b \in Nat /\ (1 + b <= c <=> b < c) /\ (0 + b <= c <=> b <= c)
      /\ 0 + b <= 1 + b /\ 0 + b <= 0 + b /\ 1 + b <= 1 + b
  OBVIOUS
<1> QED  BY <1>1, <1>2, <1>3, <1>4

(* The holder moves, and no seat and no request does.                      *)
LEMMA HolderMoves ==
  ASSUME SeatsInv, SeatsShape', LeftGoes, IsFiniteSet(Seats), UNCHANGED <<cycles, seat, hubReq, answered>>, ordered' => ordered,
         \A p \in People : p # Holder => hubRun'[p] = hubRun[p],
         \A k, p : p # Holder => (Waits(k, p)' <=> Waits(k, p)),
         hubLeft.patient =>
           /\ HolderFits' /\ Occupied' <= hubLeft'.cap /\ ~Under("renewal", Holder)'
           /\ Under("revoke", Holder)' => Under("revoke", Holder) \/ ~ordered
           /\ (\E r \in HubRequests : hubReq[r].op = "add") => holder'.row = holder.row \/ holder'.row # "active"
  PROVE  SeatsInv'
<1>1. Orderly(hubLeft)'
  BY DEF SeatsInv, Orderly, LeftGoes, SeatsShape, HouseholdScenario
<1>2. ASSUME hubLeft.patient PROVE Patient'
  <2>0. SeatsShape /\ Patient /\ hubLeft.cap \in Nat /\ hubLeft'.cap = hubLeft.cap
    BY <1>2 DEF SeatsInv, SeatsShape, HouseholdScenario, LeftGoes
  <2>1. \A s \in Seats : Onward(s)
    BY PeopleAre DEF Onward, Under
  <2>2. (\E r \in HubRequests : hubReq[r].op = "add") => Occupied' <= Occupied /\ Occupied \in Nat /\ Occupied' \in Nat
    BY <1>2, <2>0, PlaceKept, PlacesThen
  <2>3. OneAsk' /\ \A r \in HubRequests : AskFits(r)'
    BY <1>2, <2>0, <2>1, <2>2, QuietAsks
  <2>4. ASSUME NEW s \in Seats PROVE SeatFits(s)'
    <3>1. SeatFits(s) /\ hubHappened \subseteq hubHappened' /\ s # Holder
      BY <2>0, PeopleAre DEF Patient, LeftGoes
    <3> QED  BY <3>1, PeopleAre, SeatStays
  <2> QED  BY <1>2, <2>0, <2>3, <2>4 DEF Patient
<1> QED  BY <1>1, <1>2 DEF SeatsInv, LeftGoes

(* Nobody but a claim is open while a grant of the holder's is under way.  *)
LEMMA OnlyAsk ==
  ASSUME Patient, NEW r \in HubRequests, Open(r)
  PROVE  /\ \A q \in HubRequests : q # r => hubReq[q] = NoAsk
         /\ Claiming => hubReq[r].op = "claim"
         /\ ClaimedFlag => hubReq[r].op = "claim" /\ hubReq[r].step = "queue"
         /\ hubReq[r].op = "claim" /\ hubReq[r].step = "queue" => ClaimedFlag
<1>1. \A q \in HubRequests : q # r => hubReq[q] = NoAsk
  BY DEF Patient, OneAsk, Open
<1> QED  BY <1>1, ConstRecords DEF Claiming, ClaimedFlag

LEMMA AsksOpen ==
  ASSUME NEW r \in HubRequests, hubReq[r].op # "none"
  PROVE  Open(r)
BY ConstRecords DEF Open

HolderRec == [at : {"in_flight", "active", "inactive"}, row : {"none", "active", "cancelled"}, role : BOOLEAN]

LEMMA HolderShape ==
  ASSUME SeatsShape, LeftGoes, ordered' \in BOOLEAN, UNCHANGED <<cycles, seat, hubReq, answered>>,
         holder' \in HolderRec, hubJobs' \subseteq HubJob, hubRun' \in [People -> JobRun],
         \A p \in People : p # Holder => hubRun'[p] = hubRun[p],
         hubRun'[Holder].step \in {"lock", "revoke"} => hubRun'[Holder].kind \in {"cancel", "revoke"}
  PROVE  SeatsShape'
<1>1. \A p \in People : hubRun'[p].step \in {"lock", "revoke"} => hubRun'[p].kind \in {"cancel", "revoke"}
  BY DEF SeatsShape
<1>2. \A s \in Seats : seat'[s].row # "none" => seat'[s].at # "none"
  BY DEF SeatsShape
<1> QED  BY <1>1, <1>2 DEF SeatsShape, HolderRec, LeftGoes

LEMMA HolderFacts ==
  ASSUME SeatsInv
  PROVE  /\ SeatsShape /\ holder \in HolderRec /\ Holder \in People /\ hubLeft.cap \in Nat
         /\ hubRun[Holder] \in JobRun /\ hubLeft.patient \in BOOLEAN
         /\ \A p \in People : hubRun[p].step \in {"lock", "revoke"} => hubRun[p].kind \in {"cancel", "revoke"}
         /\ ordered \in BOOLEAN /\ answered.left \in BOOLEAN
         /\ hubLeft.patient => Patient /\ HolderFits /\ Occupied <= hubLeft.cap /\ ~Under("renewal", Holder)
BY PeopleAre DEF SeatsInv, SeatsShape, HolderRec, HouseholdScenario, Patient

LEMMA HolderOpensStep ==
  ASSUME SeatsInv, IsFiniteSet(Seats), NEW kind \in {"grant", "renewal"}, HolderOpens(kind)
  PROVE  SeatsInv'
<1> DEFINE step == IF kind = "renewal" THEN "close" ELSE "complete"
<1>1. SeatsShape /\ holder \in HolderRec /\ Holder \in People /\ hubLeft.cap \in Nat
  BY HolderFacts
<1>2. LeftGoes /\ hubLeft' = hubLeft /\ hubHappened' = hubHappened
  BY <1>1, SmoothGoes DEF HolderOpens, Smooth
<1>3. /\ Takes(kind, Holder, step) /\ step \in {"close", "complete"}
      /\ holder' = [holder EXCEPT !.at = "in_flight", !.role = TRUE]
      /\ UNCHANGED <<ordered, cycles, seat, hubReq, answered>>
  BY DEF HolderOpens, money, request
<1> HIDE DEF step
<1>4. /\ hubRun' \in [People -> JobRun] /\ hubJobs' \subseteq HubJob
      /\ hubRun'[Holder].kind = kind /\ hubRun'[Holder].step = step /\ hubRun[Holder].kind = "none"
      /\ \A q \in People : q # Holder => hubRun'[q] = hubRun[q]
      /\ Waits(kind, Holder)
      /\ \A k, q : Waits(k, q)' <=> Waits(k, q) /\ ~(k = kind /\ q = Holder)
  BY <1>1, <1>3, TakesTyped
<1>5. holder' \in HolderRec /\ holder'.row = holder.row /\ holder'.role
  BY <1>1, <1>3 DEF HolderRec
<1>6. SeatsShape'
  BY <1>1, <1>2, <1>3, <1>4, <1>5, HolderShape DEF SeatsShape
<1>7. ASSUME hubLeft.patient
      PROVE  /\ HolderFits' /\ Occupied' <= hubLeft'.cap /\ ~Under("renewal", Holder)'
             /\ Under("revoke", Holder)' => Under("revoke", Holder) \/ ~ordered
  <2>1. HolderFits /\ Occupied <= hubLeft.cap /\ ~Under("renewal", Holder) /\ Patient
    BY <1>7, HolderFacts
  <2>2. kind = "grant" /\ Under("grant", Holder) /\ ~SeatReleased /\ \A r \in HubRequests : Open(r) => ClaimedFlag
    BY <1>4, <2>1 DEF Under, HolderFits
  <2>3. /\ Under("grant", Holder)'
        /\ \A k \in {"revoke", "cancel", "renewal"} : Under(k, Holder)' <=> Under(k, Holder)
    BY <1>4, <2>2 DEF Under
  <2>4. (ClaimedFlag' <=> ClaimedFlag) /\ (Claiming' <=> Claiming) /\ (\A r \in HubRequests : Open(r)' <=> Open(r)) /\ (SeatReleased' <=> SeatReleased)
    BY <1>3 DEF ClaimedFlag, Claiming, Open, SeatReleased
  <2>5. SubSlots' = SubSlots /\ hubLeft'.cap = hubLeft.cap /\ Occupied' <= hubLeft'.cap
    BY <1>1, <1>2, <1>3, <1>5, <2>1, PlacesThen, PlaceKept
  <2>6. HolderFits'
    BY <1>2, <1>3, <1>5, <2>1, <2>2, <2>3, <2>4, <2>5 DEF HolderFits, KeepsRole, LeftGoes
  <2> QED  BY <2>1, <2>3, <2>5, <2>6
<1>8. \A k, p : p # Holder => (Waits(k, p)' <=> Waits(k, p))
  BY <1>4
<1> QED  BY <1>2, <1>3, <1>4, <1>5, <1>6, <1>7, <1>8, HolderMoves

LEMMA GrantedTyped ==
  ASSUME holder \in HolderRec, NEW seated, Granted(seated)
  PROVE  /\ holder' \in HolderRec /\ holder'.role = holder.role
         /\ seated => holder'.row = "active"
<1> DEFINE now == IF seated THEN "active" ELSE holder.row
<1>1. holder' = [holder EXCEPT !.row = now, !.at = RolledUp(now)]
  BY DEF Granted
<1>2. now \in {"none", "active", "cancelled"} /\ (seated => now = "active")
  BY DEF HolderRec
<1> HIDE DEF now
<1> QED  BY <1>1, <1>2 DEF HolderRec, RolledUp

LEMMA ClaimCompletesStep ==
  ASSUME SeatsInv, IsFiniteSet(Seats), ClaimCompletes
  PROVE  SeatsInv'
<1>1. SeatsShape /\ holder \in HolderRec /\ Holder \in People /\ hubLeft.cap \in Nat
  BY HolderFacts
<1>2. LeftGoes /\ hubLeft' = hubLeft /\ hubHappened' = hubHappened
  BY <1>1, SmoothGoes DEF ClaimCompletes, Smooth
<1>3. /\ hubRun[Holder].kind = "grant" /\ hubJobs' = hubJobs /\ hubRun' = [hubRun EXCEPT ![Holder] = NoJobRun]
      /\ Granted(~SeatReleased)
      /\ UNCHANGED <<ordered, cycles, seat, hubReq, answered>>
  BY DEF ClaimCompletes, money, request, At, Ends
<1>4. /\ hubRun' \in [People -> JobRun] /\ hubRun'[Holder].kind = "none" /\ hubRun'[Holder].step = "idle"
      /\ \A q \in People : q # Holder => hubRun'[q] = hubRun[q]
      /\ \A k, q : Waits(k, q)' <=> Waits(k, q)
  BY <1>1, <1>3, EndsTyped DEF Waits
<1>5. holder' \in HolderRec /\ holder'.role = holder.role /\ (~SeatReleased => holder'.row = "active")
  BY <1>1, <1>3, GrantedTyped
<1>6. SeatsShape'
  BY <1>1, <1>2, <1>3, <1>4, <1>5, HolderShape DEF SeatsShape
<1>7. ASSUME hubLeft.patient
      PROVE  /\ HolderFits' /\ Occupied' <= hubLeft'.cap /\ ~Under("renewal", Holder)'
             /\ Under("revoke", Holder)' => Under("revoke", Holder) \/ ~ordered
             /\ \A r \in HubRequests : hubReq[r].op # "add"
  <2>1. HolderFits /\ Occupied <= hubLeft.cap /\ ~Under("renewal", Holder) /\ Patient
    BY <1>7, HolderFacts
  <2>2. Under("grant", Holder) /\ ~SeatReleased /\ holder.role /\ \A r \in HubRequests : Open(r) => ClaimedFlag
    BY <1>3, <2>1 DEF Under, HolderFits
  <2>3. \A k \in {"grant", "revoke", "cancel", "renewal"} : Under(k, Holder)' => Under(k, Holder)
    BY <1>4 DEF Under
  <2>4. (ClaimedFlag' <=> ClaimedFlag) /\ (Claiming' <=> Claiming) /\ (\A r \in HubRequests : Open(r)' <=> Open(r)) /\ (SeatReleased' <=> SeatReleased)
    BY <1>3 DEF ClaimedFlag, Claiming, Open, SeatReleased
  <2>5. SubSlots' = SubSlots /\ hubLeft'.cap = hubLeft.cap /\ Occupied' <= hubLeft'.cap
    <3>1. holder.row = "active" \/ SubSlots < hubLeft.cap
      BY <2>1, <2>2 DEF HolderFits
    <3>2. SubSlots < hubLeft.cap
      BY <1>1, <2>1, <3>1, PlaceKept
    <3> QED  BY <1>1, <1>2, <1>3, <1>5, <2>2, <3>2, PlacesThen
  <2>6. HolderFits'
    BY <1>2, <1>3, <1>4, <1>5, <2>1, <2>2, <2>3, <2>4, <2>5 DEF HolderFits, KeepsRole, LeftGoes
  <2>7. \A r \in HubRequests : hubReq[r].op # "add"
    BY <2>1, <2>2, AsksOpen, OnlyAsk
  <2> QED  BY <2>1, <2>3, <2>5, <2>6, <2>7
<1> QED  BY <1>2, <1>3, <1>4, <1>6, <1>7, HolderMoves

(* The holder's own revoke: looked for, and done.                          *)
LEMMA HolderLocksStep ==
  ASSUME SeatsInv, IsFiniteSet(Seats), HolderLocks
  PROVE  SeatsInv'
<1>1. SeatsShape /\ holder \in HolderRec /\ Holder \in People /\ hubLeft.cap \in Nat
  BY HolderFacts
<1>2. LeftGoes /\ hubLeft' = hubLeft /\ hubHappened' = hubHappened
  BY <1>1, SmoothGoes DEF HolderLocks, Smooth
<1>3. /\ hubRun[Holder].step = "lock" /\ hubRun[Holder].kind \in {"cancel", "revoke"}
      /\ hubJobs' = hubJobs /\ UNCHANGED <<ordered, cycles, seat, hubReq, answered>>
      /\ \/ Goes(Holder, "revoke") /\ holder' = [holder EXCEPT !.at = "in_flight"]
         \/ Ends(Holder) /\ holder' = holder /\ holder.row # "active"
  BY HolderFacts DEF HolderLocks, HolderFound, money, request, Goes, Ends
<1>4. /\ hubRun' \in [People -> JobRun]
      /\ \/ hubRun'[Holder].kind = "none" /\ hubRun'[Holder].step = "idle" /\ holder.row # "active"
         \/ hubRun'[Holder].kind = hubRun[Holder].kind /\ hubRun'[Holder].step = "revoke"
      /\ \A q \in People : q # Holder => hubRun'[q] = hubRun[q]
      /\ \A k, q : Waits(k, q)' <=> Waits(k, q)
  <2>1. CASE Goes(Holder, "revoke")
    BY <1>1, <1>3, <2>1, GoesTyped DEF Waits
  <2>2. CASE Ends(Holder) /\ holder.row # "active"
    BY <1>1, <1>3, <2>2, EndsTyped DEF Waits, Ends
  <2> QED  BY <1>3, <2>1, <2>2
<1>5. holder' \in HolderRec /\ holder'.row = holder.row /\ holder'.role = holder.role
  BY <1>1, <1>3 DEF HolderRec
<1>6. SeatsShape'
  BY <1>1, <1>2, <1>3, <1>4, <1>5, HolderShape DEF SeatsShape
<1>7. ASSUME hubLeft.patient
      PROVE  /\ HolderFits' /\ Occupied' <= hubLeft'.cap /\ ~Under("renewal", Holder)'
             /\ Under("revoke", Holder)' => Under("revoke", Holder) \/ ~ordered
  <2>1. HolderFits /\ Occupied <= hubLeft.cap /\ ~Under("renewal", Holder) /\ Patient
    BY <1>7, HolderFacts
  <2>2. SeatReleased \/ ~ordered
    BY <1>3, <2>1 DEF Under, HolderFits
  <2>3. /\ \A k \in {"grant", "revoke", "cancel", "renewal"} : Under(k, Holder)' => Under(k, Holder)
        /\ Under("grant", Holder)' <=> Under("grant", Holder)
    BY <1>3, <1>4 DEF Under
  <2>4. (ClaimedFlag' <=> ClaimedFlag) /\ (Claiming' <=> Claiming) /\ (\A r \in HubRequests : Open(r)' <=> Open(r)) /\ (SeatReleased' <=> SeatReleased)
    BY <1>3 DEF ClaimedFlag, Claiming, Open, SeatReleased
  <2>5. SubSlots' = SubSlots /\ hubLeft'.cap = hubLeft.cap /\ Occupied' <= hubLeft'.cap
    BY <1>1, <1>2, <1>3, <1>5, <2>1, PlacesThen, PlaceKept
  <2>6. holder.role =>
          Under("revoke", Holder)' \/ Under("cancel", Holder)' \/ holder.row = "cancelled" \/ Under("grant", Holder)
    <3>1. holder.role => holder.row \in {"active", "cancelled"} \/ Under("grant", Holder)
      BY <1>1, <2>1 DEF HolderFits, HolderRec
    <3> QED  BY <1>3, <1>4, <3>1 DEF Under
  <2>7. hubRun'[Holder].kind # "grant"
    BY <1>3, <1>4
  <2>8. HolderFits'
    BY <1>2, <1>3, <1>5, <2>1, <2>2, <2>3, <2>4, <2>5, <2>6, <2>7 DEF HolderFits, KeepsRole
  <2> QED  BY <2>1, <2>3, <2>5, <2>8
<1> QED  BY <1>2, <1>3, <1>4, <1>6, <1>7, <1>5, HolderMoves

LEMMA HolderRevokedStep ==
  ASSUME SeatsInv, IsFiniteSet(Seats), HolderRevoked
  PROVE  SeatsInv'
<1>1. SeatsShape /\ holder \in HolderRec /\ Holder \in People /\ hubLeft.cap \in Nat
  BY HolderFacts
<1>2. LeftGoes /\ hubLeft'.cap = hubLeft.cap /\ hubLeft'.patient = hubLeft.patient
  BY <1>1, SmoothGoes, SlipGoes DEF HolderRevoked, LeftGoes
<1>3. /\ hubRun[Holder].step = "revoke" /\ hubRun[Holder].kind \in {"cancel", "revoke"}
      /\ hubJobs' = hubJobs /\ hubRun' = [hubRun EXCEPT ![Holder] = NoJobRun]
      /\ \/ holder' = [at |-> "inactive", row |-> "none", role |-> FALSE]
         \/ holder' = [holder EXCEPT !.at = RolledUp(holder.row)] /\ "job" \in hubHappened'
      /\ UNCHANGED <<ordered, cycles, seat, hubReq, answered>>
  BY HolderFacts DEF HolderRevoked, money, request, Ends, Slip
<1>4. /\ hubRun' \in [People -> JobRun] /\ hubRun'[Holder].kind = "none" /\ hubRun'[Holder].step = "idle"
      /\ \A q \in People : q # Holder => hubRun'[q] = hubRun[q]
      /\ \A k, q : Waits(k, q)' <=> Waits(k, q)
  BY <1>1, <1>3, EndsTyped DEF Waits
<1>5. /\ holder' \in HolderRec
      /\ \/ holder'.row = "none" /\ ~holder'.role
         \/ holder'.row = holder.row /\ holder'.role = holder.role /\ "job" \in hubHappened'
  <2>1. RolledUp(holder.row) \in {"active", "inactive"}
    BY DEF RolledUp
  <2>2. CASE holder' = [at |-> "inactive", row |-> "none", role |-> FALSE]
    BY <2>2 DEF HolderRec
  <2>3. CASE holder' = [holder EXCEPT !.at = RolledUp(holder.row)] /\ "job" \in hubHappened'
    BY <1>1, <2>1, <2>3 DEF HolderRec
  <2> QED  BY <1>3, <2>2, <2>3
<1>6. SeatsShape'
  BY <1>1, <1>2, <1>3, <1>4, <1>5, HolderShape DEF SeatsShape
<1>7. ASSUME hubLeft.patient
      PROVE  /\ HolderFits' /\ Occupied' <= hubLeft'.cap /\ ~Under("renewal", Holder)'
             /\ Under("revoke", Holder)' => Under("revoke", Holder) \/ ~ordered
             /\ holder'.row = holder.row \/ holder'.row # "active"
  <2>1. HolderFits /\ Occupied <= hubLeft.cap /\ ~Under("renewal", Holder) /\ Patient
    BY <1>7, HolderFacts
  <2>2. SeatReleased \/ ~ordered
    BY <1>3, <2>1 DEF Under, HolderFits
  <2>3. /\ \A k \in {"grant", "revoke", "cancel", "renewal"} : Under(k, Holder)' => Under(k, Holder)
        /\ Under("grant", Holder)' <=> Under("grant", Holder)
    BY <1>3, <1>4 DEF Under
  <2>4. (ClaimedFlag' <=> ClaimedFlag) /\ (Claiming' <=> Claiming) /\ (\A r \in HubRequests : Open(r)' <=> Open(r)) /\ (SeatReleased' <=> SeatReleased)
    BY <1>3 DEF ClaimedFlag, Claiming, Open, SeatReleased
  <2>5. SubSlots' = SubSlots /\ Occupied' <= hubLeft'.cap
    BY <1>1, <1>2, <1>3, <1>5, <2>1, PlacesThen, PlaceKept
  <2>6. holder.row = "active" => SubSlots < hubLeft.cap
    BY <1>1, <2>1, PlaceKept
  <2>7. HolderFits'
    BY <1>2, <1>3, <1>4, <1>5, <2>1, <2>2, <2>3, <2>4, <2>5, <2>6 DEF HolderFits, KeepsRole
  <2> QED  BY <1>5, <2>1, <2>3, <2>5, <2>7
<1> QED  BY <1>2, <1>3, <1>4, <1>5, <1>6, <1>7, HolderMoves

(* Steps that leave the holder's run and their jobs as they are, or only   *)
(* put one in the queue.                                                   *)
LEMMA SweepSeatsHolderStep ==
  ASSUME SeatsInv, IsFiniteSet(Seats), SweepSeatsHolder
  PROVE  SeatsInv'
<1>1. SeatsShape /\ holder \in HolderRec /\ Holder \in People /\ hubLeft.cap \in Nat
  BY HolderFacts
<1>2. LeftGoes /\ hubLeft' = hubLeft /\ hubHappened' = hubHappened
  BY <1>1, SmoothGoes DEF SweepSeatsHolder, Smooth
<1>3. /\ ordered /\ ~SeatReleased /\ ~Busy(Holder) /\ (holder.row # "active" \/ ~holder.role)
      /\ holder' = [holder EXCEPT !.row = "active"]
      /\ hubJobs' = hubJobs \/ (hubJobs' = hubJobs \cup {[kind |-> "grant", of |-> Holder]} /\ ~holder.role)
      /\ holder.role => hubJobs' = hubJobs
      /\ UNCHANGED <<ordered, cycles, seat, hubReq, answered, hubRun>>
  BY DEF SweepSeatsHolder, money, request
<1>4. /\ hubJobs' \subseteq HubJob
      /\ \A k, q : (Waits(k, q)' <=> Waits(k, q)) \/ (k = "grant" /\ q = Holder)
  <2>1. CASE hubJobs' = hubJobs
    BY <1>1, <2>1 DEF Waits, SeatsShape
  <2>2. CASE hubJobs' = hubJobs \cup {[kind |-> "grant", of |-> Holder]}
    BY <1>1, <2>2, OneQueued
  <2> QED  BY <1>3, <2>1, <2>2
<1>5. holder' \in HolderRec /\ holder'.row = "active" /\ holder'.role = holder.role
  BY <1>1, <1>3 DEF HolderRec
<1>6. SeatsShape'
  BY <1>1, <1>2, <1>3, <1>4, <1>5, HolderShape, HolderFacts DEF SeatsShape
<1>7. ASSUME hubLeft.patient
      PROVE  /\ HolderFits' /\ Occupied' <= hubLeft'.cap /\ ~Under("renewal", Holder)'
             /\ Under("revoke", Holder)' => Under("revoke", Holder) \/ ~ordered
             /\ \A r \in HubRequests : hubReq[r].op # "add"
  <2>1. HolderFits /\ Occupied <= hubLeft.cap /\ ~Under("renewal", Holder) /\ Patient
    BY <1>7, HolderFacts
  <2>2. \A k \in {"grant", "revoke", "cancel", "renewal"} : ~Under(k, Holder)
    BY <1>3 DEF Under, Busy, Waits
  <2>3. ClaimedFlag
    BY <1>3, <2>1, <2>2 DEF HolderFits
  <2>4. \A k \in {"revoke", "cancel", "renewal"} : ~Under(k, Holder)'
    BY <1>3, <1>4, <2>2 DEF Under
  <2>5. hubRun'[Holder].kind # "grant"
    BY <1>3, <2>2 DEF Under
  <2>6. ClaimedFlag' /\ Claiming /\ (SeatReleased' <=> SeatReleased)
    BY <1>3, <2>3 DEF ClaimedFlag, Claiming, SeatReleased
  <2>7. SubSlots' = SubSlots /\ hubLeft'.cap = hubLeft.cap /\ Occupied' <= hubLeft'.cap
    <3>1. holder.row = "active" \/ SubSlots < hubLeft.cap
      BY <2>1, <2>6 DEF HolderFits
    <3>2. SubSlots < hubLeft.cap
      BY <1>1, <2>1, <3>1, PlaceKept
    <3> QED  BY <1>1, <1>2, <1>3, <1>5, <3>2, PlacesThen
  <2>8. HolderFits'
    BY <1>2, <1>3, <1>5, <2>1, <2>4, <2>5, <2>6, <2>7 DEF HolderFits, KeepsRole, LeftGoes
  <2>9. \A r \in HubRequests : hubReq[r].op # "add"
    BY <2>1, <2>3, AsksOpen, OnlyAsk
  <2> QED  BY <2>4, <2>7, <2>8, <2>9
<1>8. \A k, p : p # Holder => (Waits(k, p)' <=> Waits(k, p))
  BY <1>4
<1> QED  BY <1>2, <1>3, <1>4, <1>6, <1>7, <1>8, HolderMoves

LEMMA SweepUnseatsHolderStep ==
  ASSUME SeatsInv, IsFiniteSet(Seats), SweepUnseatsHolder
  PROVE  SeatsInv'
<1>1. SeatsShape /\ holder \in HolderRec /\ Holder \in People /\ hubLeft.cap \in Nat
  BY HolderFacts
<1>2. LeftGoes /\ hubLeft' = hubLeft /\ hubHappened' = hubHappened
  BY <1>1, SmoothGoes DEF SweepUnseatsHolder, Smooth
<1>3. /\ ordered /\ SeatReleased /\ holder.row = "active"
      /\ holder' = [holder EXCEPT !.row = "cancelled"]
      /\ UNCHANGED <<ordered, cycles, seat, hubReq, answered, hubRun, hubJobs>>
  BY DEF SweepUnseatsHolder, money, request
<1>4. \A k, q : (Waits(k, q)' <=> Waits(k, q)) /\ (Under(k, q)' <=> Under(k, q))
  BY <1>3 DEF Waits, Under
<1>5. holder' \in HolderRec /\ holder'.row = "cancelled" /\ holder'.role = holder.role
  BY <1>1, <1>3 DEF HolderRec
<1>6. SeatsShape'
  BY <1>1, <1>2, <1>3, <1>5, HolderShape, HolderFacts DEF SeatsShape
<1>7. ASSUME hubLeft.patient
      PROVE  /\ HolderFits' /\ Occupied' <= hubLeft'.cap /\ ~Under("renewal", Holder)'
             /\ Under("revoke", Holder)' => Under("revoke", Holder) \/ ~ordered
  <2>1. HolderFits /\ Occupied <= hubLeft.cap /\ ~Under("renewal", Holder) /\ Patient
    BY <1>7, HolderFacts
  <2>2. (ClaimedFlag' <=> ClaimedFlag) /\ (Claiming' <=> Claiming) /\ (\A r \in HubRequests : Open(r)' <=> Open(r)) /\ (SeatReleased' <=> SeatReleased)
    BY <1>3 DEF ClaimedFlag, Claiming, Open, SeatReleased
  <2>3. SubSlots' = SubSlots /\ hubLeft'.cap = hubLeft.cap /\ Occupied' <= hubLeft'.cap /\ SubSlots < hubLeft.cap
    BY <1>1, <1>2, <1>3, <1>5, <2>1, PlacesThen, PlaceKept
  <2>4. HolderFits'
    BY <1>2, <1>3, <1>4, <1>5, <2>1, <2>2, <2>3 DEF HolderFits, KeepsRole, LeftGoes
  <2> QED  BY <1>4, <2>1, <2>3, <2>4
<1> QED  BY <1>2, <1>3, <1>4, <1>5, <1>6, <1>7, HolderMoves

LEMMA SweepRollsHolderUpStep ==
  ASSUME SeatsInv, IsFiniteSet(Seats), SweepRollsHolderUp
  PROVE  SeatsInv'
<1>1. SeatsShape /\ holder \in HolderRec /\ Holder \in People /\ hubLeft.cap \in Nat
  BY HolderFacts
<1>2. LeftGoes /\ hubLeft' = hubLeft /\ hubHappened' = hubHappened
  BY <1>1, SmoothGoes DEF SweepRollsHolderUp, Smooth
<1>3. /\ holder' = [holder EXCEPT !.at = RolledUp(holder.row)]
      /\ UNCHANGED <<ordered, cycles, seat, hubReq, answered, hubRun, hubJobs>>
  BY DEF SweepRollsHolderUp, money, request
<1>4. \A k, q : (Waits(k, q)' <=> Waits(k, q)) /\ (Under(k, q)' <=> Under(k, q))
  BY <1>3 DEF Waits, Under
<1>5. holder' \in HolderRec /\ holder'.row = holder.row /\ holder'.role = holder.role
  BY <1>1, <1>3 DEF HolderRec, RolledUp
<1>6. SeatsShape'
  BY <1>1, <1>2, <1>3, <1>5, HolderShape, HolderFacts DEF SeatsShape
<1>7. ASSUME hubLeft.patient
      PROVE  /\ HolderFits' /\ Occupied' <= hubLeft'.cap /\ ~Under("renewal", Holder)'
             /\ Under("revoke", Holder)' => Under("revoke", Holder) \/ ~ordered
  <2>1. HolderFits /\ Occupied <= hubLeft.cap /\ ~Under("renewal", Holder) /\ Patient
    BY <1>7, HolderFacts
  <2>2. (ClaimedFlag' <=> ClaimedFlag) /\ (Claiming' <=> Claiming) /\ (\A r \in HubRequests : Open(r)' <=> Open(r)) /\ (SeatReleased' <=> SeatReleased)
    BY <1>3 DEF ClaimedFlag, Claiming, Open, SeatReleased
  <2>3. SubSlots' = SubSlots /\ hubLeft'.cap = hubLeft.cap /\ Occupied' <= hubLeft'.cap
    BY <1>1, <1>2, <1>3, <1>5, <2>1, PlacesThen, PlaceKept
  <2>4. HolderFits'
    BY <1>2, <1>3, <1>4, <1>5, <2>1, <2>2, <2>3 DEF HolderFits, KeepsRole
  <2> QED  BY <1>4, <2>1, <2>3, <2>4
<1> QED  BY <1>2, <1>3, <1>4, <1>5, <1>6, <1>7, HolderMoves

(* The order ends, or the sweep finds that it did.                         *)
LEMMA EndingsStep ==
  ASSUME SeatsInv, IsFiniteSet(Seats), NEW kind \in {"cancel", "revoke"}, LeftGoes, kind = "revoke" => ~ordered,
         UNCHANGED <<cycles, holder, seat, hubRun, hubReq, answered>>, ordered' = FALSE,
         hubJobs' = hubJobs \/ hubJobs' = hubJobs \cup {[kind |-> kind, of |-> Holder]}
  PROVE  SeatsInv'
<1>1. SeatsShape /\ holder \in HolderRec /\ Holder \in People /\ hubLeft.cap \in Nat
  BY HolderFacts
<1>2. hubLeft'.cap = hubLeft.cap
  BY DEF LeftGoes
<1>4. /\ hubJobs' \subseteq HubJob
      /\ \A k, q : (Waits(k, q)' <=> Waits(k, q)) \/ (k = kind /\ q = Holder)
      /\ \A k, q : Waits(k, q) => Waits(k, q)'
  <2>1. CASE hubJobs' = hubJobs
    BY <1>1, <2>1 DEF Waits, SeatsShape
  <2>2. CASE hubJobs' = hubJobs \cup {[kind |-> kind, of |-> Holder]}
    BY <1>1, <2>2, OneQueued
  <2> QED  BY <2>1, <2>2
<1>6. SeatsShape'
  BY <1>1, <1>4, HolderShape, HolderFacts DEF SeatsShape
<1>7. ASSUME hubLeft.patient
      PROVE  /\ HolderFits' /\ Occupied' <= hubLeft'.cap /\ ~Under("renewal", Holder)'
             /\ Under("revoke", Holder)' => Under("revoke", Holder) \/ ~ordered
  <2>1. HolderFits /\ Occupied <= hubLeft.cap /\ ~Under("renewal", Holder) /\ Patient
    BY <1>7, HolderFacts
  <2>2. (ClaimedFlag' <=> ClaimedFlag) /\ (Claiming' <=> Claiming) /\ (\A r \in HubRequests : Open(r)' <=> Open(r)) /\ (SeatReleased' <=> SeatReleased)
    BY DEF ClaimedFlag, Claiming, Open, SeatReleased
  <2>3. SubSlots' = SubSlots /\ Occupied' <= hubLeft'.cap
    BY <1>1, <1>2, <2>1, PlacesThen, PlaceKept
  <2>4. /\ \A k : Under(k, Holder) => Under(k, Holder)'
        /\ Under("grant", Holder)' <=> Under("grant", Holder)
        /\ Under("renewal", Holder)' <=> Under("renewal", Holder)
        /\ Under("revoke", Holder)' => Under("revoke", Holder) \/ ~ordered
    BY <1>4 DEF Under
  <2>5. HolderFits'
    BY <1>2, <2>1, <2>2, <2>3, <2>4 DEF HolderFits, KeepsRole, LeftGoes
  <2> QED  BY <2>1, <2>3, <2>4, <2>5
<1>8. \A k, p : p # Holder => (Waits(k, p)' <=> Waits(k, p))
  BY <1>4
<1> QED  BY <1>6, <1>7, <1>8, HolderMoves

LEMMA SweepRemovesHolderStep ==
  ASSUME SeatsInv, IsFiniteSet(Seats), SweepRemovesHolder
  PROVE  SeatsInv'
<1>1. SeatsShape
  BY HolderFacts
<1>2. LeftGoes
  BY <1>1, SmoothGoes DEF SweepRemovesHolder
<1>3. /\ ~ordered /\ ordered' = FALSE /\ hubJobs' = hubJobs \cup {[kind |-> "revoke", of |-> Holder]}
      /\ UNCHANGED <<cycles, holder, seat, hubRun, hubReq, answered>>
  BY <1>1 DEF SweepRemovesHolder, money, doors, request, SeatsShape
<1> QED  BY <1>2, <1>3, EndingsStep

LEMMA OrderEndsStep ==
  ASSUME SeatsInv, IsFiniteSet(Seats), NEW said \in BOOLEAN, OrderEnds(said)
  PROVE  SeatsInv'
<1>1. SeatsShape
  BY HolderFacts
<1>2. LeftGoes
  BY <1>1, SmoothGoes, SlipGoes DEF OrderEnds
<1>3. /\ ordered' = FALSE /\ (hubJobs' = hubJobs \/ hubJobs' = hubJobs \cup {[kind |-> "cancel", of |-> Holder]})
      /\ UNCHANGED <<cycles, holder, seat, hubRun, hubReq, answered>>
  BY DEF OrderEnds, doors, request
<1> QED  BY <1>2, <1>3, EndingsStep

(* Renewals: a patient household has none.                                 *)
LEMMA Impatient ==
  ASSUME SeatsInv, SeatsShape', LeftGoes, ~hubLeft.patient
  PROVE  SeatsInv'
BY DEF SeatsInv, LeftGoes, Orderly

LEMMA CyclesTyped ==
  ASSUME SeatsShape, cycles' = [i \in DOMAIN cycles |-> [cycles[i] EXCEPT !.open = FALSE]]
  PROVE  cycles' \in Seq([seated : BOOLEAN, open : BOOLEAN]) /\ cycles' # <<>>
<1>0. cycles \in Seq([seated : BOOLEAN, open : BOOLEAN]) /\ cycles # <<>>
  BY DEF SeatsShape
<1>1. /\ Len(cycles) \in Nat /\ DOMAIN cycles = 1..Len(cycles) /\ Len(cycles) >= 1
      /\ \A i \in 1..Len(cycles) : cycles[i] \in [seated : BOOLEAN, open : BOOLEAN]
  <2> DEFINE T == [seated : BOOLEAN, open : BOOLEAN]
  <2>1. cycles \in Seq(T) /\ cycles # <<>>
    BY <1>0
  <2> HIDE DEF T
  <2>2. /\ Len(cycles) \in Nat /\ DOMAIN cycles = 1..Len(cycles) /\ Len(cycles) >= 1
        /\ \A i \in 1..Len(cycles) : cycles[i] \in T
    BY <2>1
  <2> QED  BY <2>2 DEF T
<1>2. \A i \in 1..Len(cycles) : [cycles[i] EXCEPT !.open = FALSE] \in [seated : BOOLEAN, open : BOOLEAN]
  BY <1>1
<1>3. cycles' = [i \in 1..Len(cycles) |-> [cycles[i] EXCEPT !.open = FALSE]]
  BY <1>1
<1> DEFINE n == Len(cycles)
           f == [i \in 1..n |-> [cycles[i] EXCEPT !.open = FALSE]]
           T == [seated : BOOLEAN, open : BOOLEAN]
<1>4. n \in Nat /\ n >= 1 /\ \A i \in 1..n : f[i] \in T
  BY <1>1, <1>2
<1>5. cycles' = f /\ f = [i \in 1..n |-> f[i]]
  BY <1>3
<1> HIDE DEF n, f, T
<1>6. f \in Seq(T) /\ Len(f) = n
  BY <1>4, <1>5
<1>7. f # <<>>
  BY <1>4, <1>6
<1> QED  BY <1>5, <1>6, <1>7 DEF T

LEMMA RenewalsStep ==
  ASSUME SeatsInv, RenewalCloses \/ RenewalCarries \/ RenewalInserts
  PROVE  SeatsInv'
<1>1. SeatsShape /\ holder \in HolderRec /\ Holder \in People /\ hubRun[Holder].kind = "renewal"
  BY HolderFacts DEF RenewalCloses, RenewalCarries, RenewalInserts, At
<1>2. LeftGoes
  BY <1>1, SmoothGoes DEF RenewalCloses, RenewalCarries, RenewalInserts
<1>3. ~hubLeft.patient
  BY <1>1, HolderFacts DEF Under
<1>4. CASE RenewalCloses
  <2>1. /\ cycles' = [i \in DOMAIN cycles |-> [cycles[i] EXCEPT !.open = FALSE]] /\ Goes(Holder, "carry")
        /\ UNCHANGED <<ordered, holder, seat, hubReq, answered>>
    BY <1>4 DEF RenewalCloses, doors, request
  <2>2. cycles' \in Seq([seated : BOOLEAN, open : BOOLEAN]) /\ cycles' # <<>>
    BY <1>1, <2>1, CyclesTyped
  <2>3. /\ hubRun' \in [People -> JobRun] /\ hubJobs' = hubJobs /\ hubRun'[Holder].step = "carry"
        /\ \A q \in People : q # Holder => hubRun'[q] = hubRun[q]
    BY <1>1, <2>1, GoesTyped
  <2>4. \A p \in People : hubRun'[p].step \in {"lock", "revoke"} => hubRun'[p].kind \in {"cancel", "revoke"}
    BY <1>1, <2>3 DEF SeatsShape
  <2>5. SeatsShape'
    BY <1>1, <1>2, <2>1, <2>2, <2>3, <2>4 DEF SeatsShape, LeftGoes
  <2> QED  BY <1>2, <1>3, <2>5, Impatient
<1>5. CASE RenewalCarries
  <2> DEFINE x == [hubRun[Holder] EXCEPT !.step = "insert", !.carry = ~SeatReleased]
  <2>0. hubRun[Holder] \in JobRun
    BY <1>1 DEF SeatsShape
  <2>1. x \in JobRun /\ x.step = "insert"
    BY <2>0 DEF JobRun
  <2>2. hubRun' = [hubRun EXCEPT ![Holder] = x]
    BY <1>1, <1>5 DEF RenewalCarries, SeatsShape
  <2> HIDE DEF x
  <2>3. /\ hubRun' \in [People -> JobRun] /\ hubRun'[Holder].step = "insert"
        /\ \A q \in People : q # Holder => hubRun'[q] = hubRun[q]
    BY <1>1, <2>1, <2>2 DEF SeatsShape
  <2>4. UNCHANGED <<ordered, cycles, holder, seat, hubJobs, hubReq, answered>>
    BY <1>5 DEF RenewalCarries, money, doors, request
  <2>5. SeatsShape'
    BY <1>1, <1>2, <2>3, <2>4, HolderShape DEF SeatsShape
  <2> QED  BY <1>2, <1>3, <2>5, Impatient
<1>6. CASE RenewalInserts
  <2>1. /\ cycles' = Append(cycles, [seated |-> hubRun[Holder].carry, open |-> TRUE]) /\ Ends(Holder)
        /\ Granted(hubRun[Holder].carry)
        /\ UNCHANGED <<ordered, seat, hubReq, answered>>
    BY <1>6 DEF RenewalInserts, request
  <2> DEFINE T == [seated : BOOLEAN, open : BOOLEAN]
             new == [seated |-> hubRun[Holder].carry, open |-> TRUE]
  <2>2. cycles' \in Seq(T) /\ cycles' # <<>>
    <3>1. new \in T /\ cycles \in Seq(T) /\ cycles' = Append(cycles, new)
      BY <1>1, <2>1 DEF SeatsShape, JobRun
    <3> HIDE DEF T, new
    <3> QED  BY <3>1
  <2>3. /\ hubRun' \in [People -> JobRun] /\ hubJobs' = hubJobs /\ hubRun'[Holder].step = "idle"
        /\ \A q \in People : q # Holder => hubRun'[q] = hubRun[q]
    BY <1>1, <2>1, EndsTyped DEF Ends
  <2>4. \A p \in People : hubRun'[p].step \in {"lock", "revoke"} => hubRun'[p].kind \in {"cancel", "revoke"}
    BY <1>1, <2>3 DEF SeatsShape
  <2>5. holder' \in HolderRec
    BY <1>1, <2>1, GrantedTyped
  <2>6. SeatsShape'
    BY <1>1, <1>2, <2>1, <2>2, <2>3, <2>4, <2>5 DEF SeatsShape, LeftGoes, HolderRec
  <2> QED  BY <1>2, <1>3, <2>6, Impatient
<1> QED  BY <1>4, <1>5, <1>6

LEMMA OrderRenewsStep ==
  ASSUME SeatsInv, OrderRenews
  PROVE  SeatsInv'
<1>1. SeatsShape /\ holder \in HolderRec /\ Holder \in People /\ hubLeft.renewals \in Nat
  BY HolderFacts DEF SeatsShape, HouseholdScenario
<1>2. LeftGoes /\ hubLeft.renewals > 0
  BY <1>1, RenewGoes
<1>3. ~hubLeft.patient
  BY <1>1, <1>2 DEF SeatsInv, Orderly
<1>4. /\ hubJobs' = hubJobs \cup {[kind |-> "renewal", of |-> Holder]}
      /\ UNCHANGED <<ordered, cycles, holder, seat, hubRun, hubReq, answered>>
  BY DEF OrderRenews, money, doors, request
<1>5. hubJobs' \subseteq HubJob
  BY <1>1, <1>4, OneQueued
<1>6. SeatsShape'
  BY <1>1, <1>2, <1>4, <1>5, HolderShape DEF SeatsShape
<1> QED  BY <1>2, <1>3, <1>6, Impatient

(* The cascade, and the holder's own revoke that begins with it.           *)
LEMMA HolderLeavesStep ==
  ASSUME SeatsInv, IsFiniteSet(Seats), NEW kind \in {"cancel", "revoke"}, NEW queued \in SUBSET Seats, HolderLeaves(kind, queued)
  PROVE  SeatsInv'
<1> DEFINE found == {s \in Seats : Cascades(kind) /\ Seated(s)}
           run   == [kind |-> kind, step |-> "lock", carry |-> TRUE]
<1>1. SeatsShape /\ holder \in HolderRec /\ Holder \in People /\ hubLeft.cap \in Nat
  BY HolderFacts
<1>2. LeftGoes
  BY <1>1, SmoothGoes, SlipGoes DEF HolderLeaves
<1>3. /\ Waits(kind, Holder) /\ hubRun[Holder] = NoJobRun /\ hubRun' = [hubRun EXCEPT ![Holder] = run]
      /\ queued \subseteq found
      /\ seat' = [s \in Seats |-> IF s \in found THEN [seat[s] EXCEPT !.at = "removing"] ELSE seat[s]]
      /\ hubJobs' = (hubJobs \ {[kind |-> kind, of |-> Holder]}) \cup {[kind |-> "revoke", of |-> s] : s \in queued}
      /\ UNCHANGED <<ordered, cycles, holder, hubReq, answered>>
  BY DEF HolderLeaves, money, request, Waits
<1>4. run \in JobRun /\ run.kind = kind /\ run.step = "lock"
  BY DEF JobRun
<1>5. \A s \in found : s \in Seats /\ seat[s].sub /\ seat[s].row = "active" /\ seat[s].at = "active" /\ seat[s].user
  BY DEF Seated
<1> HIDE DEF run, found
<1>6. /\ hubRun' \in [People -> JobRun] /\ hubRun'[Holder].kind = kind
      /\ hubRun[Holder].kind = "none"
      /\ \A q \in People : q # Holder => hubRun'[q] = hubRun[q]
      /\ \A p \in People : hubRun'[p].step \in {"lock", "revoke"} => hubRun'[p].kind \in {"cancel", "revoke"}
  BY <1>1, <1>3, <1>4, ConstRecords DEF SeatsShape
<1>7. /\ hubJobs' \subseteq HubJob
      /\ \A k, q : Waits(k, q)' <=> (Waits(k, q) /\ ~(k = kind /\ q = Holder)) \/ (k = "revoke" /\ q \in queued)
  <2>1. {[kind |-> "revoke", of |-> s] : s \in queued} \subseteq HubJob
    BY PeopleAre DEF HubJob
  <2>2. \A k, q : [kind |-> k, of |-> q] \in {[kind |-> "revoke", of |-> s] : s \in queued} <=> k = "revoke" /\ q \in queued
    OBVIOUS
  <2>3. \A k, q : [kind |-> k, of |-> q] = [kind |-> kind, of |-> Holder] <=> k = kind /\ q = Holder
    OBVIOUS
  <2>4. \A k, q : Waits(k, q)' <=> (Waits(k, q) /\ ~(k = kind /\ q = Holder)) \/ (k = "revoke" /\ q \in queued)
    BY <1>3, <2>2, <2>3 DEF Waits
  <2> QED  BY <1>1, <1>3, <2>1, <2>4 DEF SeatsShape
<1>8. \A s \in Seats : /\ seat'[s] \in SeatRec /\ seat'[s].row = seat[s].row /\ seat'[s].sub = seat[s].sub
                       /\ seat'[s].user = seat[s].user /\ seat'[s].role = seat[s].role
                       /\ (s \in found => seat'[s].at = "removing") /\ (s \notin found => seat'[s] = seat[s])
  <2> SUFFICES ASSUME NEW s \in Seats
               PROVE  /\ seat'[s] \in SeatRec /\ seat'[s].row = seat[s].row /\ seat'[s].sub = seat[s].sub
                      /\ seat'[s].user = seat[s].user /\ seat'[s].role = seat[s].role
                      /\ (s \in found => seat'[s].at = "removing") /\ (s \notin found => seat'[s] = seat[s])
    OBVIOUS
  <2>1. seat[s] \in SeatRec /\ seat'[s] = IF s \in found THEN [seat[s] EXCEPT !.at = "removing"] ELSE seat[s]
    BY <1>1, <1>3 DEF SeatsShape
  <2> QED  BY <2>1 DEF SeatRec
<1>9. SeatsShape'
  <2>1. \A s \in Seats : seat'[s].row # "none" => seat'[s].at # "none"
    BY <1>1, <1>8 DEF SeatsShape
  <2>2. seat' \in [Seats -> SeatRec]
    BY <1>3, <1>8
  <2> QED  BY <1>1, <1>2, <1>3, <1>6, <1>7, <2>1, <2>2 DEF SeatsShape, LeftGoes
<1>10. ASSUME hubLeft.patient PROVE Patient'
  <2>0. HolderFits /\ Occupied <= hubLeft.cap /\ ~Under("renewal", Holder) /\ Patient /\ hubLeft'.cap = hubLeft.cap
    BY <1>2, <1>10, HolderFacts DEF LeftGoes
  <2>1. Holder \notin queued /\ queued \subseteq Seats
    BY <1>3, <1>5, PeopleAre
  <2>2. \A k \in {"grant", "revoke", "cancel", "renewal"} : Under(k, Holder)' <=> Under(k, Holder)
    BY <1>3, <1>6, <1>7, <2>1 DEF Under
  <2>3. hubRun'[Holder].kind # "grant"
    BY <1>6
  <2>4. \A s \in Seats : Taking(s)' => Taking(s)
    BY <1>8 DEF Taking
  <2>5. SubSlots' <= SubSlots /\ SubSlots' \in Nat /\ SubSlots \in Nat
    BY <2>4, SlotsFewer
  <2>6. HolderSlots' = HolderSlots /\ HolderSlots \in Nat
    BY <1>3 DEF HolderSlots
  <2>7. Occupied' <= Occupied /\ Occupied \in Nat /\ Occupied' \in Nat
    BY <2>5, <2>6, Sums
  <2>8. (ClaimedFlag <=> ClaimedFlag') /\ (Claiming <=> Claiming') /\ (\A r \in HubRequests : Open(r)' <=> Open(r)) /\ (SeatReleased' <=> SeatReleased)
    BY <1>3 DEF ClaimedFlag, Claiming, Open, SeatReleased
  <2>9. HolderFits'
    BY <1>2, <1>1, <1>3, <2>0, <2>2, <2>3, <2>5, <2>8 DEF HolderFits, KeepsRole, LeftGoes
  <2>10. \A s \in Seats : Onward(s)
    BY <1>6, <1>7, <1>8, PeopleAre DEF Onward, Under
  <2>11. OneAsk' /\ \A r \in HubRequests : AskFits(r)'
    BY <1>1, <1>2, <1>3, <2>0, <2>2, <2>7, <2>10, QuietAsks
  <2>12. ASSUME NEW s \in Seats PROVE SeatFits(s)'
    <3>1. SeatFits(s) /\ hubHappened \subseteq hubHappened' /\ hubRun'[s] = hubRun[s] /\ answered' = answered
      BY <1>2, <1>3, <1>6, <2>0, PeopleAre DEF Patient, LeftGoes
    <3>2. /\ Waits("grant", s)' <=> Waits("grant", s)
          /\ Waits("revoke", s)' <=> Waits("revoke", s) \/ s \in queued
      BY <1>6, <1>7, PeopleAre
    <3>3. CASE s \in found
      BY <1>5, <1>8, <3>1, <3>2, <3>3 DEF SeatFits, Under, Unserved
    <3>4. CASE s \notin found
      <4>1. s \notin queued /\ seat'[s] = seat[s]
        BY <1>3, <1>8, <3>4
      <4> QED  BY <3>1, <3>2, <4>1, SeatStays
    <3> QED  BY <3>3, <3>4
  <2>13. Len(cycles') = 1 /\ cycles'[1].open /\ Occupied' <= hubLeft'.cap
    <3>1. PICK n, m, c \in Nat : n = Occupied' /\ m = Occupied /\ c = hubLeft.cap
      BY <1>1, <2>7
    <3>2. n <= m /\ m <= c
      BY <2>0, <2>7, <3>1
    <3>3. n <= c
      BY <3>2
    <3> QED  BY <1>3, <2>0, <3>1, <3>3 DEF Patient
  <2> QED  BY <2>2, <2>0, <2>9, <2>11, <2>12, <2>13 DEF Patient
<1>11. Orderly(hubLeft)'
  BY <1>2 DEF SeatsInv, Orderly, LeftGoes, SeatsShape, HouseholdScenario
<1> QED  BY <1>2, <1>9, <1>10, <1>11 DEF SeatsInv, LeftGoes

LEMMA HolderJobStep ==
  ASSUME SeatsInv, IsFiniteSet(Seats), HolderJob
  PROVE  SeatsInv'
<1>1. CASE \E kind \in {"grant", "renewal"} : HolderOpens(kind)
  BY <1>1, HolderOpensStep
<1>2. CASE \E kind \in {"cancel", "revoke"}, queued \in SUBSET Seats : HolderLeaves(kind, queued)
  BY <1>2, HolderLeavesStep
<1> QED  BY <1>1, <1>2, ClaimCompletesStep, RenewalsStep, HolderLocksStep, HolderRevokedStep DEF HolderJob

LEMMA SweepStep ==
  ASSUME SeatsInv, IsFiniteSet(Seats), SweepOfHousehold
  PROVE  SeatsInv'
BY SweepSeatsHolderStep, SweepUnseatsHolderStep, SweepRemovesHolderStep, SweepRollsHolderUpStep, SweepLapsesStep DEF SweepOfHousehold

-----------------------------------------------------------------------------
(* The requests.                                                           *)

(* Only one is open: the others' part of the invariant holds of itself.    *)
LEMMA OneOpen ==
  ASSUME NEW r \in HubRequests, \A q \in HubRequests : q # r => hubReq'[q] = NoAsk, AskFits(r)'
  PROVE  OneAsk' /\ \A q \in HubRequests : AskFits(q)'
<1>1. OneAsk'
  BY DEF OneAsk, Open
<1>2. ASSUME NEW q \in HubRequests, q # r PROVE AskFits(q)'
  BY <1>2, ConstRecords DEF AskFits, AddFits, SubmitFits, RemoveFits, HolderAsks
<1> QED  BY <1>1, <1>2

LEMMA NoneOpen ==
  ASSUME NEW r \in HubRequests, \A q \in HubRequests : hubReq'[q] = NoAsk
  PROVE  /\ OneAsk' /\ (\A q \in HubRequests : AskFits(q)') /\ ~Claiming' /\ ~ClaimedFlag' /\ \A q \in HubRequests : ~Open(q)'
<1>1. AskFits(r)'
  BY ConstRecords DEF AskFits, AddFits, SubmitFits, RemoveFits, HolderAsks
<1>2. OneAsk' /\ \A q \in HubRequests : AskFits(q)'
  BY <1>1, OneOpen
<1> QED  BY <1>2, ConstRecords DEF Claiming, ClaimedFlag, Open

LEMMA Together ==
  ASSUME SeatsInv, SeatsShape', LeftGoes, hubLeft.patient => Patient'
  PROVE  SeatsInv'
<1>1. Orderly(hubLeft)'
  BY DEF SeatsInv, Orderly, LeftGoes, SeatsShape, HouseholdScenario
<1> QED  BY <1>1 DEF SeatsInv, LeftGoes

(* A request opens: it reads, and writes nothing.                          *)
LEMMA Asked ==
  ASSUME SeatsInv, IsFiniteSet(Seats), NEW r \in HubRequests, NEW op \in HubOps,
         NEW step \in {"idle", "create", "flip", "queue", "act", "flag"},
         NEW who \in SUBSET People, NEW st \in RowSt, NEW user \in BOOLEAN,
         MayAsk(r, op), Ask(r, op, step, who, st, user),
         UNCHANGED <<ordered, cycles, holder, seat, hubJobs, hubRun, answered>>, step # "queue",
         hubLeft.patient =>
           /\ op = "claim" => SubSlots < hubLeft.cap
           /\ AddFits([op |-> op, step |-> step, who |-> who, row |-> st, user |-> user])
           /\ SubmitFits([op |-> op, step |-> step, who |-> who, row |-> st, user |-> user])
           /\ RemoveFits([op |-> op, step |-> step, who |-> who, row |-> st, user |-> user])
  PROVE  SeatsInv'
<1> DEFINE x == [op |-> op, step |-> step, who |-> who, row |-> st, user |-> user]
<1>1. SeatsShape /\ holder \in HolderRec /\ Holder \in People /\ hubLeft.cap \in Nat
  BY HolderFacts
<1>2. LeftGoes /\ hubLeft'.cap = hubLeft.cap /\ hubHappened' = hubHappened
  BY <1>1, AskGoes DEF LeftGoes, MayAsk
<1>3. hubReq' \in [HubRequests -> AskRec] /\ hubReq'[r] = x /\ (\A q \in HubRequests : q # r => hubReq'[q] = hubReq[q])
      /\ x.op = op /\ x.step = step
  BY <1>1, AskTyped
<1>4. /\ \A k, q : (Waits(k, q)' <=> Waits(k, q)) /\ (Under(k, q)' <=> Under(k, q))
      /\ (SeatReleased' <=> SeatReleased) /\ SubSlots' = SubSlots /\ Occupied' = Occupied
  BY DEF Waits, Under, SeatReleased, SubSlots, Occupied, HolderSlots
<1>5. SeatsShape'
  BY <1>1, <1>2, <1>3 DEF SeatsShape, LeftGoes
<1>6. ASSUME hubLeft.patient PROVE Patient'
  <2>1. HolderFits /\ Occupied <= hubLeft.cap /\ ~Under("renewal", Holder) /\ Patient
    BY <1>6, HolderFacts
  <2>2. ~Busy(Holder) /\ \A q \in HubRequests : hubReq[q] = NoAsk
    BY <1>6 DEF MayAsk
  <2>3. /\ \A k \in {"grant", "revoke", "cancel", "renewal"} : ~Under(k, Holder)
        /\ ~Claiming /\ ~ClaimedFlag
    BY <2>2, ConstRecords DEF Under, Busy, Waits, Claiming, ClaimedFlag
  <2>4. AskFits(r)'
    <3> HIDE DEF x
    <3>0. AddFits(x) /\ SubmitFits(x) /\ RemoveFits(x)
      BY <1>6 DEF x
    <3>1. AddFits(x)' /\ SubmitFits(x)' /\ RemoveFits(x)'
      BY <1>2, <1>4, <3>0 DEF AddFits, SubmitFits, RemoveFits
    <3>2. HolderAsks(x)'
      BY <1>3, <1>4, <2>3 DEF HolderAsks
    <3>3. hubReq'[r].op # "none"
      BY <1>3 DEF HubOps
    <3> QED  BY <1>3, <3>1, <3>2, <3>3 DEF AskFits
  <2>5. OneAsk' /\ \A q \in HubRequests : AskFits(q)'
    BY <1>3, <2>2, <2>4, OneOpen
  <2>6. ~ClaimedFlag' /\ (Claiming' => op = "claim")
    <3> HIDE DEF x
    <3> QED  BY <1>3, <2>2, ConstRecords DEF Claiming, ClaimedFlag
  <2>7. HolderFits'
    BY <1>2, <1>4, <1>6, <2>1, <2>3, <2>6 DEF HolderFits, KeepsRole, LeftGoes
  <2>8. ASSUME NEW s \in Seats PROVE SeatFits(s)'
    <3>1. SeatFits(s) /\ hubHappened \subseteq hubHappened'
      BY <1>2, <2>1 DEF Patient
    <3> QED  BY <1>4, <3>1, SeatStays
  <2> QED  BY <1>2, <1>4, <2>1, <2>5, <2>7, <2>8 DEF Patient
<1> QED  BY <1>2, <1>5, <1>6, Together

LEMMA HubStep ==
  ASSUME SeatsInv, IsFiniteSet(Seats), NEW r \in HubRequests, Hub(r)
  PROVE  SeatsInv'
<1>0. SeatsShape /\ "none" \in RowSt /\ "draft" \in RowSt /\ {} \in SUBSET People /\ {Holder} \in SUBSET People
  BY HolderFacts, PeopleAre DEF RowSt
<1>1. CASE AddChecks(r)
  <2>1. MayAsk(r, "add") /\ Ask(r, "add", "create", {}, "none", FALSE) /\ Occupied < hubLeft.cap
        /\ UNCHANGED <<ordered, cycles, holder, seat, hubJobs, hubRun, answered>>
    BY <1>1 DEF AddChecks, money, doors
  <2>2. /\ AddFits([op |-> "add", step |-> "create", who |-> {}, row |-> "none", user |-> FALSE])
        /\ SubmitFits([op |-> "add", step |-> "create", who |-> {}, row |-> "none", user |-> FALSE])
        /\ RemoveFits([op |-> "add", step |-> "create", who |-> {}, row |-> "none", user |-> FALSE])
    BY <2>1 DEF AddFits, SubmitFits, RemoveFits
  <2> QED  BY <1>0, <2>1, <2>2, Asked DEF HubOps
<1>2. CASE SubmitReads(r)
  <2> DEFINE drafts == {s \in Seats : seat[s].sub /\ seat[s].row = "draft"}
  <2>1. MayAsk(r, "submit") /\ Ask(r, "submit", "flip", drafts, "draft", FALSE)
        /\ UNCHANGED <<ordered, cycles, holder, seat, hubJobs, hubRun, answered>>
    BY <1>2 DEF SubmitReads, money, doors
  <2>2. drafts \in SUBSET People
    BY PeopleAre
  <2>3. ASSUME hubLeft.patient, NEW s \in drafts
        PROVE  s \in Seats /\ seat[s].sub /\ ~Under("grant", s) /\ seat[s].row = "draft"
    <3>1. SeatFits(s) /\ seat[s].row = "draft"
      BY <2>3 DEF SeatsInv, Patient
    <3> QED  BY <2>3, <3>1 DEF SeatFits
  <2> HIDE DEF drafts
  <2>4. hubLeft.patient =>
          /\ AddFits([op |-> "submit", step |-> "flip", who |-> drafts, row |-> "draft", user |-> FALSE])
          /\ SubmitFits([op |-> "submit", step |-> "flip", who |-> drafts, row |-> "draft", user |-> FALSE])
          /\ RemoveFits([op |-> "submit", step |-> "flip", who |-> drafts, row |-> "draft", user |-> FALSE])
    BY <2>3 DEF AddFits, SubmitFits, RemoveFits
  <2> QED  BY <1>0, <2>1, <2>2, <2>4, Asked DEF HubOps
<1>3. CASE ClaimChecks(r)
  <2>1. MayAsk(r, "claim") /\ Ask(r, "claim", "flag", {Holder}, "none", FALSE) /\ SubSlots < hubLeft.cap
        /\ UNCHANGED <<ordered, cycles, holder, seat, hubJobs, hubRun, answered>>
    BY <1>3 DEF ClaimChecks, money, doors
  <2>2. /\ AddFits([op |-> "claim", step |-> "flag", who |-> {Holder}, row |-> "none", user |-> FALSE])
        /\ SubmitFits([op |-> "claim", step |-> "flag", who |-> {Holder}, row |-> "none", user |-> FALSE])
        /\ RemoveFits([op |-> "claim", step |-> "flag", who |-> {Holder}, row |-> "none", user |-> FALSE])
    BY DEF AddFits, SubmitFits, RemoveFits
  <2> QED  BY <1>0, <2>1, <2>2, Asked DEF HubOps
<1>4. CASE ReleaseChecks(r)
  <2>1. MayAsk(r, "release") /\ Ask(r, "release", "flag", {Holder}, "none", FALSE)
        /\ UNCHANGED <<ordered, cycles, holder, seat, hubJobs, hubRun, answered>>
    BY <1>4 DEF ReleaseChecks, money, doors
  <2>2. /\ AddFits([op |-> "release", step |-> "flag", who |-> {Holder}, row |-> "none", user |-> FALSE])
        /\ SubmitFits([op |-> "release", step |-> "flag", who |-> {Holder}, row |-> "none", user |-> FALSE])
        /\ RemoveFits([op |-> "release", step |-> "flag", who |-> {Holder}, row |-> "none", user |-> FALSE])
    BY DEF AddFits, SubmitFits, RemoveFits
  <2> QED  BY <1>0, <2>1, <2>2, Asked DEF HubOps
<1>5. ASSUME NEW s \in Seats, RemoveReads(r, s) PROVE SeatsInv'
  <2> DEFINE st == seat[s].row
             user == seat[s].user
  <2>1. MayAsk(r, "remove") /\ Ask(r, "remove", "act", {s}, st, user) /\ (hubLeft.patient => ~Busy(s))
        /\ UNCHANGED <<ordered, cycles, holder, seat, hubJobs, hubRun, answered>>
    BY <1>5 DEF RemoveReads, money, doors
  <2>2. {s} \in SUBSET People /\ st \in RowSt /\ user \in BOOLEAN
    BY <1>0, PeopleAre DEF SeatsShape, SeatRec
  <2>3. ASSUME hubLeft.patient
        PROVE  ~Under("grant", s) /\ (user => seat[s].row \notin Unserved)
    <3>1. SeatFits(s) /\ ~Under("grant", s)
      BY <2>1, <2>3 DEF SeatsInv, Patient, Busy, Under, Waits
    <3> QED  BY <3>1 DEF SeatFits
  <2>4. st = seat[s].row /\ user = seat[s].user
    OBVIOUS
  <2> HIDE DEF st, user
  <2>5. hubLeft.patient =>
          /\ AddFits([op |-> "remove", step |-> "act", who |-> {s}, row |-> st, user |-> user])
          /\ SubmitFits([op |-> "remove", step |-> "act", who |-> {s}, row |-> st, user |-> user])
          /\ RemoveFits([op |-> "remove", step |-> "act", who |-> {s}, row |-> st, user |-> user])
    BY <2>3, <2>4 DEF AddFits, SubmitFits, RemoveFits
  <2> QED  BY <1>0, <2>1, <2>2, <2>5, Asked DEF HubOps
<1> QED  BY <1>1, <1>2, <1>3, <1>4, <1>5 DEF Hub

(* What an open request knows: nobody else asks, and no grant of the       *)
(* holder's is under way, unless it is the claim that queued it.           *)
LEMMA OpenFacts ==
  ASSUME SeatsInv, hubLeft.patient, NEW r \in HubRequests, hubReq[r].op # "none"
  PROVE  /\ \A q \in HubRequests : q # r => hubReq[q] = NoAsk
         /\ AskFits(r) /\ HolderFits /\ Patient /\ Occupied <= hubLeft.cap /\ ~Under("renewal", Holder)
         /\ ClaimedFlag <=> hubReq[r].op = "claim" /\ hubReq[r].step = "queue"
         /\ Claiming <=> hubReq[r].op = "claim"
         /\ Under("grant", Holder) => ClaimedFlag
<1>1. Patient /\ HolderFits /\ AskFits(r) /\ Open(r) /\ Occupied <= hubLeft.cap /\ ~Under("renewal", Holder)
  BY AsksOpen DEF SeatsInv, Patient
<1>2. Under("grant", Holder) => ClaimedFlag
  BY <1>1 DEF HolderFits
<1>3. Claiming <=> hubReq[r].op = "claim"
  BY <1>1, OnlyAsk DEF Claiming
<1> QED  BY <1>1, <1>2, <1>3, OnlyAsk

LEMMA AddCreatesStep ==
  ASSUME SeatsInv, IsFiniteSet(Seats), NEW r \in HubRequests, NEW s \in Seats, NEW half \in BOOLEAN, AddCreates(r, s, half)
  PROVE  SeatsInv'
<1> DEFINE v == [Nowhere EXCEPT !.at = "pending_identity", !.sub = TRUE, !.row = IF half THEN "none" ELSE "draft"]
<1>1. SeatsShape /\ holder \in HolderRec /\ Holder \in People /\ hubLeft.cap \in Nat
  BY HolderFacts
<1>2. LeftGoes /\ hubLeft'.cap = hubLeft.cap
  BY <1>1, SmoothGoes, SlipGoes DEF AddCreates, LeftGoes
<1>3. /\ v \in SeatRec /\ v.at = "pending_identity" /\ v.sub /\ v.row \in {"none", "draft"} /\ ~v.user /\ ~v.role
  BY ConstRecords DEF SeatRec, RowSt
<1>4. /\ hubReq[r].op = "add" /\ seat[s] = Nowhere /\ s \notin answered.removed /\ seat' = [seat EXCEPT ![s] = v]
      /\ Reply(r) /\ UNCHANGED <<ordered, cycles, holder, hubJobs, hubRun, answered>>
  BY DEF AddCreates, money
<1> HIDE DEF v
<1>5. /\ hubReq' \in [HubRequests -> AskRec] /\ hubReq'[r] = NoAsk
      /\ \A q \in HubRequests : q # r => hubReq'[q] = hubReq[q]
  BY <1>1, <1>4, ReplyTyped
<1>6. seat' \in [Seats -> SeatRec] /\ seat'[s] = v /\ \A t \in Seats : t # s => seat'[t] = seat[t]
  BY <1>1, <1>3, <1>4 DEF SeatsShape
<1>7. /\ \A k, q : (Waits(k, q)' <=> Waits(k, q)) /\ (Under(k, q)' <=> Under(k, q))
      /\ SeatReleased' <=> SeatReleased
  BY <1>4 DEF Waits, Under, SeatReleased
<1>8. SeatsShape'
  <2>1. \A t \in Seats : seat'[t].row # "none" => seat'[t].at # "none"
    BY <1>1, <1>3, <1>6 DEF SeatsShape
  <2> QED  BY <1>1, <1>2, <1>4, <1>5, <1>6, <2>1 DEF SeatsShape, LeftGoes
<1>9. ASSUME hubLeft.patient PROVE Patient'
  <2>1. /\ \A q \in HubRequests : hubReq'[q] = NoAsk
        /\ HolderFits /\ Patient /\ ~Under("renewal", Holder) /\ ~ClaimedFlag /\ ~Claiming /\ ~Under("grant", Holder)
        /\ Occupied < hubLeft.cap
    BY <1>4, <1>5, <1>9, OpenFacts DEF AskFits, AddFits
  <2>2. OneAsk' /\ (\A q \in HubRequests : AskFits(q)') /\ ~Claiming' /\ ~ClaimedFlag' /\ \A q \in HubRequests : ~Open(q)'
    BY <2>1, NoneOpen
  <2>3. HolderFits'
    BY <1>2, <1>4, <1>7, <2>1, <2>2 DEF HolderFits, KeepsRole, LeftGoes
  <2>4. Occupied' <= hubLeft'.cap
    <3>1. SubSlots' <= SubSlots + 1 /\ SubSlots' \in Nat /\ SubSlots \in Nat
      BY <1>6, SlotsOneMore DEF Taking
    <3>2. HolderSlots' = HolderSlots /\ HolderSlots \in Nat
      BY <1>4 DEF HolderSlots
    <3>3. PICK a, b, h, c \in Nat : a = SubSlots /\ b = SubSlots' /\ h = HolderSlots /\ c = hubLeft.cap
      BY <1>1, <3>1, <3>2
    <3>4. h + a < c /\ b <= a + 1
      BY <2>1, <3>1, <3>3 DEF Occupied
    <3>5. h + b <= c
      BY <3>4
    <3> QED  BY <1>2, <3>2, <3>3, <3>5 DEF Occupied
  <2>5. ASSUME NEW t \in Seats PROVE SeatFits(t)'
    <3>1. SeatFits(t) /\ hubHappened \subseteq hubHappened'
      BY <1>2, <2>1 DEF Patient, LeftGoes
    <3>2. CASE t = s
      <4>1. ~Under("grant", s) /\ ~Under("revoke", s)
        BY <1>4, <3>1, <3>2, ConstRecords DEF SeatFits
      <4>2. ~Under("grant", s)' /\ ~Under("revoke", s)' /\ s \notin answered'.removed /\ hubRun'[s].kind # "grant"
        BY <1>4, <1>7, <4>1 DEF Under
      <4> QED  BY <1>3, <1>6, <3>2, <4>2 DEF SeatFits
    <3>3. CASE t # s
      BY <1>4, <1>6, <1>7, <3>1, <3>3, SeatStays
    <3> QED  BY <3>2, <3>3
  <2> QED  BY <1>4, <1>7, <2>1, <2>2, <2>3, <2>4, <2>5 DEF Patient
<1> QED  BY <1>2, <1>8, <1>9, Together

(* A request about the seats goes on: nothing of the holder changes.       *)
LEMMA HolderBeside ==
  ASSUME SeatsInv, hubLeft.patient, LeftGoes, IsFiniteSet(Seats), NEW r \in HubRequests,
         hubReq[r].op \in {"submit", "remove"}, hubReq'[r].op \in {"none", "submit", "remove"},
         \A q \in HubRequests : q # r => hubReq'[q] = hubReq[q],
         UNCHANGED <<ordered, cycles, holder, hubRun>>, answered'.left = answered.left,
         \A k : Waits(k, Holder)' <=> Waits(k, Holder),
         \A s \in Seats : Taking(s)' => Taking(s)
  PROVE  /\ HolderFits' /\ Occupied' <= hubLeft'.cap /\ ~Under("renewal", Holder)' /\ Len(cycles') = 1 /\ cycles'[1].open
         /\ \A q \in HubRequests : q # r => hubReq'[q] = NoAsk
<1>1. SeatsShape /\ holder \in HolderRec /\ Holder \in People /\ hubLeft.cap \in Nat /\ hubLeft'.cap = hubLeft.cap
  BY HolderFacts DEF LeftGoes
<1>2. /\ \A q \in HubRequests : q # r => hubReq'[q] = NoAsk
      /\ HolderFits /\ Patient /\ ~Under("renewal", Holder) /\ ~ClaimedFlag /\ ~Claiming /\ ~Under("grant", Holder)
      /\ Occupied <= hubLeft.cap
  BY OpenFacts
<1>3. ~Claiming' /\ ~ClaimedFlag'
  BY <1>2, ConstRecords DEF Claiming, ClaimedFlag
<1>4. (\A k : Under(k, Holder)' <=> Under(k, Holder)) /\ (SeatReleased' <=> SeatReleased)
  BY DEF Under, SeatReleased
<1>5. HolderFits'
  BY <1>2, <1>3, <1>4 DEF HolderFits, KeepsRole, LeftGoes
<1>6. Occupied' <= hubLeft'.cap
  <2>1. SubSlots' <= SubSlots /\ SubSlots' \in Nat /\ SubSlots \in Nat
    BY SlotsFewer
  <2>2. HolderSlots' = HolderSlots /\ HolderSlots \in Nat
    BY DEF HolderSlots
  <2>3. Occupied' <= Occupied /\ Occupied \in Nat /\ Occupied' \in Nat
    BY <2>1, <2>2, Sums
  <2>4. PICK n, m, c \in Nat : n = Occupied' /\ m = Occupied /\ c = hubLeft.cap
    BY <1>1, <2>3
  <2>5. n <= m /\ m <= c
    BY <1>2, <2>3, <2>4
  <2>6. n <= c
    BY <2>5
  <2> QED  BY <1>1, <2>4, <2>6
<1> QED  BY <1>2, <1>4, <1>5, <1>6 DEF Patient

LEMMA SubmitFlipsStep ==
  ASSUME SeatsInv, IsFiniteSet(Seats), NEW r \in HubRequests, SubmitFlips(r)
  PROVE  SeatsInv'
<1>1. SeatsShape
  BY HolderFacts
<1>2. LeftGoes
  BY <1>1, SmoothGoes DEF SubmitFlips
<1>3. /\ hubReq[r].op = "submit" /\ hubReq[r].step = "flip" /\ Step(r, "queue")
      /\ seat' = [s \in Seats |-> IF seat[s].sub /\ seat[s].row = "draft" THEN [seat[s] EXCEPT !.row = "pending_hardware"] ELSE seat[s]]
      /\ UNCHANGED <<ordered, cycles, holder, hubJobs, hubRun, answered>>
  BY DEF SubmitFlips, money
<1>4. /\ hubReq' \in [HubRequests -> AskRec]
      /\ hubReq'[r].step = "queue" /\ hubReq'[r].op = hubReq[r].op /\ hubReq'[r].who = hubReq[r].who
      /\ \A q \in HubRequests : q # r => hubReq'[q] = hubReq[q]
  BY <1>1, <1>3, StepTyped
<1>5. ASSUME NEW s \in Seats
      PROVE  /\ seat'[s] \in SeatRec /\ seat'[s].at = seat[s].at /\ seat'[s].sub = seat[s].sub
             /\ seat'[s].user = seat[s].user /\ seat'[s].role = seat[s].role
             /\ seat'[s].row = IF seat[s].sub /\ seat[s].row = "draft" THEN "pending_hardware" ELSE seat[s].row
  <2>1. seat[s] \in SeatRec /\ seat'[s] = IF seat[s].sub /\ seat[s].row = "draft" THEN [seat[s] EXCEPT !.row = "pending_hardware"] ELSE seat[s]
    BY <1>1, <1>3 DEF SeatsShape
  <2> QED  BY <2>1 DEF SeatRec, RowSt
<1>6. \A k, q : (Waits(k, q)' <=> Waits(k, q)) /\ (Under(k, q)' <=> Under(k, q))
  BY <1>3 DEF Waits, Under
<1>7. SeatsShape'
  <2>1. \A t \in Seats : seat'[t].row # "none" => seat'[t].at # "none"
    BY <1>1, <1>5 DEF SeatsShape
  <2>2. seat' \in [Seats -> SeatRec]
    BY <1>3, <1>5
  <2> QED  BY <1>1, <1>2, <1>3, <1>4, <2>1, <2>2 DEF SeatsShape, LeftGoes
<1>8. ASSUME hubLeft.patient PROVE Patient'
  <2>1. \A s \in Seats : Taking(s)' => Taking(s)
    BY <1>5 DEF Taking, TakesSlot
  <2>2. /\ HolderFits' /\ Occupied' <= hubLeft'.cap /\ ~Under("renewal", Holder)' /\ Len(cycles') = 1 /\ cycles'[1].open
        /\ \A q \in HubRequests : q # r => hubReq'[q] = NoAsk
    BY <1>2, <1>3, <1>4, <1>6, <1>8, <2>1, HolderBeside
  <2>3. Patient /\ AskFits(r)
    BY <1>3, <1>8, OpenFacts
  <2>4. AskFits(r)'
    BY <1>3, <1>4, <1>5, <1>6, <2>3 DEF AskFits, AddFits, SubmitFits, RemoveFits, HolderAsks
  <2>5. OneAsk' /\ \A q \in HubRequests : AskFits(q)'
    BY <2>2, <2>4, OneOpen
  <2>6. ASSUME NEW s \in Seats PROVE SeatFits(s)'
    <3>1. SeatFits(s) /\ hubHappened \subseteq hubHappened'
      BY <1>2, <2>3 DEF Patient, LeftGoes
    <3>2. seat'[s].row = seat[s].row \/ (seat[s].row = "draft" /\ seat'[s].row = "pending_hardware" /\ ~Under("grant", s) /\ ~seat[s].user /\ ~seat[s].role)
      BY <1>5, <3>1 DEF SeatFits, Unserved, Under
    <3> QED  BY <1>3, <1>5, <1>6, <3>1, <3>2 DEF SeatFits, Unserved
  <2> QED  BY <2>2, <2>5, <2>6 DEF Patient
<1> QED  BY <1>2, <1>7, <1>8, Together

LEMMA SubmitQueuesStep ==
  ASSUME SeatsInv, IsFiniteSet(Seats), NEW r \in HubRequests, NEW queued \in SUBSET Seats, SubmitQueues(r, queued)
  PROVE  SeatsInv'
<1>1. SeatsShape
  BY HolderFacts
<1>2. LeftGoes
  BY <1>1, SmoothGoes, SlipGoes DEF SubmitQueues
<1>3. /\ hubReq[r].op = "submit" /\ hubReq[r].step = "queue" /\ Reply(r) /\ queued \subseteq hubReq[r].who
      /\ hubJobs' = hubJobs \cup {[kind |-> "grant", of |-> s] : s \in queued}
      /\ UNCHANGED <<ordered, cycles, holder, seat, hubRun, answered>>
  BY DEF SubmitQueues, money, doors
<1>4. /\ hubReq' \in [HubRequests -> AskRec] /\ hubReq'[r] = NoAsk
      /\ \A q \in HubRequests : q # r => hubReq'[q] = hubReq[q]
  BY <1>1, <1>3, ReplyTyped
<1>5. queued \in SUBSET People
  BY PeopleAre
<1>6. /\ hubJobs' \subseteq HubJob
      /\ \A k, q : Waits(k, q)' <=> Waits(k, q) \/ (k = "grant" /\ q \in queued)
  BY <1>1, <1>3, <1>5, QueuedTyped
<1>7. SeatsShape'
  BY <1>1, <1>2, <1>3, <1>4, <1>6 DEF SeatsShape, LeftGoes
<1>8. ASSUME hubLeft.patient PROVE Patient'
  <2>1. \A s \in Seats : Taking(s)' => Taking(s)
    BY <1>3 DEF Taking
  <2>2. Holder \notin queued
    BY PeopleAre
  <2>3. /\ HolderFits' /\ Occupied' <= hubLeft'.cap /\ ~Under("renewal", Holder)' /\ Len(cycles') = 1 /\ cycles'[1].open
        /\ \A q \in HubRequests : q # r => hubReq'[q] = NoAsk
    BY <1>2, <1>3, <1>4, <1>6, <1>8, <2>1, <2>2, ConstRecords, HolderBeside
  <2>4. Patient /\ AskFits(r)
    BY <1>3, <1>8, OpenFacts
  <2>5. OneAsk' /\ \A q \in HubRequests : AskFits(q)'
    BY <1>4, <2>3, NoneOpen
  <2>6. ASSUME NEW s \in Seats PROVE SeatFits(s)'
    <3>1. SeatFits(s) /\ hubHappened \subseteq hubHappened' /\ seat'[s] = seat[s] /\ hubRun'[s] = hubRun[s]
      BY <1>2, <1>3, <2>4 DEF Patient, LeftGoes
    <3>2. Waits("revoke", s)' <=> Waits("revoke", s)
      BY <1>6
    <3>3. CASE s \in queued
      <4>1. seat[s].sub /\ ~Under("grant", s) /\ seat[s].row = "pending_hardware"
        BY <1>3, <2>4, <3>3 DEF AskFits, SubmitFits
      <4>2. Waits("grant", s)' /\ hubRun'[s].kind # "grant"
        BY <1>6, <3>1, <3>3, <4>1 DEF Under
      <4> QED  BY <1>3, <3>1, <3>2, <4>1, <4>2 DEF SeatFits, Under
    <3>4. CASE s \notin queued
      BY <1>3, <1>6, <3>1, <3>2, <3>4, SeatStays
    <3> QED  BY <3>3, <3>4
  <2> QED  BY <2>3, <2>5, <2>6 DEF Patient
<1> QED  BY <1>2, <1>7, <1>8, Together

(* The removal: what it read still decides rightly.                        *)
LEMMA RemovedFacts ==
  ASSUME SeatsInv, hubLeft.patient, NEW r \in HubRequests, NEW s \in Seats, hubReq[r].op = "remove", hubReq[r].who = {s}
  PROVE  /\ ~Under("grant", s) /\ SeatFits(s) /\ Patient
         /\ hubReq[r].row = "draft" => seat[s].row = "draft"
         /\ ~hubReq[r].user => ~seat[s].user
         /\ hubReq[r].row # "draft" /\ hubReq[r].user => seat[s].row \notin Unserved
         /\ hubReq[r].step = "queue" => hubReq[r].row # "draft" /\ hubReq[r].user
<1>1. RemoveFits(hubReq[r]) /\ Patient
  BY OpenFacts DEF AskFits
<1>2. PICK t \in Seats :
        /\ {s} = {t} /\ ~Under("grant", t)
        /\ hubReq[r].row = "draft" => seat[t].row = "draft"
        /\ ~hubReq[r].user => ~seat[t].user
        /\ hubReq[r].row # "draft" /\ hubReq[r].user => seat[t].row \notin Unserved
        /\ hubReq[r].step = "queue" => hubReq[r].row # "draft" /\ hubReq[r].user
  BY <1>1 DEF RemoveFits
<1>3. s = t
  BY <1>2
<1> QED  BY <1>1, <1>2, <1>3 DEF Patient

LEMMA RemoveDeletesStep ==
  ASSUME SeatsInv, IsFiniteSet(Seats), NEW r \in HubRequests, NEW s \in Seats, RemoveDeletes(r, s)
  PROVE  SeatsInv'
<1> DEFINE v == HardDeleted(s)
<1>1. SeatsShape /\ seat[s] \in SeatRec /\ answered \in [removed : SUBSET Seats, left : BOOLEAN]
  BY HolderFacts DEF SeatsShape
<1>2. LeftGoes
  BY <1>1, SmoothGoes DEF RemoveDeletes
<1>3. v \in SeatRec /\ v.at = "none" /\ v.row = "none" /\ ~v.sub /\ ~v.user /\ v.role = seat[s].role
  BY <1>1, ConstRecords DEF SeatRec, RowSt, HardDeleted
<1>4. /\ hubReq[r].op = "remove" /\ hubReq[r].who = {s} /\ (hubReq[r].row = "draft" \/ ~hubReq[r].user)
      /\ seat' = [seat EXCEPT ![s] = v] /\ Reply(r)
      /\ answered' = [answered EXCEPT !.removed = answered.removed \cup {s}]
      /\ UNCHANGED <<ordered, cycles, holder, hubJobs, hubRun>>
  BY DEF RemoveDeletes, money
<1> HIDE DEF v
<1>5. /\ hubReq' \in [HubRequests -> AskRec] /\ hubReq'[r] = NoAsk
      /\ \A q \in HubRequests : q # r => hubReq'[q] = hubReq[q]
  BY <1>1, <1>4, ReplyTyped
<1>6. seat' \in [Seats -> SeatRec] /\ seat'[s] = v /\ \A t \in Seats : t # s => seat'[t] = seat[t]
  BY <1>1, <1>3, <1>4 DEF SeatsShape
<1>7. answered' \in [removed : SUBSET Seats, left : BOOLEAN] /\ answered'.left = answered.left
      /\ answered'.removed = answered.removed \cup {s}
  BY <1>1, <1>4
<1>8. \A k, q : (Waits(k, q)' <=> Waits(k, q)) /\ (Under(k, q)' <=> Under(k, q))
  BY <1>4 DEF Waits, Under
<1>9. SeatsShape'
  <2>1. \A t \in Seats : seat'[t].row # "none" => seat'[t].at # "none"
    BY <1>1, <1>3, <1>6 DEF SeatsShape
  <2> QED  BY <1>1, <1>2, <1>4, <1>5, <1>6, <1>7, <2>1 DEF SeatsShape, LeftGoes
<1>10. ASSUME hubLeft.patient PROVE Patient'
  <2>1. \A t \in Seats : Taking(t)' => Taking(t)
    BY <1>3, <1>6 DEF Taking
  <2>2. /\ HolderFits' /\ Occupied' <= hubLeft'.cap /\ ~Under("renewal", Holder)' /\ Len(cycles') = 1 /\ cycles'[1].open
        /\ \A q \in HubRequests : q # r => hubReq'[q] = NoAsk
    BY <1>2, <1>4, <1>5, <1>7, <1>8, <1>10, <2>1, ConstRecords, HolderBeside
  <2>3. ~Under("grant", s) /\ SeatFits(s) /\ Patient /\ ~seat[s].role
    BY <1>4, <1>10, RemovedFacts DEF SeatFits, Under
  <2>4. OneAsk' /\ \A q \in HubRequests : AskFits(q)'
    BY <1>5, <2>2, NoneOpen
  <2>5. ASSUME NEW t \in Seats PROVE SeatFits(t)'
    <3>1. SeatFits(t) /\ hubHappened \subseteq hubHappened'
      BY <1>2, <2>3 DEF Patient, LeftGoes
    <3>2. CASE t = s
      <4>1. ~Under("grant", s)' /\ hubRun'[s].kind # "grant" /\ s \in answered'.removed
        BY <1>4, <1>7, <1>8, <2>3 DEF Under
      <4> QED  BY <1>3, <1>6, <2>3, <3>2, <4>1 DEF SeatFits, Unserved
    <3>3. CASE t # s
      BY <1>4, <1>6, <1>7, <1>8, <3>1, <3>3, SeatStays
    <3> QED  BY <3>2, <3>3
  <2> QED  BY <2>2, <2>4, <2>5 DEF Patient
<1> QED  BY <1>2, <1>9, <1>10, Together

LEMMA RemoveMarksStep ==
  ASSUME SeatsInv, IsFiniteSet(Seats), NEW r \in HubRequests, NEW s \in Seats, RemoveMarks(r, s)
  PROVE  SeatsInv'
<1> DEFINE v == [seat[s] EXCEPT !.at = IF seat[s].at = "none" THEN seat[s].at ELSE "removing"]
<1>1. SeatsShape /\ seat[s] \in SeatRec
  BY HolderFacts DEF SeatsShape
<1>2. LeftGoes
  BY <1>1, SmoothGoes DEF RemoveMarks
<1>3. /\ v \in SeatRec /\ v.row = seat[s].row /\ v.sub = seat[s].sub /\ v.user = seat[s].user /\ v.role = seat[s].role
      /\ (seat[s].at = "none" => v.at = "none") /\ (seat[s].at # "none" => v.at = "removing")
  BY <1>1 DEF SeatRec
<1>4. /\ hubReq[r].op = "remove" /\ hubReq[r].who = {s} /\ hubReq[r].row # "draft" /\ hubReq[r].user /\ Step(r, "queue")
      /\ seat' = [seat EXCEPT ![s] = v]
      /\ UNCHANGED <<ordered, cycles, holder, hubJobs, hubRun, answered>>
  BY DEF RemoveMarks, money
<1> HIDE DEF v
<1>5. /\ hubReq' \in [HubRequests -> AskRec]
      /\ hubReq'[r].step = "queue" /\ hubReq'[r].op = hubReq[r].op /\ hubReq'[r].who = hubReq[r].who
      /\ hubReq'[r].row = hubReq[r].row /\ hubReq'[r].user = hubReq[r].user
      /\ \A q \in HubRequests : q # r => hubReq'[q] = hubReq[q]
  BY <1>1, <1>4, StepTyped
<1>6. seat' \in [Seats -> SeatRec] /\ seat'[s] = v /\ \A t \in Seats : t # s => seat'[t] = seat[t]
  BY <1>1, <1>3, <1>4 DEF SeatsShape
<1>7. \A k, q : (Waits(k, q)' <=> Waits(k, q)) /\ (Under(k, q)' <=> Under(k, q))
  BY <1>4 DEF Waits, Under
<1>8. SeatsShape'
  <2>1. \A t \in Seats : seat'[t].row # "none" => seat'[t].at # "none"
    BY <1>1, <1>3, <1>6 DEF SeatsShape
  <2> QED  BY <1>1, <1>2, <1>4, <1>5, <1>6, <2>1 DEF SeatsShape, LeftGoes
<1>9. ASSUME hubLeft.patient PROVE Patient'
  <2>1. \A t \in Seats : Taking(t)' => Taking(t)
    BY <1>3, <1>6 DEF Taking
  <2>2. /\ HolderFits' /\ Occupied' <= hubLeft'.cap /\ ~Under("renewal", Holder)' /\ Len(cycles') = 1 /\ cycles'[1].open
        /\ \A q \in HubRequests : q # r => hubReq'[q] = NoAsk
    BY <1>2, <1>4, <1>5, <1>7, <1>9, <2>1, HolderBeside
  <2>3. /\ ~Under("grant", s) /\ SeatFits(s) /\ Patient /\ seat[s].row \notin Unserved
    BY <1>4, <1>9, RemovedFacts
  <2>4. AskFits(r)'
    BY <1>3, <1>4, <1>5, <1>6, <1>7, <2>3 DEF AskFits, AddFits, SubmitFits, RemoveFits, HolderAsks
  <2>5. OneAsk' /\ \A q \in HubRequests : AskFits(q)'
    BY <2>2, <2>4, OneOpen
  <2>6. ASSUME NEW t \in Seats PROVE SeatFits(t)'
    <3>1. SeatFits(t) /\ hubHappened \subseteq hubHappened'
      BY <1>2, <2>3 DEF Patient, LeftGoes
    <3>2. CASE t = s
      BY <1>3, <1>4, <1>6, <1>7, <2>3, <3>1, <3>2 DEF SeatFits
    <3>3. CASE t # s
      BY <1>4, <1>6, <1>7, <3>1, <3>3, SeatStays
    <3> QED  BY <3>2, <3>3
  <2> QED  BY <2>2, <2>5, <2>6 DEF Patient
<1> QED  BY <1>2, <1>8, <1>9, Together

LEMMA RemoveQueuesStep ==
  ASSUME SeatsInv, IsFiniteSet(Seats), NEW r \in HubRequests, NEW s \in Seats, RemoveQueues(r, s)
  PROVE  SeatsInv'
<1>1. SeatsShape /\ s \in People /\ s # Holder /\ answered \in [removed : SUBSET Seats, left : BOOLEAN]
  BY HolderFacts, PeopleAre DEF SeatsShape
<1>2. LeftGoes
  BY <1>1, SmoothGoes, SlipGoes DEF RemoveQueues
<1>3. /\ hubReq[r].op = "remove" /\ hubReq[r].step = "queue" /\ hubReq[r].who = {s} /\ Reply(r)
      /\ UNCHANGED <<ordered, cycles, holder, seat, hubRun>>
  BY DEF RemoveQueues, money, doors
<1>4. /\ hubReq' \in [HubRequests -> AskRec] /\ hubReq'[r] = NoAsk
      /\ \A q \in HubRequests : q # r => hubReq'[q] = hubReq[q]
  BY <1>1, <1>3, ReplyTyped
<1>5. \/ /\ hubJobs' = hubJobs \cup {[kind |-> "revoke", of |-> s]}
         /\ answered' = [answered EXCEPT !.removed = answered.removed \cup {s}]
      \/ Slip("enqueue") /\ UNCHANGED <<hubJobs, answered>>
  BY DEF RemoveQueues
<1>6. hubJobs' \subseteq HubJob /\ answered' \in [removed : SUBSET Seats, left : BOOLEAN]
  BY <1>1, <1>5, OneQueued DEF SeatsShape
<1>7. SeatsShape'
  BY <1>1, <1>2, <1>3, <1>4, <1>6 DEF SeatsShape, LeftGoes
<1>8. ASSUME hubLeft.patient PROVE Patient'
  <2>0. ~Slip("enqueue")
    BY <1>1, <1>8, SlipGoes DEF SeatsInv, Orderly
  <2>1. /\ \A k, q : Waits(k, q)' <=> Waits(k, q) \/ (k = "revoke" /\ q = s)
        /\ answered'.left = answered.left /\ answered'.removed = answered.removed \cup {s}
    BY <1>1, <1>5, <2>0, OneQueued
  <2>2. \A t \in Seats : Taking(t)' => Taking(t)
    BY <1>3 DEF Taking
  <2>3. /\ HolderFits' /\ Occupied' <= hubLeft'.cap /\ ~Under("renewal", Holder)' /\ Len(cycles') = 1 /\ cycles'[1].open
        /\ \A q \in HubRequests : q # r => hubReq'[q] = NoAsk
    BY <1>1, <1>2, <1>3, <1>4, <1>8, <2>1, <2>2, ConstRecords, HolderBeside
  <2>4. /\ ~Under("grant", s) /\ SeatFits(s) /\ Patient /\ seat[s].row \notin Unserved
    BY <1>3, <1>8, RemovedFacts
  <2>5. OneAsk' /\ \A q \in HubRequests : AskFits(q)'
    BY <1>4, <2>3, NoneOpen
  <2>6. ASSUME NEW t \in Seats PROVE SeatFits(t)'
    <3>1. SeatFits(t) /\ hubHappened \subseteq hubHappened' /\ seat'[t] = seat[t] /\ hubRun'[t] = hubRun[t]
      BY <1>2, <1>3, <2>4 DEF Patient, LeftGoes
    <3>2. CASE t = s
      <4>1. Under("revoke", s)' /\ ~Under("grant", s)' /\ s \in answered'.removed /\ (Waits("grant", s)' <=> Waits("grant", s))
        BY <1>3, <2>1, <2>4 DEF Under
      <4> QED  BY <2>4, <3>1, <3>2, <4>1 DEF SeatFits, Under
    <3>3. CASE t # s
      BY <2>1, <3>1, <3>3, SeatStays
    <3> QED  BY <3>2, <3>3
  <2> QED  BY <2>3, <2>5, <2>6 DEF Patient
<1> QED  BY <1>2, <1>7, <1>8, Together

(* The holder gives up their place, or claims it.                          *)
LEMMA FlaggedTyped ==
  ASSUME SeatsShape, NEW b \in BOOLEAN
  PROVE  /\ Flagged(b) \in Seq([seated : BOOLEAN, open : BOOLEAN]) /\ Flagged(b) # <<>> /\ Len(Flagged(b)) = Len(cycles)
         /\ Len(cycles) = 1 /\ cycles[1].open => Flagged(b)[1].seated = b /\ Flagged(b)[1].open
<1> DEFINE T == [seated : BOOLEAN, open : BOOLEAN]
           n == Len(cycles)
<1>1. cycles \in Seq(T) /\ cycles # <<>>
  BY DEF SeatsShape
<1>2. n \in Nat /\ DOMAIN cycles = 1..n /\ n >= 1 /\ \A i \in 1..n : cycles[i] \in T
  <2> HIDE DEF T
  <2> QED  BY <1>1
<1>3. ASSUME NEW i \in 1..n PROVE Flagged(b)[i] \in T /\ (cycles[i].open => Flagged(b)[i].seated = b /\ Flagged(b)[i].open)
  <2>1. Flagged(b)[i] = IF cycles[i].open THEN [cycles[i] EXCEPT !.seated = b] ELSE cycles[i]
    BY <1>2, <1>3 DEF Flagged
  <2>2. cycles[i] \in T
    BY <1>2, <1>3
  <2> QED  BY <2>1, <2>2
<1>4. Flagged(b) = [i \in 1..n |-> Flagged(b)[i]]
  BY <1>2 DEF Flagged
<1>5. Flagged(b) \in Seq(T) /\ Len(Flagged(b)) = n
  <2> HIDE DEF T, n
  <2> QED  BY <1>2, <1>3, <1>4
<1>6. Flagged(b) # <<>>
  <2> HIDE DEF T, n
  <2> QED  BY <1>2, <1>5
<1>7. n = 1 => 1 \in 1..n
  OBVIOUS
<1> QED  BY <1>3, <1>5, <1>6, <1>7

LEMMA FlagsSeatStep ==
  ASSUME SeatsInv, IsFiniteSet(Seats), NEW r \in HubRequests, FlagsSeat(r)
  PROVE  SeatsInv'
<1> DEFINE b == hubReq[r].op = "claim"
<1>1. SeatsShape /\ holder \in HolderRec /\ Holder \in People /\ hubLeft.cap \in Nat
  BY HolderFacts
<1>2. LeftGoes /\ hubLeft'.cap = hubLeft.cap
  BY <1>1, SmoothGoes DEF FlagsSeat, LeftGoes
<1>3. /\ hubReq[r].op \in {"claim", "release"} /\ hubReq[r].step = "flag" /\ cycles' = Flagged(b) /\ Step(r, "queue")
      /\ UNCHANGED <<ordered, holder, seat, hubJobs, hubRun, answered>>
  BY DEF FlagsSeat, doors
<1>4. b \in BOOLEAN
  OBVIOUS
<1>5. /\ hubReq' \in [HubRequests -> AskRec]
      /\ hubReq'[r].step = "queue" /\ hubReq'[r].op = hubReq[r].op
      /\ \A q \in HubRequests : q # r => hubReq'[q] = hubReq[q]
  BY <1>1, <1>3, StepTyped
<1>6. cycles' \in Seq([seated : BOOLEAN, open : BOOLEAN]) /\ cycles' # <<>> /\ Len(cycles') = Len(cycles)
      /\ (Len(cycles) = 1 /\ cycles[1].open => cycles'[1].seated = b /\ cycles'[1].open)
  BY <1>1, <1>3, <1>4, FlaggedTyped
<1>7. \A k, q : (Waits(k, q)' <=> Waits(k, q)) /\ (Under(k, q)' <=> Under(k, q))
  BY <1>3 DEF Waits, Under
<1>8. SeatsShape'
  BY <1>1, <1>2, <1>3, <1>5, <1>6 DEF SeatsShape, LeftGoes
<1>9. ASSUME hubLeft.patient PROVE Patient'
  <2>1. /\ \A q \in HubRequests : q # r => hubReq[q] = NoAsk
        /\ AskFits(r) /\ HolderFits /\ Patient /\ Occupied <= hubLeft.cap /\ ~Under("renewal", Holder)
        /\ ~ClaimedFlag /\ (Claiming <=> b) /\ ~Under("grant", Holder)
    BY <1>3, <1>9, OpenFacts
  <2>2. Len(cycles') = 1 /\ cycles'[1].open /\ (SeatReleased' <=> ~b)
    BY <1>6, <2>1 DEF Patient, SeatReleased
  <2>3. /\ b => ClaimedFlag' /\ Claiming' /\ (~Under("revoke", Holder) \/ ~ordered)
        /\ ~b => ~ClaimedFlag' /\ ~Claiming'
    BY <1>3, <1>5, <2>1, ConstRecords DEF ClaimedFlag, Claiming, AskFits, HolderAsks
  <2>4. SubSlots' = SubSlots /\ Occupied' <= hubLeft'.cap
    BY <1>1, <1>2, <1>3, <2>1, PlacesThen, PlaceKept
  <2>5. hubRun'[Holder].kind # "grant"
    BY <1>3, <2>1 DEF Under
  <2>6. ~b => SeatReleased'
    BY <2>2
  <2>7. /\ Under("revoke", Holder)' <=> Under("revoke", Holder)
        /\ Under("cancel", Holder)' <=> Under("cancel", Holder)
        /\ ~Under("grant", Holder)' /\ ~Under("renewal", Holder)'
        /\ holder' = holder /\ ordered' = ordered /\ answered' = answered
    BY <1>3, <1>7, <2>1
  <2> HIDE DEF b
  <2>8. HolderFits'
    <3>1. CASE b
      BY <1>2, <2>1, <2>3, <2>4, <2>5, <2>7, <3>1 DEF HolderFits, KeepsRole, LeftGoes
    <3>2. CASE ~b
      BY <1>2, <2>1, <2>3, <2>4, <2>5, <2>6, <2>7, <3>2 DEF HolderFits, KeepsRole, LeftGoes
    <3> QED  BY <3>1, <3>2
  <2>9. AskFits(r)'
    BY <1>3, <1>5, <2>1, <2>2, <2>6 DEF AskFits, AddFits, SubmitFits, RemoveFits, HolderAsks, b
  <2>10. OneAsk' /\ \A q \in HubRequests : AskFits(q)'
    BY <1>5, <2>1, <2>9, OneOpen
  <2>11. ASSUME NEW s \in Seats PROVE SeatFits(s)'
    <3>1. SeatFits(s) /\ hubHappened \subseteq hubHappened'
      BY <1>2, <2>1 DEF Patient, LeftGoes
    <3> QED  BY <1>3, <1>7, <3>1, SeatStays
  <2> QED  BY <2>2, <2>4, <2>8, <2>10, <2>11, <2>7 DEF Patient
<1> QED  BY <1>2, <1>8, <1>9, Together

LEMMA LeftTyped ==
  ASSUME answered \in [removed : SUBSET Seats, left : BOOLEAN], NEW b \in BOOLEAN, answered' = [answered EXCEPT !.left = b]
  PROVE  answered' \in [removed : SUBSET Seats, left : BOOLEAN] /\ answered'.removed = answered.removed /\ answered'.left = b
OBVIOUS

LEMMA QueuesSeatStep ==
  ASSUME SeatsInv, IsFiniteSet(Seats), NEW r \in HubRequests, QueuesSeat(r)
  PROVE  SeatsInv'
<1> DEFINE kind == IF hubReq[r].op = "claim" THEN "grant" ELSE "revoke"
           parted == hubReq[r].op = "release"
<1>1. /\ SeatsShape /\ holder \in HolderRec /\ Holder \in People /\ hubLeft.cap \in Nat
      /\ answered \in [removed : SUBSET Seats, left : BOOLEAN]
  BY HolderFacts DEF SeatsShape
<1>2. LeftGoes /\ hubLeft'.cap = hubLeft.cap
  BY <1>1, SmoothGoes, SlipGoes DEF QueuesSeat, LeftGoes
<1>3. /\ hubReq[r].op \in {"claim", "release"} /\ hubReq[r].step = "queue" /\ Reply(r)
      /\ UNCHANGED <<ordered, cycles, holder, seat, hubRun>>
  BY DEF QueuesSeat, money, doors
<1>4. \/ /\ hubJobs' = hubJobs \cup {[kind |-> kind, of |-> Holder]}
         /\ answered' = [answered EXCEPT !.left = parted]
      \/ Slip("enqueue") /\ UNCHANGED <<hubJobs, answered>>
  BY DEF QueuesSeat
<1>5. kind \in {"grant", "revoke"} /\ (hubReq[r].op = "claim" <=> kind = "grant") /\ (hubReq[r].op = "release" <=> kind = "revoke")
  BY <1>3
<1>05. parted \in BOOLEAN /\ (parted <=> kind = "revoke")
  BY <1>5
<1> HIDE DEF kind, parted
<1>6. /\ hubReq' \in [HubRequests -> AskRec] /\ hubReq'[r] = NoAsk
      /\ \A q \in HubRequests : q # r => hubReq'[q] = hubReq[q]
  BY <1>1, <1>3, ReplyTyped
<1>7. hubJobs' \subseteq HubJob /\ answered' \in [removed : SUBSET Seats, left : BOOLEAN] /\ answered'.removed = answered.removed
  <2>1. CASE hubJobs' = hubJobs \cup {[kind |-> kind, of |-> Holder]} /\ answered' = [answered EXCEPT !.left = parted]
    BY <1>1, <1>5, <1>05, <2>1, OneQueued, LeftTyped
  <2>2. CASE UNCHANGED <<hubJobs, answered>>
    BY <1>1, <2>2 DEF SeatsShape
  <2> QED  BY <1>4, <2>1, <2>2
<1>8. SeatsShape'
  BY <1>1, <1>2, <1>3, <1>6, <1>7 DEF SeatsShape, LeftGoes
<1>9. ASSUME hubLeft.patient PROVE Patient'
  <2>0. ~Slip("enqueue")
    BY <1>1, <1>9, SlipGoes DEF SeatsInv, Orderly
  <2>1. /\ \A k, q : Waits(k, q)' <=> Waits(k, q) \/ (k = kind /\ q = Holder)
        /\ answered'.left <=> kind = "revoke"
    <3>1. hubJobs' = hubJobs \cup {[kind |-> kind, of |-> Holder]} /\ answered' = [answered EXCEPT !.left = parted]
      BY <1>4, <2>0
    <3>2. answered'.left = parted
      BY <1>1, <1>05, <3>1, LeftTyped
    <3>3. \A k, q : Waits(k, q)' <=> Waits(k, q) \/ (k = kind /\ q = Holder)
      BY <1>1, <1>5, <3>1, OneQueued
    <3> QED  BY <1>05, <3>2, <3>3
  <2>2. /\ \A q \in HubRequests : q # r => hubReq[q] = NoAsk
        /\ AskFits(r) /\ HolderFits /\ Patient /\ Occupied <= hubLeft.cap /\ ~Under("renewal", Holder)
        /\ (ClaimedFlag <=> kind = "grant") /\ (Claiming <=> kind = "grant") /\ (Under("grant", Holder) => ClaimedFlag)
    BY <1>3, <1>5, <1>9, OpenFacts
  <2>3. /\ kind = "grant" => ~SeatReleased
        /\ kind = "revoke" => SeatReleased
    BY <1>3, <1>5, <2>2 DEF AskFits, HolderAsks
  <2>4. SeatReleased' <=> SeatReleased
    BY <1>3 DEF SeatReleased
  <2>5. OneAsk' /\ (\A q \in HubRequests : AskFits(q)') /\ ~Claiming' /\ ~ClaimedFlag' /\ \A q \in HubRequests : ~Open(q)'
    BY <1>6, <2>2, NoneOpen
  <2>6. SubSlots' = SubSlots /\ Occupied' <= hubLeft'.cap
    BY <1>1, <1>2, <1>3, <2>2, PlacesThen, PlaceKept
  <2>7. \A k : Under(k, Holder)' <=> Under(k, Holder) \/ k = kind
    BY <1>3, <2>1 DEF Under
  <2>8. HolderFits'
    <3>1. CASE kind = "grant"
      BY <1>2, <1>3, <2>1, <2>2, <2>3, <2>4, <2>5, <2>6, <2>7, <3>1 DEF HolderFits
    <3>2. CASE kind = "revoke"
      BY <1>2, <1>3, <2>1, <2>2, <2>3, <2>4, <2>5, <2>6, <2>7, <3>2 DEF HolderFits
    <3> QED  BY <1>5, <3>1, <3>2
  <2>9. ASSUME NEW s \in Seats PROVE SeatFits(s)'
    <3>1. SeatFits(s) /\ hubHappened \subseteq hubHappened' /\ s # Holder
      BY <1>2, <2>2, PeopleAre DEF Patient, LeftGoes
    <3> QED  BY <1>3, <1>7, <2>1, <3>1, SeatStays
  <2> QED  BY <1>3, <1>5, <2>2, <2>5, <2>6, <2>7, <2>8, <2>9 DEF Patient
<1> QED  BY <1>2, <1>8, <1>9, Together

LEMMA HubGoesOnStep ==
  ASSUME SeatsInv, IsFiniteSet(Seats), NEW r \in HubRequests, HubGoesOn(r)
  PROVE  SeatsInv'
BY AddCreatesStep, SubmitFlipsStep, SubmitQueuesStep, RemoveDeletesStep, RemoveMarksStep, RemoveQueuesStep, FlagsSeatStep,
   QueuesSeatStep DEF HubGoesOn

-----------------------------------------------------------------------------
LEMMA SeatsStart ==
  ASSUME SeatsInit, IsFiniteSet(Seats), \A s \in HouseholdScenarios : Orderly(s)
  PROVE  SeatsInv
<1>1. /\ hubLeft \in HouseholdScenario /\ Orderly(hubLeft) /\ ordered = TRUE
      /\ cycles = <<[seated |-> TRUE, open |-> TRUE]>> /\ holder = [at |-> "active", row |-> "active", role |-> TRUE]
      /\ \A s \in Seats : seat[s] = Nowhere
      /\ hubJobs = {} /\ \A p \in People : hubRun[p] = NoJobRun
      /\ \A r \in HubRequests : hubReq[r] = NoAsk
      /\ answered.removed = {} /\ answered.left = FALSE
  BY HolderSeatsAssumption, PeopleAre DEF SeatsInit
<1>2. SeatsShape
  <2>1. cycles \in Seq([seated : BOOLEAN, open : BOOLEAN]) /\ cycles # <<>>
    BY <1>1
  <2>2. seat \in [Seats -> SeatRec] /\ hubRun \in [People -> JobRun] /\ hubReq \in [HubRequests -> AskRec]
    BY ConstRecords DEF SeatsInit
  <2>3. answered \in [removed : SUBSET Seats, left : BOOLEAN]
    BY DEF SeatsInit
  <2>4. holder \in [at : {"in_flight", "active", "inactive"}, row : {"none", "active", "cancelled"}, role : BOOLEAN]
    BY <1>1
  <2> QED  BY <1>1, <2>1, <2>2, <2>3, <2>4, ConstRecords DEF SeatsShape
<1>3. ASSUME hubLeft.patient PROVE Patient
  <2>1. \A k, p : ~Waits(k, p)
    BY <1>1 DEF Waits
  <2>2. \A k \in {"grant", "revoke", "cancel", "renewal"}, p \in People : ~Under(k, p)
    BY <1>1, <2>1, ConstRecords DEF Under
  <2>3. (\A r \in HubRequests : ~Open(r)) /\ ~Claiming /\ ~ClaimedFlag
    BY <1>1, ConstRecords DEF Open, Claiming, ClaimedFlag
  <2>4. Len(cycles) = 1 /\ cycles[1].open /\ ~SeatReleased
    BY <1>1 DEF SeatReleased
  <2>5. OneAsk /\ \A r \in HubRequests : AskFits(r)
    BY <1>1, <2>3, ConstRecords DEF OneAsk, AskFits, AddFits, SubmitFits, RemoveFits, HolderAsks
  <2>6. \A s \in Seats : SeatFits(s)
    BY <1>1, <2>1, <2>2, PeopleAre, ConstRecords DEF SeatFits
  <2>7. HolderFits
    BY <1>1, <2>2, <2>3, PeopleAre, ConstRecords DEF HolderFits
  <2>8. Occupied <= hubLeft.cap
    <3>1. {s \in Seats : Taking(s)} = {}
      BY <1>1, ConstRecords DEF Taking
    <3>2. SubSlots = 0 /\ HolderSlots = 1
      BY <1>1, <3>1, FS_EmptySet DEF SubSlots, Taking, HolderSlots
    <3>3. hubLeft.cap >= 1
      BY <1>1, <1>3 DEF Orderly
    <3> QED  BY <3>2, <3>3 DEF Occupied
  <2> QED  BY <2>2, <2>4, <2>5, <2>6, <2>7, <2>8, PeopleAre DEF Patient
<1> QED  BY <1>1, <1>2, <1>3 DEF SeatsInv

LEMMA SeatsStutter ==
  ASSUME SeatsInv, UNCHANGED hubVars
  PROVE  SeatsInv'
<1>1. /\ ordered' = ordered /\ cycles' = cycles /\ holder' = holder /\ seat' = seat /\ hubJobs' = hubJobs /\ hubRun' = hubRun
      /\ hubReq' = hubReq /\ answered' = answered /\ hubLeft' = hubLeft /\ hubHappened' = hubHappened
  BY DEF hubVars
<1>2. SeatsShape' /\ Orderly(hubLeft)'
  BY <1>1 DEF SeatsInv, SeatsShape, Orderly
<1>3. /\ \A k, q : (Waits(k, q)' <=> Waits(k, q)) /\ (Under(k, q)' <=> Under(k, q))
      /\ (SeatReleased' <=> SeatReleased) /\ SubSlots' = SubSlots /\ Occupied' = Occupied
      /\ (ClaimedFlag <=> ClaimedFlag') /\ (Claiming <=> Claiming') /\ (\A r \in HubRequests : Open(r)' <=> Open(r))
  BY <1>1 DEF Waits, Under, SeatReleased, SubSlots, Occupied, HolderSlots, ClaimedFlag, Claiming, Open
<1>4. ASSUME hubLeft.patient PROVE Patient'
  <2>1. Patient
    BY <1>4 DEF SeatsInv
  <2>2. \A s \in Seats : SeatFits(s)'
    BY <1>1, <1>3, <2>1 DEF Patient, SeatFits
  <2>3. OneAsk'
    BY <1>1, <2>1 DEF Patient, OneAsk, Open
  <2>4. \A r \in HubRequests : AskFits(r)'
    BY <1>1, <1>3, <2>1 DEF Patient, AskFits, AddFits, SubmitFits, RemoveFits, HolderAsks
  <2>5. HolderFits'
    BY <1>1, <1>3, <2>1 DEF Patient, HolderFits, KeepsRole
  <2> QED  BY <1>1, <1>3, <2>1, <2>2, <2>3, <2>4, <2>5 DEF Patient
<1> QED  BY <1>1, <1>2, <1>4 DEF SeatsInv

LEMMA SeatsSafe ==
  ASSUME SeatsInv
  PROVE  SeatsHold
<1>1. SeatsShape /\ Holder \in People
  BY HolderFacts
<1>2. SeatsTypeOK
  BY <1>1 DEF SeatsShape, SeatsTypeOK, SeatRec, RowSt, HubJob
<1>3. SeatsWithinPlan
  BY DEF SeatsInv, SeatsWithinPlan, Patient
<1>4. LeaversStayOut
  <2> SUFFICES ASSUME hubLeft.patient, answered.left, ~Busy(Holder), \A r \in HubRequests : hubReq[r] = NoAsk
               PROVE  ~holder.role \/ KeepsRole
    BY DEF LeaversStayOut, KeepsRole
  <2>1. HolderFits
    BY HolderFacts
  <2>2. ~ClaimedFlag /\ ~Under("revoke", Holder) /\ ~Under("cancel", Holder)
    BY ConstRecords DEF ClaimedFlag, Under, Busy, Waits
  <2> QED  BY <2>1, <2>2 DEF HolderFits
<1>5. ASSUME hubLeft.patient PROVE RemovedStaysOut
  <2> SUFFICES ASSUME NEW s \in Seats, s \in answered.removed, ~Busy(s), "job" \notin hubHappened
               PROVE  ~seat[s].role
    BY DEF RemovedStaysOut
  <2>1. SeatFits(s)
    BY <1>5 DEF SeatsInv, Patient
  <2>2. ~Under("revoke", s)
    BY DEF Under, Busy, Waits
  <2> QED  BY <2>1, <2>2 DEF SeatFits
<1> QED  BY <1>2, <1>3, <1>4, <1>5 DEF SeatsHold

(* In a household that asks for one thing at a time, whose order is not    *)
(* renewed and whose jobs the queue takes, the plan never holds more       *)
(* people than it has places for, though every endpoint counts before it   *)
(* writes; a holder who gave up their place has no door once their jobs    *)
(* are done, unless the sweep closed their row before the revoke had them, *)
(* or a revoke failed; and a sub-member who was removed has none either,   *)
(* unless a revoke failed.                                                 *)
THEOREM PlacesOfAHousehold ==
  ASSUME IsFiniteSet(Seats), \A s \in HouseholdScenarios : Orderly(s)
  PROVE  SeatsSpec => []SeatsHold
<1>1. SeatsInit => SeatsInv
  BY SeatsStart
<1>2. SeatsInv /\ [SeatsNext]_hubVars => SeatsInv'
  <2> SUFFICES ASSUME SeatsInv, [SeatsNext]_hubVars
               PROVE  SeatsInv'
    OBVIOUS
  <2>1. ASSUME NEW r \in HubRequests, Hub(r) \/ HubGoesOn(r) PROVE SeatsInv'
    BY <2>1, HubStep, HubGoesOnStep
  <2>2. ASSUME NEW s \in Seats, SeatJob(s) PROVE SeatsInv'
    BY <2>2, SeatJobStep
  <2>3. CASE HolderJob
    BY <2>3, HolderJobStep
  <2>4. CASE OrderRenews
    BY <2>4, OrderRenewsStep
  <2>5. ASSUME NEW said \in BOOLEAN, OrderEnds(said) PROVE SeatsInv'
    BY <2>5, OrderEndsStep
  <2>6. CASE SweepOfHousehold
    BY <2>6, SweepStep
  <2>7. CASE UNCHANGED hubVars
    BY <2>7, SeatsStutter
  <2> QED  BY <2>1, <2>2, <2>3, <2>4, <2>5, <2>6, <2>7 DEF SeatsNext
<1>3. SeatsInv => SeatsHold
  BY SeatsSafe
<1> QED  BY <1>1, <1>2, <1>3, PTL DEF SeatsSpec

-----------------------------------------------------------------------------
(* MemberCheck: what a check says and never does.                          *)

CheckShape ==
  /\ checkLeft \in CheckScenario /\ checkSeen \in SUBSET (Troubles \cup {"role", "row", "payment"})
  /\ wixPlans \subseteq CheckPlans /\ inKisi \subseteq CheckDoors /\ enabled \in BOOLEAN
  /\ onRecord \in [CheckDoors -> {"none", "active", "failed"}]
  /\ checkJobs \subseteq [kind : {"grant", "revoke"}, plan : CheckPlans]
  /\ check \in [step : {"idle", "kisi", "judge"}, plans : SUBSET CheckPlans, roles : SUBSET CheckDoors]
  /\ check.step = "idle" => check = NoCheck
  /\ check.step = "judge" => \A p \in check.plans : Mapped(p)

(* While nothing changes under a check: a revoke that waits is of a plan   *)
(* that ended, so no role of a plan that stands is taken between the reads.*)
CalmReads ==
  checkLeft.calm =>
    /\ \A j \in checkJobs : j.kind = "revoke" => j.plan \notin wixPlans
    /\ check # NoCheck => check.plans = wixPlans
    /\ check.step = "judge" => \A p \in wixPlans : DoorOf[p] \in check.roles => DoorOf[p] \in inKisi

CheckInv == CheckShape /\ CalmReads

LEMMA CheckStarts == CheckInit => CheckInv
<1> SUFFICES ASSUME CheckInit PROVE CheckInv
  OBVIOUS
<1> USE MemberCheckAssumption
<1>1. PICK had \in SUBSET Doors({p \in CheckPlans : Mapped(p)}) :
        inKisi = had /\ onRecord = [d \in CheckDoors |-> IF d \in had THEN "active" ELSE "none"]
  BY DEF CheckInit
<1>2. had \subseteq CheckDoors
  BY DEF Doors
<1>3. onRecord \in [CheckDoors -> {"none", "active", "failed"}]
  BY <1>1
<1>4. CheckShape
  BY <1>1, <1>2, <1>3 DEF CheckInit, CheckShape, NoCheck
<1>5. CalmReads
  BY DEF CheckInit, CalmReads, NoCheck
<1> QED BY <1>4, <1>5 DEF CheckInv

(* What is left of a scenario is one.                                      *)
LEMMA CheckFaultLeft ==
  ASSUME CheckShape, NEW f, Fails(f)
  PROVE  /\ checkLeft' \in CheckScenario /\ checkLeft'.calm = checkLeft.calm /\ checkLeft'.mapped = checkLeft.mapped
         /\ checkSeen' \in SUBSET (Troubles \cup {"role", "row", "payment"})
<1>1. checkLeft.faults \in Nat /\ checkLeft.faults > 0 /\ f \in Troubles
  BY DEF CheckShape, CheckScenario, Fails
<1> QED BY <1>1 DEF CheckShape, CheckScenario, Fails

LEMMA AltersKeeps ==
  ASSUME CheckInv, NEW p \in CheckPlans, NEW lost \in BOOLEAN, Alters(p, lost)
  PROVE  CheckInv'
<1>t. CheckShape /\ CalmReads
  BY DEF CheckInv
<1>1. checkLeft' \in CheckScenario /\ checkLeft'.calm = checkLeft.calm /\ checkLeft'.mapped = checkLeft.mapped
  <2>1. checkLeft.changes \in Nat /\ checkLeft.changes > 0
    BY <1>t DEF CheckShape, CheckScenario, Alters
  <2> QED BY <1>t, <2>1 DEF CheckShape, CheckScenario, Alters
<1>2. wixPlans' \subseteq CheckPlans
  BY <1>t DEF CheckShape, Alters
<1>3. checkJobs' \subseteq [kind : {"grant", "revoke"}, plan : CheckPlans]
  BY <1>t DEF CheckShape, Alters
<1>4. CheckShape'
  BY <1>t, <1>1, <1>2, <1>3 DEF CheckShape, Alters, Member, Mapped
<1>5. CalmReads'
  <2> SUFFICES ASSUME checkLeft.calm
               PROVE  /\ \A j \in checkJobs' : j.kind = "revoke" => j.plan \notin wixPlans'
                      /\ check' = NoCheck
    BY <1>1 DEF CalmReads, NoCheck
  <2>1. check = NoCheck /\ checkJobs = {} /\ check' = check
    BY DEF Alters, May
  <2> QED BY <2>1 DEF Alters
<1> QED BY <1>4, <1>5 DEF CheckInv

LEMMA DriftsKeeps ==
  ASSUME CheckInv, NEW d \in CheckDoors, NEW how \in {"role", "row", "payment"}, Drifts(d, how)
  PROVE  CheckInv'
<1>t. CheckShape /\ CalmReads
  BY DEF CheckInv
<1>1. checkLeft' \in CheckScenario /\ checkLeft'.calm = checkLeft.calm /\ checkLeft'.mapped = checkLeft.mapped
  <2>1. checkLeft.staff \in Nat /\ checkLeft.staff > 0
    BY <1>t DEF CheckShape, CheckScenario, Drifts
  <2> QED BY <1>t, <2>1 DEF CheckShape, CheckScenario, Drifts
<1>2. inKisi' \subseteq CheckDoors /\ enabled' \in BOOLEAN /\ onRecord' \in [CheckDoors -> {"none", "active", "failed"}]
  <2>1. CASE how = "role"
    BY <1>t, <2>1 DEF CheckShape, Drifts
  <2>2. CASE how = "row"
    BY <1>t, <2>2 DEF CheckShape, Drifts
  <2>3. CASE how = "payment"
    BY <1>t, <2>3 DEF CheckShape, Drifts
  <2> QED BY <2>1, <2>2, <2>3
<1>3. CheckShape'
  BY <1>t, <1>1, <1>2 DEF CheckShape, Drifts, Mapped
<1>4. CalmReads'
  <2> SUFFICES ASSUME checkLeft.calm PROVE CalmReads'
    BY <1>1 DEF CalmReads
  <2>1. check = NoCheck /\ checkJobs = {} /\ check' = check /\ checkJobs' = checkJobs
    BY DEF Drifts, May
  <2> QED BY <2>1 DEF CalmReads, NoCheck
<1> QED BY <1>3, <1>4 DEF CheckInv

LEMMA CheckGrantKeeps ==
  ASSUME CheckInv, NEW j \in checkJobs, NEW ok \in BOOLEAN, GrantRuns(j, ok)
  PROVE  CheckInv'
<1> USE MemberCheckAssumption
<1>t. CheckShape /\ CalmReads
  BY DEF CheckInv
<1>1. /\ checkLeft' \in CheckScenario /\ checkLeft'.calm = checkLeft.calm /\ checkLeft'.mapped = checkLeft.mapped
      /\ checkSeen' \in SUBSET (Troubles \cup {"role", "row", "payment"})
  BY <1>t, CheckFaultLeft DEF GrantRuns, Works, CheckShape
<1>2. j.plan \in CheckPlans /\ DoorOf[j.plan] \in CheckDoors
  BY <1>t DEF CheckShape
<1>3. inKisi' \subseteq CheckDoors /\ inKisi \subseteq inKisi' /\ onRecord' \in [CheckDoors -> {"none", "active", "failed"}]
  BY <1>t, <1>2 DEF CheckShape, GrantRuns
<1>4. checkJobs' \subseteq checkJobs /\ UNCHANGED <<wixPlans, enabled, check>>
  BY DEF GrantRuns
<1>5. CheckShape'
  BY <1>t, <1>1, <1>3, <1>4 DEF CheckShape, Mapped
<1>6. CalmReads'
  BY <1>t, <1>1, <1>3, <1>4 DEF CalmReads
<1> QED BY <1>5, <1>6 DEF CheckInv

LEMMA CheckRevokeKeeps ==
  ASSUME CheckInv, NEW j \in checkJobs, RevokeRuns(j)
  PROVE  CheckInv'
<1> USE MemberCheckAssumption
<1>t. CheckShape /\ CalmReads
  BY DEF CheckInv
<1>1. UNCHANGED <<checkLeft, checkSeen, wixPlans, enabled, check>> /\ checkJobs' \subseteq checkJobs
  BY DEF RevokeRuns, Works
<1>2. j.plan \in CheckPlans /\ DoorOf[j.plan] \in CheckDoors
  BY <1>t DEF CheckShape
<1>3. inKisi' \subseteq CheckDoors /\ onRecord' \in [CheckDoors -> {"none", "active", "failed"}]
  BY <1>t, <1>2 DEF CheckShape, RevokeRuns
<1>4. CheckShape'
  BY <1>t, <1>1, <1>3 DEF CheckShape, Mapped
<1>5. ASSUME checkLeft.calm, NEW p \in wixPlans, DoorOf[p] \in inKisi PROVE DoorOf[p] \in inKisi'
  <2>1. p \in CheckPlans /\ p # j.plan
    BY <1>t, <1>5 DEF CheckShape, CalmReads, RevokeRuns
  <2> QED BY <1>5, <2>1 DEF RevokeRuns
<1>6. CalmReads'
  BY <1>t, <1>1, <1>5 DEF CalmReads
<1> QED BY <1>4, <1>6 DEF CheckInv

LEMMA ReadsWixKeeps ==
  ASSUME CheckInv, NEW ok \in BOOLEAN, ReadsWix(ok)
  PROVE  CheckInv'
<1>t. CheckShape /\ CalmReads
  BY DEF CheckInv
<1>1. checkLeft' \in CheckScenario /\ checkLeft'.calm = checkLeft.calm /\ checkLeft'.mapped = checkLeft.mapped
  <2>1. checkLeft.checks \in Nat /\ checkLeft.checks > 0
    BY <1>t DEF CheckShape, CheckScenario, ReadsWix
  <2> QED BY <1>t, <2>1 DEF CheckShape, CheckScenario, ReadsWix
<1>2. UNCHANGED <<wixPlans, inKisi, enabled, onRecord, checkJobs, checkSeen>>
  BY DEF ReadsWix, Member
<1>3. check' = check \/ (check'.step = "kisi" /\ check' = [step |-> "kisi", plans |-> wixPlans, roles |-> {}])
  BY DEF ReadsWix, NoCheck
<1>4. CheckShape'
  BY <1>t, <1>1, <1>2, <1>3 DEF CheckShape, Mapped
<1>5. CalmReads'
  BY <1>t, <1>1, <1>2, <1>3 DEF CalmReads
<1> QED BY <1>4, <1>5 DEF CheckInv

LEMMA ReadsKisiKeeps ==
  ASSUME CheckInv, NEW ok \in BOOLEAN, ReadsKisi(ok)
  PROVE  CheckInv'
<1>t. CheckShape /\ CalmReads
  BY DEF CheckInv
<1>1. /\ checkLeft' \in CheckScenario /\ checkLeft'.calm = checkLeft.calm /\ checkLeft'.mapped = checkLeft.mapped
      /\ checkSeen' \in SUBSET (Troubles \cup {"role", "row", "payment"})
  BY <1>t, CheckFaultLeft DEF ReadsKisi, Works, CheckShape
<1>2. UNCHANGED <<wixPlans, inKisi, enabled, onRecord, checkJobs>>
  BY DEF ReadsKisi, Member
<1>3. \/ check' = NoCheck
      \/ /\ check' = [check EXCEPT !.step = "judge", !.roles = inKisi] /\ Unclear(check.plans) = {}
         /\ check.step = "kisi"
  BY DEF ReadsKisi, Answers
<1>4. CASE check' = NoCheck
  BY <1>t, <1>1, <1>2, <1>4 DEF CheckInv, CheckShape, CalmReads, NoCheck, Mapped
<1>5. CASE /\ check' = [check EXCEPT !.step = "judge", !.roles = inKisi] /\ Unclear(check.plans) = {}
           /\ check.step = "kisi"
  <2>a. inKisi \in SUBSET CheckDoors /\ check \in [step : {"idle", "kisi", "judge"}, plans : SUBSET CheckPlans, roles : SUBSET CheckDoors]
    BY <1>t DEF CheckShape
  <2>b. check' = [step |-> "judge", plans |-> check.plans, roles |-> inKisi]
    BY <2>a, <1>5
  <2>c. check.plans \in SUBSET CheckPlans /\ check # NoCheck
    BY <2>a, <1>5 DEF NoCheck
  <2>1. /\ check' \in [step : {"idle", "kisi", "judge"}, plans : SUBSET CheckPlans, roles : SUBSET CheckDoors]
        /\ check'.step = "judge" /\ check'.plans = check.plans /\ check'.roles = inKisi /\ check # NoCheck
    BY <2>a, <2>b, <2>c
  <2>2. \A p \in check.plans : Mapped(p)
    BY <1>5 DEF Unclear
  <2>3. CheckShape'
    BY <1>t, <1>1, <1>2, <2>1, <2>2 DEF CheckShape, Mapped
  <2>4. CalmReads'
    BY <1>t, <1>1, <1>2, <2>1 DEF CalmReads
  <2> QED BY <2>3, <2>4 DEF CheckInv
<1> QED BY <1>3, <1>4, <1>5

(* Of a member without a plan whoever has a role is untraceable: the       *)
(* branch that queues the revokes is never reached.                        *)
LEMMA JudgesGrants ==
  ASSUME CheckInv, Judges
  PROVE  /\ UNCHANGED <<checkLeft, checkSeen, wixPlans, inKisi, enabled, onRecord>> /\ check' = NoCheck
         /\ checkJobs' = checkJobs \/ checkJobs' = checkJobs \cup GrantsFor(check.plans)
         /\ result' = "ok" => /\ {DoorOf[p] : p \in {q \in check.plans : Mapped(q)}} \subseteq check.roles
                              /\ Unrecorded({DoorOf[p] : p \in {q \in check.plans : Mapped(q)}}) = {}
<1> DEFINE expected == {DoorOf[p] : p \in {q \in check.plans : Mapped(q)}}
<1>1. ~(~Untraceable(expected, check.roles) /\ expected = {} /\ check.roles # {})
  BY DEF Untraceable
<1> HIDE DEF expected
<1>2. Judges <=>
        /\ check.step = "judge"
        /\ IF Untraceable(expected, check.roles) THEN Answers("needs_attention") /\ UNCHANGED checkJobs
           ELSE IF expected = {} /\ check.roles # {}
           THEN Answers("access_removed") /\ checkJobs' = checkJobs \cup {[kind |-> "revoke", plan |-> p] : p \in CheckPlans}
           ELSE IF expected \ check.roles # {} THEN Answers("access_restored") /\ checkJobs' = checkJobs \cup GrantsFor(check.plans)
           ELSE IF Unrecorded(expected) # {} THEN Answers("repaired") /\ checkJobs' = checkJobs \cup GrantsFor(check.plans)
           ELSE Answers("ok") /\ UNCHANGED checkJobs
        /\ Works
        /\ UNCHANGED <<wixPlans, Member>>
  BY DEF Judges, expected
<1>3. /\ check' = NoCheck
      /\ checkJobs' = checkJobs \/ checkJobs' = checkJobs \cup GrantsFor(check.plans)
      /\ result' = "ok" => expected \subseteq check.roles /\ Unrecorded(expected) = {}
  BY <1>1, <1>2 DEF Answers
<1> QED BY <1>2, <1>3 DEF Works, Member, expected

LEMMA JudgesKeeps ==
  ASSUME CheckInv, Judges
  PROVE  CheckInv'
<1>t. CheckShape /\ CalmReads
  BY DEF CheckInv
<1>1. \A g \in GrantsFor(check.plans) : g \in [kind : {"grant", "revoke"}, plan : CheckPlans] /\ g.kind = "grant"
  BY <1>t DEF GrantsFor, CheckShape
<1>2. checkJobs' \subseteq [kind : {"grant", "revoke"}, plan : CheckPlans]
  BY <1>t, <1>1, JudgesGrants DEF CheckShape
<1>3. CheckShape'
  BY <1>t, <1>2, JudgesGrants DEF CheckShape, NoCheck, Mapped
<1>4. CalmReads'
  BY <1>t, <1>1, JudgesGrants DEF CalmReads, NoCheck
<1> QED BY <1>3, <1>4 DEF CheckInv

LEMMA CheckSteps == CheckInv /\ [CheckNext]_checkVars => CheckInv'
<1> SUFFICES ASSUME CheckInv, [CheckNext]_checkVars PROVE CheckInv'
  OBVIOUS
<1>1. CASE UNCHANGED checkVars
  BY <1>1 DEF CheckInv, CheckShape, CalmReads, Mapped, checkVars
<1>2. CASE CheckNext
  BY <1>2, AltersKeeps, DriftsKeeps, CheckGrantKeeps, CheckRevokeKeeps, ReadsWixKeeps, ReadsKisiKeeps, JudgesKeeps
     DEF CheckNext, CheckStep
<1> QED BY <1>1, <1>2

(* Only the verdict ends a check with something queued, or says "ok".      *)
LEMMA VerdictOnly ==
  ASSUME CheckInv, CheckNext, ~Judges
  PROVE  /\ check # NoCheck /\ check' = NoCheck => checkJobs' = checkJobs
         /\ result' = "ok" => result' = result
<1>1. ASSUME NEW p \in CheckPlans, NEW lost \in BOOLEAN, Alters(p, lost)
      PROVE  check' = check /\ result' # "ok"
  BY <1>1 DEF Alters
<1>2. ASSUME NEW d \in CheckDoors, NEW how \in {"role", "row", "payment"}, Drifts(d, how)
      PROVE  check' = check /\ result' # "ok"
  BY <1>2 DEF Drifts
<1>3. ASSUME NEW j \in checkJobs, NEW ok \in BOOLEAN, GrantRuns(j, ok)
      PROVE  check' = check /\ result' = result
  BY <1>3 DEF GrantRuns
<1>4. ASSUME NEW j \in checkJobs, RevokeRuns(j)
      PROVE  check' = check /\ result' = result
  BY <1>4 DEF RevokeRuns
<1>5. ASSUME NEW ok \in BOOLEAN, ReadsWix(ok)
      PROVE  check = NoCheck /\ (result' = "ok" => result' = result)
  BY <1>5 DEF ReadsWix
<1>6. ASSUME NEW ok \in BOOLEAN, ReadsKisi(ok)
      PROVE  checkJobs' = checkJobs /\ (result' = "ok" => result' = result)
  BY <1>6 DEF ReadsKisi, Answers
<1> QED BY <1>1, <1>2, <1>3, <1>4, <1>5, <1>6 DEF CheckNext, CheckStep

LEMMA NeverRemoves ==
  CheckInv /\ [CheckNext]_checkVars =>
    [check # NoCheck /\ check' = NoCheck => \A j \in checkJobs' \ checkJobs : j.kind # "revoke"]_checkVars
<1> SUFFICES ASSUME CheckInv, CheckNext, check # NoCheck, check' = NoCheck, NEW j \in checkJobs' \ checkJobs
             PROVE  j.kind # "revoke"
  OBVIOUS
<1>1. Judges
  BY VerdictOnly
<1>2. j \in GrantsFor(check.plans)
  BY <1>1, JudgesGrants
<1> QED BY <1>2 DEF GrantsFor

LEMMA OkWhole ==
  CheckInv /\ [CheckNext]_checkVars =>
    [result' = "ok" /\ result' # result /\ checkLeft.calm => Whole]_checkVars
<1> SUFFICES ASSUME CheckInv, CheckNext, result' = "ok", result' # result, checkLeft.calm,
                    NEW p \in wixPlans, Mapped(p)
             PROVE  DoorOf[p] \in inKisi /\ onRecord[DoorOf[p]] # "none"
  BY DEF Whole
<1>1. Judges
  BY VerdictOnly
<1>2. check.step = "judge"
  BY <1>1 DEF Judges
<1>3. check # NoCheck
  BY <1>2 DEF NoCheck
<1>4. check.plans = wixPlans
  BY <1>3 DEF CheckInv, CalmReads
<1>5. DoorOf[p] \in {DoorOf[q] : q \in {x \in check.plans : Mapped(x)}}
  BY <1>4
<1>6. DoorOf[p] \in check.roles /\ onRecord[DoorOf[p]] # "none"
  BY <1>1, <1>5, JudgesGrants DEF Unrecorded
<1> QED BY <1>2, <1>6 DEF CheckInv, CalmReads

(* However purchases, jobs and lost webhooks cross a check: it takes no    *)
(* door from anybody, and where nothing changes under it "ok" is true.     *)
(* For any plans, doors and mappings.                                      *)
THEOREM ChecksAreSafe == CheckSpec => ChecksHold
<1>1. CheckInv => CheckTypeOK
  BY DEF CheckInv, CheckShape, CheckTypeOK
<1> QED BY CheckStarts, CheckSteps, NeverRemoves, OkWhole, <1>1, PTL
        DEF CheckSpec, ChecksHold, ChecksNeverRemove, OkIsWhole

-----------------------------------------------------------------------------
(* LoginEmailSwap.  The hypothesis: the worker does not die between the    *)
(* commit and the delete; where a swap can leave a half-built user behind, *)
(* the jobs run in order; and where the login changes, no door is mapped,  *)
(* no lapse falls into a swap, and no member is suspended who may come     *)
(* back.  For each there is a run that breaks a part of SwapHolds without  *)
(* it (MCPeople: DyingSwap, HastySwap, MappedSwap, LapsingSwap, OwingSwap).*)
Steady(l) == /\ "map" \notin l.else
             /\ "lapse" \in l.else => l.between
             /\ "resume" \in l.else => l.else \cap {"lapse", "payment"} = {}
SwapsApart == \A l \in SwapScenarios :
  /\ "late_crash" \notin l.kinds
  /\ l.inOrder \/ l.kinds \cap {"undo", "crash"} = {}
  /\ l.changes = 0 \/ Steady(l)

KisiUser == [email : Emails, on : BOOLEAN, roles : SUBSET SwapDoors, ours : BOOLEAN]
SwapJob  == [email : Emails, ok : BOOLEAN, n : Nat]
Building == {"assign", "commit"}

SwapShape ==
  /\ swapLeft \in SwapScenario
  /\ "late_crash" \notin swapLeft.kinds
  /\ swapLeft.inOrder \/ swapLeft.kinds \cap {"undo", "crash"} = {}
  /\ Steady(swapLeft) \/ (swapLeft.changes = 0 /\ swapJobs = {} /\ swapRun = NoSwap)
  /\ login \in Emails /\ mail \in Emails /\ swapped \in BOOLEAN /\ suspended \in BOOLEAN
  /\ \E n \in Nat : users \in [1 .. n -> KisiUser]
  /\ gone \subseteq DOMAIN users
  /\ hw \in {0} \cup DOMAIN users
  /\ row \in [SwapDoors -> [st : {"none", "active", "failed"}, of : {0} \cup DOMAIN users]]
  /\ swapJobs \subseteq SwapJob
  /\ swapRun \in [step : {"idle", "look", "rows", "create", "assign", "commit", "delete"}, job : SwapJob,
                  new : {0} \cup DOMAIN users, todo : SUBSET (SwapDoors \cup DOMAIN users), move : SUBSET SwapDoors, off : BOOLEAN]
  /\ mapping \in [door : SwapDoors \cup {"none"}, user : {0} \cup DOMAIN users]

(* Each change is a job of its own, and a later one has a smaller number.  *)
JobsInTurn == \A i, j \in swapJobs : i.n > swapLeft.changes /\ (i.n = j.n => i = j)

(* The user on record.  The rows name it with their roles: the active      *)
(* always, the failed where they may come back.                            *)
UserFits ==
  /\ hw # 0 => hw \notin gone /\ users[hw].email = mail /\ (users[hw].on <=> ~suspended)
  /\ suspended \/ (\E d \in SwapDoors : row[d].st = "failed") => swapLeft.else \cap {"lapse", "payment"} # {}
  /\ \A d \in SwapDoors : row[d].st = "active" \/ (row[d].st = "failed" /\ "resume" \in swapLeft.else) =>
       hw # 0 /\ row[d].of = hw /\ d \in users[hw].roles
MapFits == mapping # NoMap => mapping.door \in SwapDoors /\ mapping.user = hw /\ hw # 0 /\ ~Steady(swapLeft)

(* What a swap under way has read and built.                               *)
RunFits ==
  LET j == swapRun.job
      u == users[swapRun.new]
  IN  /\ swapRun.step = "idle" => swapRun = NoSwap
      /\ swapRun.step # "idle" =>
           /\ j \in swapJobs /\ hw # 0
           /\ swapLeft.inOrder => \A i \in swapJobs : i.n <= j.n
      /\ swapRun.step \in {"look", "rows", "create", "assign", "commit"} => j.ok /\ ~swapped /\ mail # j.email
      /\ swapRun.step \in {"create", "assign", "commit"} => (swapRun.off <=> suspended) /\ swapRun.move = ToMove /\ swapRun.todo \subseteq swapRun.move
      /\ swapRun.step = "rows" => (swapRun.off <=> suspended)
      /\ swapRun.step = "create" => swapRun.todo = swapRun.move
      /\ swapRun.step \in Building \cup {"delete"} <=> swapRun.new # 0
      /\ swapRun.step \in Building =>
           /\ swapRun.new \notin gone \cup {hw}
           /\ u.email = j.email /\ swapRun.move \subseteq u.roles \cup swapRun.todo
           /\ swapRun.step = "assign" => u.on
           /\ swapRun.step = "commit" => swapRun.todo = {} /\ (u.on <=> ~swapRun.off)
      /\ swapRun.step = "delete" => hw \notin swapRun.todo /\ swapRun.todo \subseteq DOMAIN users

(* A user that is nobody's: somebody was told, or a swap has it in hand,   *)
(* or the job that made it runs next, finds it and tells.                  *)
WasTold == \E t \in told : t.code \in {"LOGIN_EMAIL_OLD_USER_NOT_REMOVED", "LOGIN_EMAIL_IN_USE"}
InHand(u) == \/ swapRun.step \in Building /\ u = swapRun.new
             \/ swapRun.step = "delete" /\ u \in swapRun.todo
FoundNext(u, j) == /\ hw # 0 /\ users[u].email = j.email /\ mail # j.email /\ j.ok /\ ~swapped
                   /\ swapLeft.inOrder /\ \A i \in swapJobs : i.n <= j.n
                   /\ swapRun.step = "idle" \/ (swapRun.step = "look" /\ swapRun.job = j)
NobodysFit == \A u \in (DOMAIN users) \ gone : u # hw => WasTold \/ InHand(u) \/ \E j \in swapJobs : FoundNext(u, j)

SwapInv == SwapShape /\ JobsInTurn /\ UserFits /\ MapFits /\ RunFits /\ NobodysFit

LEMMA UsersAre ==
  ASSUME SwapShape
  PROVE  /\ Cardinality(DOMAIN users) \in Nat /\ DOMAIN users = 1 .. Cardinality(DOMAIN users)
         /\ users \in [1 .. Cardinality(DOMAIN users) -> KisiUser] /\ 0 \notin DOMAIN users
<1>1. PICK n \in Nat : users \in [1 .. n -> KisiUser]
  BY DEF SwapShape
<1>2. DOMAIN users = 1 .. n
  BY <1>1
<1>3. Cardinality(1 .. n) = n
  BY <1>1, FS_Interval
<1>4. Cardinality(DOMAIN users) = n
  BY <1>2, <1>3
<1>5. 0 \notin 1 .. n
  OBVIOUS
<1> QED BY <1>1, <1>2, <1>4, <1>5

(* One user changed: all else about the users is as it was.                *)
LEMMA OneUser ==
  ASSUME SwapShape, NEW u \in DOMAIN users, NEW v \in KisiUser, users' = [users EXCEPT ![u] = v]
  PROVE  /\ DOMAIN users' = DOMAIN users /\ (\E n \in Nat : users' \in [1 .. n -> KisiUser])
         /\ users'[u] = v /\ \A w \in DOMAIN users : w # u => users'[w] = users[w]
<1>1. /\ Cardinality(DOMAIN users) \in Nat /\ DOMAIN users = 1 .. Cardinality(DOMAIN users)
      /\ users \in [1 .. Cardinality(DOMAIN users) -> KisiUser]
  BY UsersAre
<1>2. users' \in [1 .. Cardinality(DOMAIN users) -> KisiUser]
  BY <1>1
<1> QED BY <1>1, <1>2

Kept(l, k) == /\ k \in SwapScenario /\ k.changes = l.changes /\ k.else = l.else /\ k.between = l.between
              /\ k.inOrder = l.inOrder /\ k.kinds = l.kinds

LEMMA HappensKeeps ==
  ASSUME swapLeft \in SwapScenario, NEW f, Happens(f)
  PROVE  Kept(swapLeft, swapLeft') /\ f \in swapLeft.else /\ (swapLeft.between => swapRun = NoSwap)
<1>1. swapLeft.times - 1 \in Nat
  BY DEF Happens, SwapScenario
<1>2. swapLeft' \in SwapScenario
  BY <1>1 DEF Happens, SwapScenario
<1> QED BY <1>2 DEF Happens, SwapScenario, Kept

LEMMA SwapFaultKeeps ==
  ASSUME swapLeft \in SwapScenario, NEW f, SwapFault(f)
  PROVE  Kept(swapLeft, swapLeft') /\ f \in swapLeft.kinds
<1>1. swapLeft.faults - 1 \in Nat
  BY DEF SwapFault, SwapScenario
<1>2. swapLeft' \in SwapScenario
  BY <1>1 DEF SwapFault, SwapScenario
<1> QED BY <1>2 DEF SwapFault, SwapScenario, Kept

LEMMA SwapBegins ==
  ASSUME SwapsApart, SwapInit
  PROVE  SwapInv
<1> USE LoginEmailSwapAssumption
<1>1. /\ swapLeft \in SwapScenarios /\ login = FirstEmail /\ mail = FirstEmail /\ hw \in {0, 1}
      /\ gone = {} /\ swapped = FALSE /\ suspended = FALSE
      /\ swapJobs = {} /\ swapRun = NoSwap /\ mapping = NoMap
  BY DEF SwapInit
<1>2. PICK own \in SUBSET SwapDoors :
        /\ row = [d \in SwapDoors |-> IF hw = 1 /\ d \in own THEN [st |-> "active", of |-> 1] ELSE [st |-> "none", of |-> 0]]
        /\ users = [i \in 1 .. hw |-> [email |-> FirstEmail, on |-> TRUE, roles |-> own, ours |-> TRUE]]
  BY DEF SwapInit
<1>3. DOMAIN users = 1 .. hw /\ users \in [1 .. hw -> KisiUser]
  BY <1>2 DEF KisiUser
<1>4. 1 .. 0 = {} /\ 1 .. 1 = {1}
  OBVIOUS
<1>5. hw \in {0} \cup DOMAIN users /\ DOMAIN users = IF hw = 1 THEN {1} ELSE {}
  BY <1>1, <1>3, <1>4
<1>6. row \in [SwapDoors -> [st : {"none", "active", "failed"}, of : {0} \cup DOMAIN users]]
  BY <1>1, <1>2, <1>5
<1>7. SwapShape
  BY <1>1, <1>3, <1>5, <1>6 DEF SwapShape, SwapsApart, NoSwap, NoSwapJob, SwapJob, NoMap
<1>8. JobsInTurn
  BY <1>1 DEF JobsInTurn
<1>9. UserFits
  <2>1. \A d \in SwapDoors : row[d].st # "failed" /\ (row[d].st = "active" => hw = 1 /\ row[d].of = 1 /\ d \in own)
    BY <1>2
  <2>2. hw = 1 => users[hw] = [email |-> FirstEmail, on |-> TRUE, roles |-> own, ours |-> TRUE]
    BY <1>2, <1>4
  <2> QED BY <1>1, <2>1, <2>2 DEF UserFits
<1>10. MapFits
  BY <1>1 DEF MapFits
<1>11. RunFits
  BY <1>1 DEF RunFits, NoSwap, Building
<1>12. NobodysFit
  BY <1>1, <1>5 DEF NobodysFit
<1> QED BY <1>7, <1>8, <1>9, <1>10, <1>11, <1>12 DEF SwapInv

LEMMA ChangesKeeps ==
  ASSUME SwapInv, NEW e \in Emails, NEW ok \in BOOLEAN, Changes(e, ok)
  PROVE  SwapInv'
<1>t. SwapShape /\ JobsInTurn /\ UserFits /\ MapFits /\ RunFits /\ NobodysFit
  BY DEF SwapInv
<1> DEFINE x == [email |-> e, ok |-> ok, n |-> swapLeft.changes]
<1>1. /\ swapLeft.changes \in Nat /\ swapLeft.changes > 0 /\ swapLeft.changes - 1 \in Nat
      /\ swapLeft \in SwapScenario
  BY <1>t DEF SwapShape, SwapScenario, Changes
<1>2. /\ swapLeft' = [swapLeft EXCEPT !.changes = swapLeft.changes - 1]
      /\ swapJobs' = swapJobs \cup {x} /\ login' = e
  BY DEF Changes
<1>3. UNCHANGED <<mail, hw, row, swapped, users, gone, suspended, mapping, swapRun, told, swapSeen>>
  BY DEF Changes, records, atKisi
<1>4. /\ swapLeft' \in SwapScenario /\ swapLeft'.changes = swapLeft.changes - 1 /\ swapLeft'.else = swapLeft.else
      /\ swapLeft'.between = swapLeft.between /\ swapLeft'.inOrder = swapLeft.inOrder /\ swapLeft'.kinds = swapLeft.kinds
  BY <1>1, <1>2 DEF SwapScenario
<1>5. x \in SwapJob /\ Steady(swapLeft) /\ Steady(swapLeft')
  BY <1>t, <1>1, <1>4 DEF SwapJob, SwapShape, Steady
<1>6. /\ \A i \in swapJobs : i.n \in Nat /\ i.n > swapLeft.changes
      /\ x.n = swapLeft.changes
  BY <1>t DEF JobsInTurn, SwapShape, SwapJob
<1> HIDE DEF x
<1>7. SwapShape'
  BY <1>t, <1>2, <1>3, <1>4, <1>5 DEF SwapShape
<1>8. JobsInTurn'
  BY <1>t, <1>1, <1>2, <1>4, <1>6 DEF JobsInTurn
<1>9. UserFits' /\ MapFits'
  BY <1>t, <1>3, <1>4, <1>5 DEF UserFits, MapFits
<1>10. \A j \in swapJobs : (\A i \in swapJobs : i.n <= j.n) => \A i \in swapJobs' : i.n <= j.n
  BY <1>1, <1>2, <1>6
<1>11. RunFits'
  BY <1>t, <1>2, <1>3, <1>4, <1>10 DEF RunFits, ToMove
<1>12. NobodysFit'
  BY <1>t, <1>2, <1>3, <1>4, <1>10 DEF NobodysFit, WasTold, InHand, FoundNext
<1> QED BY <1>7, <1>8, <1>9, <1>11, <1>12 DEF SwapInv

LEMMA SuspendsKeeps ==
  ASSUME SwapInv, NEW why \in {"lapse", "payment"}, Suspends(why)
  PROVE  SwapInv'
<1>t. SwapShape /\ JobsInTurn /\ UserFits /\ MapFits /\ RunFits /\ NobodysFit
  BY DEF SwapInv
<1>1. Kept(swapLeft, swapLeft') /\ why \in swapLeft.else /\ (swapLeft.between => swapRun = NoSwap)
  BY <1>t, HappensKeeps DEF Suspends, SwapShape
<1>2. swapRun = NoSwap
  BY <1>t, <1>1 DEF Suspends, SwapShape, Steady
<1>3. hw \in DOMAIN users /\ hw \notin gone /\ users[hw] \in KisiUser
  BY <1>t, UsersAre DEF Suspends, Exists
<1> DEFINE v == [users[hw] EXCEPT !.on = FALSE]
<1>4. users' = [users EXCEPT ![hw] = v]
  BY DEF Suspends
<1>5. /\ v \in KisiUser /\ v.email = users[hw].email /\ ~v.on /\ v.roles = users[hw].roles
  BY <1>3 DEF KisiUser
<1> HIDE DEF v
<1>6. /\ DOMAIN users' = DOMAIN users /\ (\E n \in Nat : users' \in [1 .. n -> KisiUser])
      /\ users'[hw] = v /\ \A w \in DOMAIN users : w # hw => users'[w] = users[w]
  BY <1>t, <1>3, <1>4, <1>5, OneUser
<1>7. /\ suspended' = TRUE /\ row' = Suspended(row)
      /\ UNCHANGED <<login, mail, hw, swapped, gone, mapping, swapJobs, swapRun, told>>
  BY DEF Suspends
<1>8. /\ row' \in [SwapDoors -> [st : {"none", "active", "failed"}, of : {0} \cup DOMAIN users]]
      /\ \A d \in SwapDoors : /\ row'[d].st # "active" /\ row'[d].of = row[d].of
                              /\ row'[d].st = "failed" => row[d].st \in {"active", "failed"}
  BY <1>t, <1>7 DEF SwapShape, Suspended
<1>9. SwapShape'
  BY <1>t, <1>1, <1>6, <1>7, <1>8 DEF SwapShape, Kept, Steady
<1>10. JobsInTurn' /\ MapFits'
  BY <1>t, <1>1, <1>7 DEF JobsInTurn, MapFits, Kept, Steady
<1>11. UserFits'
  BY <1>t, <1>1, <1>3, <1>5, <1>6, <1>7, <1>8 DEF UserFits, Kept
<1>12. RunFits'
  BY <1>2, <1>7 DEF RunFits, NoSwap, Building
<1>13. NobodysFit'
  BY <1>t, <1>1, <1>2, <1>6, <1>7 DEF NobodysFit, WasTold, InHand, FoundNext, Kept
<1> QED BY <1>9, <1>10, <1>11, <1>12, <1>13 DEF SwapInv

LEMMA ResumesKeeps ==
  ASSUME SwapInv, Resumes
  PROVE  SwapInv'
<1>t. SwapShape /\ JobsInTurn /\ UserFits /\ MapFits /\ RunFits /\ NobodysFit
  BY DEF SwapInv
<1>1. swapLeft' = swapLeft /\ swapRun = NoSwap /\ "resume" \in swapLeft.else
  BY DEF Resumes, Fine
<1>3. hw \in DOMAIN users /\ hw \notin gone /\ users[hw] \in KisiUser
  BY <1>t, UsersAre DEF Resumes, Exists
<1> DEFINE v == [users[hw] EXCEPT !.on = TRUE]
<1>4. users' = [users EXCEPT ![hw] = v]
  BY DEF Resumes
<1>5. /\ v \in KisiUser /\ v.email = users[hw].email /\ v.on /\ v.roles = users[hw].roles
  BY <1>3 DEF KisiUser
<1> HIDE DEF v
<1>6. /\ DOMAIN users' = DOMAIN users /\ (\E n \in Nat : users' \in [1 .. n -> KisiUser])
      /\ users'[hw] = v /\ \A w \in DOMAIN users : w # hw => users'[w] = users[w]
  BY <1>t, <1>3, <1>4, <1>5, OneUser
<1>7. /\ suspended' = FALSE
      /\ row' = [d \in SwapDoors |-> IF row[d].st = "failed" THEN [row[d] EXCEPT !.st = "active"] ELSE row[d]]
      /\ UNCHANGED <<login, mail, hw, swapped, gone, mapping, swapJobs, swapRun, told>>
  BY DEF Resumes
<1>8. /\ row' \in [SwapDoors -> [st : {"none", "active", "failed"}, of : {0} \cup DOMAIN users]]
      /\ \A d \in SwapDoors : /\ row'[d].st # "failed" /\ row'[d].of = row[d].of
                              /\ row'[d].st = "active" => row[d].st \in {"active", "failed"}
  BY <1>t, <1>7 DEF SwapShape
<1>9. SwapShape'
  BY <1>t, <1>1, <1>6, <1>7, <1>8 DEF SwapShape, Steady
<1>10. JobsInTurn' /\ MapFits'
  BY <1>t, <1>1, <1>7 DEF JobsInTurn, MapFits, Steady
<1>11. UserFits'
  BY <1>t, <1>1, <1>3, <1>5, <1>6, <1>7, <1>8 DEF UserFits
<1>12. RunFits'
  BY <1>1, <1>7 DEF RunFits, NoSwap, Building
<1>13. NobodysFit'
  BY <1>t, <1>1, <1>6, <1>7 DEF NobodysFit, WasTold, InHand, FoundNext
<1> QED BY <1>9, <1>10, <1>11, <1>12, <1>13 DEF SwapInv

LEMMA MapReadsKeeps ==
  ASSUME SwapInv, NEW d \in SwapDoors, MapReads(d)
  PROVE  SwapInv'
<1>t. SwapShape /\ JobsInTurn /\ UserFits /\ MapFits /\ RunFits /\ NobodysFit
  BY DEF SwapInv
<1>1. Kept(swapLeft, swapLeft') /\ "map" \in swapLeft.else
  BY <1>t, HappensKeeps DEF MapReads, SwapShape
<1>2. /\ hw \in DOMAIN users /\ hw # 0 /\ ~Steady(swapLeft) /\ ~Steady(swapLeft')
  BY <1>t, <1>1, UsersAre DEF MapReads, Exists, Steady, Kept
<1>3. /\ mapping' = [door |-> d, user |-> hw]
      /\ UNCHANGED <<login, suspended, mail, hw, row, swapped, users, gone, swapJobs, swapRun, told>>
  BY DEF MapReads, records, atKisi
<1>4. SwapShape'
  BY <1>t, <1>1, <1>2, <1>3 DEF SwapShape, Kept
<1>5. JobsInTurn' /\ MapFits' /\ UserFits'
  BY <1>t, <1>1, <1>2, <1>3 DEF JobsInTurn, MapFits, UserFits, Kept
<1>6. RunFits'
  BY <1>t, <1>1, <1>3 DEF RunFits, Kept, ToMove
<1>7. NobodysFit'
  BY <1>t, <1>1, <1>3 DEF NobodysFit, WasTold, InHand, FoundNext, Kept
<1> QED BY <1>4, <1>5, <1>6, <1>7 DEF SwapInv

LEMMA MapGivesKeeps ==
  ASSUME SwapInv, MapGives
  PROVE  SwapInv'
<1>t. SwapShape /\ JobsInTurn /\ UserFits /\ MapFits /\ RunFits /\ NobodysFit
  BY DEF SwapInv
<1>1. /\ mapping' = NoMap
      /\ UNCHANGED <<swapLeft, login, suspended, mail, hw, swapped, gone, swapJobs, swapRun, told>>
  BY DEF MapGives, Fine
<1>2. /\ mapping.door \in SwapDoors /\ mapping.user = hw /\ hw # 0 /\ hw \in DOMAIN users /\ hw \notin gone /\ ~Steady(swapLeft)
      /\ swapRun = NoSwap
  BY <1>t DEF MapGives, MapFits, SwapShape, UserFits
<1> DEFINE v == [users[hw] EXCEPT !.roles = users[hw].roles \cup {mapping.door}]
<1>3. /\ users' = [users EXCEPT ![hw] = v]
      /\ row' = [row EXCEPT ![mapping.door] = [st |-> "active", of |-> hw]]
  BY <1>2 DEF MapGives, Exists
<1>4. users[hw] \in KisiUser
  BY <1>t, <1>2, UsersAre
<1>5. v \in KisiUser /\ v.email = users[hw].email /\ v.on = users[hw].on /\ v.roles = users[hw].roles \cup {mapping.door}
  BY <1>2, <1>4 DEF KisiUser
<1> HIDE DEF v
<1>6. /\ DOMAIN users' = DOMAIN users /\ (\E n \in Nat : users' \in [1 .. n -> KisiUser])
      /\ users'[hw] = v /\ \A w \in DOMAIN users : w # hw => users'[w] = users[w]
  BY <1>t, <1>2, <1>3, <1>5, OneUser
<1>8. /\ row' \in [SwapDoors -> [st : {"none", "active", "failed"}, of : {0} \cup DOMAIN users]]
      /\ \A d \in SwapDoors : IF d = mapping.door THEN row'[d].st = "active" /\ row'[d].of = hw ELSE row'[d] = row[d]
  BY <1>t, <1>2, <1>3 DEF SwapShape
<1>9. SwapShape'
  BY <1>t, <1>1, <1>6, <1>8 DEF SwapShape, NoMap
<1>10. JobsInTurn' /\ MapFits'
  BY <1>t, <1>1 DEF JobsInTurn, MapFits
<1>11. UserFits'
  BY <1>t, <1>1, <1>2, <1>5, <1>6, <1>8 DEF UserFits
<1>12. RunFits'
  BY <1>1, <1>2 DEF RunFits, NoSwap, Building
<1>13. NobodysFit'
  BY <1>t, <1>1, <1>2, <1>6 DEF NobodysFit, WasTold, InHand, FoundNext
<1> QED BY <1>9, <1>10, <1>11, <1>12, <1>13 DEF SwapInv

LEMMA StaffTakesKeeps ==
  ASSUME SwapInv, StaffTakes
  PROVE  SwapInv'
<1>t. SwapShape /\ JobsInTurn /\ UserFits /\ MapFits /\ RunFits /\ NobodysFit
  BY DEF SwapInv
<1>1. Kept(swapLeft, swapLeft')
  BY <1>t, HappensKeeps DEF StaffTakes, SwapShape
<1>2. hw \in DOMAIN users /\ users[hw] \in KisiUser
  BY <1>t, UsersAre DEF StaffTakes, Exists
<1> DEFINE v == [users[hw] EXCEPT !.ours = FALSE]
<1>3. /\ users' = [users EXCEPT ![hw] = v]
      /\ UNCHANGED <<login, suspended, mapping, mail, hw, row, swapped, gone, swapJobs, swapRun, told>>
  BY DEF StaffTakes, outside, records
<1>5. v \in KisiUser /\ v.email = users[hw].email /\ v.on = users[hw].on /\ v.roles = users[hw].roles
  BY <1>2 DEF KisiUser
<1> HIDE DEF v
<1>6. /\ DOMAIN users' = DOMAIN users /\ (\E n \in Nat : users' \in [1 .. n -> KisiUser])
      /\ users'[hw] = v /\ \A w \in DOMAIN users : w # hw => users'[w] = users[w]
  BY <1>t, <1>2, <1>3, <1>5, OneUser
<1>8. (Steady(swapLeft') <=> Steady(swapLeft)) /\ swapLeft' \in SwapScenario /\ swapLeft'.changes = swapLeft.changes
      /\ swapLeft'.kinds = swapLeft.kinds /\ swapLeft'.inOrder = swapLeft.inOrder
  BY <1>1 DEF Kept, Steady
<1>9. SwapShape'
  <2>1. row' \in [SwapDoors -> [st : {"none", "active", "failed"}, of : {0} \cup DOMAIN users']]
    BY <1>t, <1>3, <1>6 DEF SwapShape
  <2>2. /\ swapRun' = swapRun /\ mapping' = mapping /\ hw' = hw /\ gone' = gone /\ DOMAIN users' = DOMAIN users
        /\ (\E n \in Nat : users' \in [1 .. n -> KisiUser])
    BY <1>3, <1>6
  <2> QED BY <1>t, <1>3, <1>8, <2>1, <2>2 DEF SwapShape
<1>10. JobsInTurn' /\ MapFits'
  BY <1>t, <1>1, <1>3 DEF JobsInTurn, MapFits, Kept, Steady
<1>11. UserFits'
  BY <1>t, <1>1, <1>3, <1>5, <1>6, <1>2 DEF UserFits, Kept
<1>12. RunFits'
  <2>1. swapRun.new # 0 /\ swapRun.new # hw => swapRun.new \in DOMAIN users /\ users'[swapRun.new] = users[swapRun.new]
    BY <1>t, <1>6 DEF SwapShape
  <2>2. swapRun.step \in Building => users'[swapRun.new] = users[swapRun.new]
    BY <1>t, <2>1 DEF RunFits
  <2> QED BY <1>t, <1>1, <1>3, <1>6, <2>2 DEF RunFits, Kept, ToMove
<1>13. NobodysFit'
  BY <1>t, <1>1, <1>3, <1>6 DEF NobodysFit, WasTold, InHand, FoundNext, Kept
<1> QED BY <1>9, <1>10, <1>11, <1>12, <1>13 DEF SwapInv

LEMMA SwapStartsKeeps ==
  ASSUME SwapInv, NEW j \in swapJobs, SwapStarts(j)
  PROVE  SwapInv'
<1>t. SwapShape /\ JobsInTurn /\ UserFits /\ MapFits /\ RunFits /\ NobodysFit
  BY DEF SwapInv
<1>1. /\ swapRun = NoSwap /\ j \in SwapJob /\ (swapLeft.inOrder => \A i \in swapJobs : i.n <= j.n)
      /\ UNCHANGED <<swapLeft, login, suspended, mapping, users, gone, hw, row, swapped>>
      /\ Steady(swapLeft)
  BY <1>t DEF SwapStarts, SwapShape, Fine, outside, atKisi
<1>2. \/ mail = j.email /\ SwapEnds(j) /\ mail' = mail
      \/ mail # j.email /\ Refused(j) # "none" /\ Tells(j, Refused(j)) /\ mail' = mail
      \/ mail # j.email /\ Refused(j) = "none" /\ hw = 0 /\ SwapEnds(j) /\ mail' = j.email
      \/ /\ mail # j.email /\ Refused(j) = "none" /\ hw # 0
         /\ swapRun' = [NoSwap EXCEPT !.step = "look", !.job = j] /\ UNCHANGED <<mail, swapJobs, told>>
  BY DEF SwapStarts
<1>3. CASE /\ swapJobs' = swapJobs \ {j} /\ swapRun' = NoSwap /\ told \subseteq told'
           /\ mail' \in Emails /\ (hw # 0 => mail' = mail)
           /\ mail = j.email \/ ~j.ok \/ swapped \/ hw = 0
  <2>1. SwapShape'
    BY <1>t, <1>1, <1>3 DEF SwapShape
  <2>2. JobsInTurn' /\ MapFits' /\ UserFits' /\ RunFits'
    BY <1>t, <1>1, <1>3 DEF JobsInTurn, MapFits, UserFits, RunFits, NoSwap, Building
  <2>3. NobodysFit'
    <3> SUFFICES ASSUME NEW u \in (DOMAIN users) \ gone, u # hw, ~WasTold, ~InHand(u)'
                 PROVE  \E k \in swapJobs' : FoundNext(u, k)'
      BY <1>1, <1>3 DEF NobodysFit, WasTold
    <3>1. ~InHand(u)
      BY <1>1 DEF InHand, NoSwap, Building
    <3>2. PICK k \in swapJobs : FoundNext(u, k)
      BY <1>t, <3>1 DEF NobodysFit
    <3>3. hw # 0
      BY <1>t, <3>2, UsersAre DEF SwapShape, FoundNext
    <3>4. k # j
      BY <1>3, <3>2, <3>3 DEF FoundNext
    <3>5. k.n = j.n
      BY <1>t, <1>1, <3>2 DEF FoundNext, SwapShape, SwapJob
    <3> QED BY <1>t, <3>4, <3>5 DEF JobsInTurn
  <2> QED BY <2>1, <2>2, <2>3 DEF SwapInv
<1>4. CASE /\ mail # j.email /\ Refused(j) = "none" /\ hw # 0
           /\ swapRun' = [NoSwap EXCEPT !.step = "look", !.job = j] /\ UNCHANGED <<mail, swapJobs, told>>
  <2>1. j.ok /\ ~swapped
    BY <1>4 DEF Refused
  <2>2. /\ swapRun' = [step |-> "look", job |-> j, new |-> 0, todo |-> {}, move |-> {}, off |-> FALSE]
        /\ swapRun'.step = "look" /\ swapRun'.job = j /\ swapRun'.new = 0
    BY <1>4 DEF NoSwap
  <2>3. SwapShape'
    BY <1>t, <1>1, <1>4, <2>2 DEF SwapShape
  <2>4. JobsInTurn' /\ MapFits' /\ UserFits'
    BY <1>t, <1>1, <1>4 DEF JobsInTurn, MapFits, UserFits
  <2>5. RunFits'
    BY <1>t, <1>1, <1>4, <2>1, <2>2 DEF RunFits, Building
  <2>6. NobodysFit'
    <3> SUFFICES ASSUME NEW u \in (DOMAIN users) \ gone, u # hw, ~WasTold
                 PROVE  \E k \in swapJobs' : FoundNext(u, k)'
      BY <1>1, <1>4 DEF NobodysFit, WasTold
    <3>1. ~InHand(u)
      BY <1>1 DEF InHand, NoSwap, Building
    <3>2. PICK k \in swapJobs : FoundNext(u, k)
      BY <1>t, <3>1 DEF NobodysFit
    <3>3. k.n = j.n
      BY <1>t, <1>1, <3>2 DEF FoundNext, SwapShape, SwapJob
    <3>4. k = j
      BY <1>t, <3>3 DEF JobsInTurn
    <3> QED BY <1>1, <1>4, <2>2, <3>2, <3>4 DEF FoundNext
  <2> QED BY <2>3, <2>4, <2>5, <2>6 DEF SwapInv
<1>5. mail \in Emails /\ j.email \in Emails
  BY <1>t, <1>1 DEF SwapShape, SwapJob
<1>6. Refused(j) # "none" => ~j.ok \/ swapped
  BY DEF Refused
<1> QED BY <1>2, <1>3, <1>4, <1>5, <1>6 DEF SwapEnds, Tells

(* The job ends with a letter that tells of a user that is nobody's, or    *)
(* there is none.                                                          *)
LEMMA LooksUpKeeps ==
  ASSUME SwapInv, LooksUp
  PROVE  SwapInv'
<1> DEFINE j == swapRun.job
<1>t. SwapShape /\ JobsInTurn /\ UserFits /\ MapFits /\ RunFits /\ NobodysFit
  BY DEF SwapInv
<1>1. /\ swapRun.step = "look" /\ j \in swapJobs /\ hw # 0 /\ j.ok /\ ~swapped /\ mail # j.email
      /\ swapRun # NoSwap /\ Steady(swapLeft) /\ swapRun.new = 0
  BY <1>t DEF LooksUp, RunFits, SwapShape, NoSwap, Building
<1>2. UNCHANGED <<swapLeft, login, suspended, mapping, users, gone, hw, row, swapped>>
  BY DEF LooksUp, Fine, outside, atKisi
<1>3. Exists(hw) /\ users[hw].email = mail /\ (users[hw].on <=> ~suspended)
  BY <1>t, <1>1 DEF UserFits, SwapShape, Exists
<1>4. hw \notin Named(j.email)
  BY <1>1, <1>3 DEF Named
<1>5. \/ Named(j.email) # {} /\ Tells(j, "LOGIN_EMAIL_IN_USE") /\ UNCHANGED mail
      \/ Named(j.email) = {} /\ Tells(j, "LOGIN_EMAIL_USER_NOT_OURS") /\ UNCHANGED mail
      \/ /\ Named(j.email) = {} /\ UNCHANGED <<mail, swapJobs, told>>
         /\ swapRun' = [swapRun EXCEPT !.step = "rows", !.off = Exists(hw) /\ ~users[hw].on]
  BY <1>4 DEF LooksUp
<1>6. ASSUME NEW u \in (DOMAIN users) \ gone, u # hw, Named(j.email) = {}
      PROVE  WasTold
  <2>1. ~InHand(u)
    BY <1>1 DEF InHand, Building
  <2>2. SUFFICES ASSUME NEW k \in swapJobs, FoundNext(u, k) PROVE FALSE
    BY <1>t, <1>6, <2>1 DEF NobodysFit
  <2>3. users[u].email = j.email
    BY <1>1, <2>2 DEF FoundNext
  <2> QED BY <1>6, <2>3 DEF Named
<1>7. CASE /\ swapJobs' = swapJobs \ {j} /\ swapRun' = NoSwap /\ told \subseteq told' /\ mail' = mail
           /\ Named(j.email) = {} \/ WasTold'
  <2>1. SwapShape'
    BY <1>t, <1>1, <1>2, <1>7, LoginEmailSwapAssumption DEF SwapShape, NoSwap, NoSwapJob, SwapJob
  <2>2. JobsInTurn' /\ MapFits' /\ UserFits' /\ RunFits'
    BY <1>t, <1>2, <1>7 DEF JobsInTurn, MapFits, UserFits, RunFits, NoSwap, Building
  <2>3. NobodysFit'
    BY <1>2, <1>6, <1>7 DEF NobodysFit, WasTold
  <2> QED BY <2>1, <2>2, <2>3 DEF SwapInv
<1>8. CASE /\ Named(j.email) = {} /\ UNCHANGED <<mail, swapJobs, told>>
           /\ swapRun' = [swapRun EXCEPT !.step = "rows", !.off = Exists(hw) /\ ~users[hw].on]
  <2>a. swapRun' = [step |-> "rows", job |-> j, new |-> 0, todo |-> swapRun.todo, move |-> swapRun.move,
                    off |-> Exists(hw) /\ ~users[hw].on]
    BY <1>t, <1>1, <1>8 DEF SwapShape
  <2>b. (Exists(hw) /\ ~users[hw].on) \in BOOLEAN /\ ((Exists(hw) /\ ~users[hw].on) <=> suspended)
    BY <1>t, <1>3 DEF SwapShape
  <2>c. /\ swapRun'.step = "rows" /\ swapRun'.job = j /\ swapRun'.new = 0 /\ (swapRun'.off <=> suspended)
        /\ swapRun'.todo = swapRun.todo /\ swapRun'.move = swapRun.move /\ swapRun'.off \in BOOLEAN
    BY <2>a, <2>b
  <2>1. SwapShape'
    BY <1>t, <1>1, <1>2, <1>8, <2>a, <2>b DEF SwapShape
  <2>2. JobsInTurn' /\ MapFits' /\ UserFits'
    BY <1>t, <1>2, <1>8 DEF JobsInTurn, MapFits, UserFits
  <2>3. RunFits'
    BY <1>t, <1>1, <1>2, <1>8, <2>c DEF RunFits, Building
  <2>4. NobodysFit'
    BY <1>2, <1>6, <1>8 DEF NobodysFit, WasTold
  <2> QED BY <2>1, <2>2, <2>3, <2>4 DEF SwapInv
<1>9. Tells(j, "LOGIN_EMAIL_IN_USE") => WasTold'
  <2> SUFFICES ASSUME Tells(j, "LOGIN_EMAIL_IN_USE") PROVE WasTold'
    OBVIOUS
  <2> DEFINE t == [email |-> j.email, code |-> "LOGIN_EMAIL_IN_USE"]
  <2>1. t \in told' /\ t.code = "LOGIN_EMAIL_IN_USE"
    BY DEF Tells
  <2> QED BY <2>1 DEF WasTold
<1> QED BY <1>5, <1>7, <1>8, <1>9 DEF Tells

LEMMA ReadsRowsKeeps ==
  ASSUME SwapInv, ReadsRows
  PROVE  SwapInv'
<1>t. SwapShape /\ JobsInTurn /\ UserFits /\ MapFits /\ RunFits /\ NobodysFit
  BY DEF SwapInv
<1>1. /\ swapRun.step = "rows" /\ swapRun # NoSwap /\ swapRun.new = 0
      /\ UNCHANGED <<swapLeft, login, suspended, mapping, mail, users, gone, hw, row, swapped, swapJobs, told>>
  BY <1>t DEF ReadsRows, Fine, outside, records, atKisi, RunFits, NoSwap, Building
<1>2. swapRun' = [step |-> "create", job |-> swapRun.job, new |-> 0, todo |-> ToMove, move |-> ToMove, off |-> swapRun.off]
  BY <1>t, <1>1 DEF ReadsRows, SwapShape
<1>3. /\ swapRun'.step = "create" /\ swapRun'.job = swapRun.job /\ swapRun'.new = 0 /\ swapRun'.todo = ToMove
      /\ swapRun'.move = ToMove /\ swapRun'.off = swapRun.off /\ ToMove \subseteq SwapDoors /\ ToMove' = ToMove
  BY <1>1, <1>2 DEF ToMove
<1>4. SwapShape'
  BY <1>t, <1>1, <1>2, <1>3 DEF SwapShape
<1>5. JobsInTurn' /\ MapFits' /\ UserFits'
  BY <1>t, <1>1 DEF JobsInTurn, MapFits, UserFits
<1>6. RunFits'
  BY <1>t, <1>1, <1>3 DEF RunFits, Building
<1>7. NobodysFit'
  BY <1>t, <1>1, <1>3 DEF NobodysFit, WasTold, InHand, FoundNext, Building
<1> QED BY <1>4, <1>5, <1>6, <1>7 DEF SwapInv

LEMMA CreatesKeeps ==
  ASSUME SwapInv, Creates
  PROVE  SwapInv'
<1> DEFINE n == Cardinality(DOMAIN users)
           new == n + 1
           x == [email |-> swapRun.job.email, on |-> TRUE, roles |-> {}, ours |-> TRUE]
<1>t. SwapShape /\ JobsInTurn /\ UserFits /\ MapFits /\ RunFits /\ NobodysFit
  BY DEF SwapInv
<1>1. /\ swapRun.step = "create" /\ swapRun # NoSwap
      /\ UNCHANGED <<swapLeft, login, suspended, mapping, mail, gone, hw, row, swapped, swapJobs, told>>
  BY DEF Creates, Fine, outside, records, NoSwap
<1>2. /\ n \in Nat /\ DOMAIN users = 1 .. n /\ users \in [1 .. n -> KisiUser] /\ 0 \notin DOMAIN users
  BY <1>t, UsersAre
<1>3. /\ users' = [i \in 1 .. new |-> IF i \in DOMAIN users THEN users[i] ELSE x]
      /\ swapRun' = [swapRun EXCEPT !.step = "assign", !.new = new]
  BY DEF Creates
<1>4. x \in KisiUser /\ x.email = swapRun.job.email /\ x.on /\ x.roles = {}
  BY <1>t DEF KisiUser, SwapShape, SwapJob
<1>5. /\ new \in Nat /\ new # 0 /\ new \notin DOMAIN users /\ 1 .. new = DOMAIN users \cup {new}
  BY <1>2
<1> HIDE DEF x, new, n
<1>6. /\ users' \in [1 .. new -> KisiUser] /\ DOMAIN users' = DOMAIN users \cup {new}
      /\ users'[new] = x /\ \A w \in DOMAIN users : users'[w] = users[w]
  BY <1>2, <1>3, <1>4, <1>5
<1>7. swapRun' = [step |-> "assign", job |-> swapRun.job, new |-> new, todo |-> swapRun.todo, move |-> swapRun.move, off |-> swapRun.off]
  BY <1>t, <1>3 DEF SwapShape
<1>8. /\ swapRun'.step = "assign" /\ swapRun'.job = swapRun.job /\ swapRun'.new = new /\ swapRun'.todo = swapRun.todo
      /\ swapRun'.move = swapRun.move /\ swapRun'.off = swapRun.off
  BY <1>7
<1>9. SwapShape'
  <2>1. row' \in [SwapDoors -> [st : {"none", "active", "failed"}, of : {0} \cup DOMAIN users']]
    BY <1>t, <1>1, <1>6 DEF SwapShape
  <2>2. swapRun' \in [step : {"idle", "look", "rows", "create", "assign", "commit", "delete"}, job : SwapJob,
                  new : {0} \cup DOMAIN users', todo : SUBSET (SwapDoors \cup DOMAIN users'), move : SUBSET SwapDoors, off : BOOLEAN]
    BY <1>t, <1>6, <1>7 DEF SwapShape
  <2>3. mapping' \in [door : SwapDoors \cup {"none"}, user : {0} \cup DOMAIN users'] /\ hw' \in {0} \cup DOMAIN users' /\ gone' \subseteq DOMAIN users'
    BY <1>t, <1>1, <1>6 DEF SwapShape
  <2> QED BY <1>t, <1>1, <1>5, <1>6, <2>1, <2>2, <2>3 DEF SwapShape
<1>10. hw # 0 => hw \in DOMAIN users /\ users'[hw] = users[hw]
  BY <1>t, <1>6 DEF SwapShape
<1>11. JobsInTurn' /\ MapFits' /\ UserFits'
  BY <1>t, <1>1, <1>10 DEF JobsInTurn, MapFits, UserFits
<1>12. new # hw /\ new \notin gone
  BY <1>t, <1>5 DEF SwapShape
<1>13. RunFits'
  BY <1>t, <1>1, <1>4, <1>5, <1>6, <1>8, <1>12 DEF RunFits, Building, ToMove
<1>14. NobodysFit'
  BY <1>t, <1>1, <1>6, <1>8 DEF NobodysFit, WasTold, InHand, FoundNext, Building
<1> QED BY <1>9, <1>11, <1>13, <1>14 DEF SwapInv

(* A step that only changes the new user.                                  *)
LEMMA BuildsOne ==
  ASSUME SwapInv, swapRun.step \in Building, NEW v \in KisiUser, v.email = users[swapRun.new].email,
         users' = [users EXCEPT ![swapRun.new] = v],
         NEW step \in Building, NEW todo \in SUBSET swapRun.todo, swapRun' = [swapRun EXCEPT !.step = step, !.todo = todo],
         swapRun.move \subseteq v.roles \cup todo,
         step = "assign" => v.on,
         step = "commit" => todo = {} /\ (v.on <=> ~swapRun.off),
         UNCHANGED <<swapLeft, login, suspended, mapping, mail, gone, hw, row, swapped, swapJobs, told>>
  PROVE  SwapInv'
<1> DEFINE u == swapRun.new
<1>t. SwapShape /\ JobsInTurn /\ UserFits /\ MapFits /\ RunFits /\ NobodysFit
  BY DEF SwapInv
<1>1. u # 0 /\ u \in DOMAIN users /\ u \notin gone /\ u # hw
  BY <1>t DEF SwapShape, RunFits
<1>2. /\ DOMAIN users' = DOMAIN users /\ (\E n \in Nat : users' \in [1 .. n -> KisiUser])
      /\ users'[u] = v /\ \A w \in DOMAIN users : w # u => users'[w] = users[w]
  BY <1>t, <1>1, OneUser
<1>3. swapRun' = [step |-> step, job |-> swapRun.job, new |-> u, todo |-> todo, move |-> swapRun.move, off |-> swapRun.off]
  BY <1>t DEF SwapShape
<1>4. /\ swapRun'.step = step /\ swapRun'.job = swapRun.job /\ swapRun'.new = u /\ swapRun'.todo = todo
      /\ swapRun'.move = swapRun.move /\ swapRun'.off = swapRun.off /\ swapRun # NoSwap
  BY <1>3 DEF Building, NoSwap
<1>5. SwapShape'
  <2>1. row' \in [SwapDoors -> [st : {"none", "active", "failed"}, of : {0} \cup DOMAIN users']]
    BY <1>t, <1>2 DEF SwapShape
  <2>2. swapRun' \in [step : {"idle", "look", "rows", "create", "assign", "commit", "delete"}, job : SwapJob,
                  new : {0} \cup DOMAIN users', todo : SUBSET (SwapDoors \cup DOMAIN users'), move : SUBSET SwapDoors, off : BOOLEAN]
    BY <1>t, <1>2, <1>3 DEF SwapShape, Building
  <2>3. mapping' \in [door : SwapDoors \cup {"none"}, user : {0} \cup DOMAIN users'] /\ hw' \in {0} \cup DOMAIN users' /\ gone' \subseteq DOMAIN users'
    BY <1>t, <1>2 DEF SwapShape
  <2> QED BY <1>t, <1>2, <1>4, <2>1, <2>2, <2>3 DEF SwapShape
<1>6. hw # 0 => hw \in DOMAIN users /\ users'[hw] = users[hw]
  BY <1>t, <1>1, <1>2 DEF SwapShape
<1>7. JobsInTurn' /\ MapFits' /\ UserFits'
  BY <1>t, <1>6 DEF JobsInTurn, MapFits, UserFits
<1>8. RunFits'
  BY <1>t, <1>1, <1>2, <1>4 DEF RunFits, Building, ToMove
<1>9. NobodysFit'
  BY <1>t, <1>2, <1>4 DEF NobodysFit, WasTold, InHand, FoundNext, Building
<1> QED BY <1>5, <1>7, <1>8, <1>9 DEF SwapInv

LEMMA AssignsKeeps ==
  ASSUME SwapInv, NEW d \in SwapDoors, Assigns(d)
  PROVE  SwapInv'
<1>t. SwapShape /\ RunFits
  BY DEF SwapInv
<1> DEFINE u == swapRun.new
           v == [users[u] EXCEPT !.roles = users[u].roles \cup {d}]
           todo == swapRun.todo \ {d}
<1>1. swapRun.step \in Building /\ swapRun.step = "assign" /\ u \in DOMAIN users
  BY <1>t DEF Assigns, Building, RunFits, SwapShape
<1>2. users[u] \in KisiUser
  BY <1>t, <1>1, UsersAre
<1>3. v \in KisiUser /\ v.email = users[u].email /\ v.on = users[u].on /\ v.roles = users[u].roles \cup {d}
  BY <1>2 DEF KisiUser
<1>4. /\ users' = [users EXCEPT ![u] = v] /\ swapRun' = [swapRun EXCEPT !.step = "assign", !.todo = todo]
      /\ UNCHANGED <<swapLeft, login, suspended, mapping, mail, gone, hw, row, swapped, swapJobs, told>>
  BY <1>t, <1>1 DEF Assigns, Fine, outside, records, SwapShape
<1>5. v.on /\ swapRun.move \subseteq v.roles \cup todo
  BY <1>t, <1>1, <1>3 DEF RunFits
<1>6. "assign" \in Building /\ todo \in SUBSET swapRun.todo
  BY DEF Building
<1> HIDE DEF v, todo
<1> QED BY <1>1, <1>3, <1>4, <1>5, <1>6, BuildsOne

LEMMA SwitchesOffKeeps ==
  ASSUME SwapInv, SwitchesOff
  PROVE  SwapInv'
<1>t. SwapShape /\ RunFits
  BY DEF SwapInv
<1> DEFINE u == swapRun.new
           v == IF swapRun.off THEN [users[u] EXCEPT !.on = FALSE] ELSE users[u]
<1>1. swapRun.step \in Building /\ swapRun.step = "assign" /\ u \in DOMAIN users /\ swapRun.todo = {}
  BY <1>t DEF SwitchesOff, Building, RunFits, SwapShape
<1>2. users[u] \in KisiUser /\ users \in [1 .. Cardinality(DOMAIN users) -> KisiUser]
  BY <1>t, <1>1, UsersAre
<1>3. v \in KisiUser /\ v.email = users[u].email /\ v.roles = users[u].roles
  BY <1>2 DEF KisiUser
<1>4. v.on <=> ~swapRun.off
  BY <1>t, <1>1, <1>2 DEF KisiUser, RunFits
<1>5. users' = [users EXCEPT ![u] = v]
  BY <1>2 DEF SwitchesOff, StaysOff
<1>6. /\ swapRun' = [swapRun EXCEPT !.step = "commit", !.todo = {}]
      /\ UNCHANGED <<swapLeft, login, suspended, mapping, mail, gone, hw, row, swapped, swapJobs, told>>
  BY <1>t, <1>1 DEF SwitchesOff, Fine, outside, records, SwapShape
<1>7. swapRun.move \subseteq v.roles \cup {} /\ "commit" \in Building /\ {} \in SUBSET swapRun.todo
  BY <1>t, <1>1, <1>3 DEF RunFits, Building
<1> HIDE DEF v
<1> QED BY <1>1, <1>3, <1>4, <1>5, <1>6, <1>7, BuildsOne

LEMMA SwapCommitsKeeps ==
  ASSUME SwapInv, SwapCommits
  PROVE  SwapInv'
<1> DEFINE u == swapRun.new
           j == swapRun.job
<1>t. SwapShape /\ JobsInTurn /\ UserFits /\ MapFits /\ RunFits /\ NobodysFit
  BY DEF SwapInv
<1>1. /\ swapRun.step = "commit" /\ swapRun # NoSwap /\ Steady(swapLeft)
      /\ UNCHANGED <<swapLeft, login, suspended, mapping, users, gone, swapJobs, told>>
  BY <1>t DEF SwapCommits, Fine, outside, atKisi, SwapShape, NoSwap
<1>2. /\ row' = Moved(row) /\ mail' = j.email /\ hw' = u /\ swapped' = TRUE
      /\ swapRun' = [swapRun EXCEPT !.step = "delete", !.todo = {hw}]
  BY DEF SwapCommits
<1>3. /\ j \in swapJobs /\ j \in SwapJob /\ hw # 0 /\ hw \in DOMAIN users
      /\ u # 0 /\ u \in DOMAIN users /\ u \notin gone /\ u # hw
      /\ users[u].email = j.email /\ (users[u].on <=> ~suspended) /\ swapRun.move \subseteq users[u].roles
      /\ swapRun.move = ToMove
  BY <1>t, <1>1 DEF RunFits, SwapShape, Building
<1>4. swapRun' = [step |-> "delete", job |-> j, new |-> u, todo |-> {hw}, move |-> swapRun.move, off |-> swapRun.off]
  BY <1>t, <1>2 DEF SwapShape
<1>5. /\ swapRun'.step = "delete" /\ swapRun'.job = j /\ swapRun'.new = u /\ swapRun'.todo = {hw}
  BY <1>4
<1>6. /\ row' \in [SwapDoors -> [st : {"none", "active", "failed"}, of : {0} \cup DOMAIN users]]
      /\ \A d \in SwapDoors : row'[d].st = row[d].st /\ (d \in ToMove => row'[d].of = u)
  BY <1>t, <1>2, <1>3 DEF SwapShape, Moved
<1>7. SwapShape'
  BY <1>t, <1>1, <1>2, <1>3, <1>4, <1>6 DEF SwapShape, SwapJob
<1>8. JobsInTurn' /\ MapFits'
  BY <1>t, <1>1 DEF JobsInTurn, MapFits
<1>9. UserFits'
  <2>1. ASSUME NEW d \in SwapDoors, row'[d].st = "active" \/ (row'[d].st = "failed" /\ "resume" \in swapLeft'.else)
        PROVE  hw' # 0 /\ row'[d].of = hw' /\ d \in users'[hw'].roles
    <3>1. row[d].st = "active"
      BY <1>t, <1>1, <1>6, <2>1 DEF UserFits, Steady
    <3> QED BY <1>1, <1>2, <1>3, <1>6, <3>1 DEF ToMove
  <2>2. suspended' \/ (\E d \in SwapDoors : row'[d].st = "failed") => swapLeft'.else \cap {"lapse", "payment"} # {}
    BY <1>t, <1>1, <1>6 DEF UserFits
  <2> QED BY <1>1, <1>2, <1>3, <2>1, <2>2 DEF UserFits
<1>10. RunFits'
  BY <1>t, <1>1, <1>2, <1>3, <1>5 DEF RunFits, Building
<1>11. NobodysFit'
  <2> SUFFICES ASSUME NEW w \in (DOMAIN users) \ gone, w # u, w # hw PROVE WasTold
    BY <1>1, <1>2, <1>5 DEF NobodysFit, InHand, WasTold
  <2>1. ~InHand(w) /\ \A k \in swapJobs : ~FoundNext(w, k)
    BY <1>1 DEF InHand, FoundNext
  <2> QED BY <1>t, <2>1 DEF NobodysFit
<1> QED BY <1>7, <1>8, <1>9, <1>10, <1>11 DEF SwapInv

LEMMA DeletesOldKeeps ==
  ASSUME SwapInv, DeletesOld
  PROVE  SwapInv'
<1>t. SwapShape /\ JobsInTurn /\ UserFits /\ MapFits /\ RunFits /\ NobodysFit
  BY DEF SwapInv
<1>1. /\ swapRun.step = "delete" /\ swapRun # NoSwap
      /\ gone' = gone \cup swapRun.todo /\ swapJobs' = swapJobs \ {swapRun.job} /\ swapRun' = NoSwap
      /\ UNCHANGED <<swapLeft, login, suspended, mapping, mail, hw, row, swapped, users, told>>
  BY DEF DeletesOld, SwapEnds, Fine, outside, records, NoSwap
<1>2. hw \notin swapRun.todo /\ swapRun.todo \subseteq DOMAIN users
  BY <1>t, <1>1 DEF RunFits
<1>3. SwapShape'
  BY <1>t, <1>1, <1>2, LoginEmailSwapAssumption DEF SwapShape, NoSwap, NoSwapJob, SwapJob
<1>4. JobsInTurn' /\ MapFits' /\ UserFits' /\ RunFits'
  BY <1>t, <1>1, <1>2 DEF JobsInTurn, MapFits, UserFits, RunFits, NoSwap, Building
<1>5. NobodysFit'
  <2> SUFFICES ASSUME NEW w \in (DOMAIN users) \ gone, w # hw, w \notin swapRun.todo PROVE WasTold
    BY <1>1 DEF NobodysFit, WasTold
  <2>1. ~InHand(w) /\ \A k \in swapJobs : ~FoundNext(w, k)
    BY <1>1 DEF InHand, FoundNext, Building
  <2> QED BY <1>t, <2>1 DEF NobodysFit
<1> QED BY <1>3, <1>4, <1>5 DEF SwapInv

LEMMA KeepsOldKeeps ==
  ASSUME SwapInv, NEW fault \in BOOLEAN, KeepsOld(fault)
  PROVE  SwapInv'
<1> DEFINE t == [email |-> swapRun.job.email, code |-> "LOGIN_EMAIL_OLD_USER_NOT_REMOVED"]
<1>t. SwapShape /\ JobsInTurn /\ UserFits /\ MapFits /\ RunFits /\ NobodysFit
  BY DEF SwapInv
<1>1. /\ swapRun.step = "delete" /\ swapRun # NoSwap
      /\ swapJobs' = swapJobs \ {swapRun.job} /\ swapRun' = NoSwap /\ told' = told \cup {t}
      /\ UNCHANGED <<login, suspended, mapping, mail, hw, row, swapped, users, gone>>
  BY DEF KeepsOld, Tells, outside, records, atKisi, NoSwap
<1>2. Kept(swapLeft, swapLeft')
  <2>1. CASE fault
    BY <1>t, <2>1, SwapFaultKeeps DEF KeepsOld, SwapShape
  <2>2. CASE ~fault
    BY <1>t, <2>2 DEF KeepsOld, SwapShape, Fine, Kept
  <2> QED BY <2>1, <2>2
<1>3. (Steady(swapLeft') <=> Steady(swapLeft)) /\ Steady(swapLeft)
  BY <1>t, <1>1, <1>2 DEF Kept, Steady, SwapShape
<1>4. SwapShape'
  BY <1>t, <1>1, <1>2, <1>3, LoginEmailSwapAssumption DEF SwapShape, NoSwap, NoSwapJob, SwapJob, Kept
<1>5. JobsInTurn' /\ MapFits' /\ UserFits' /\ RunFits'
  BY <1>t, <1>1, <1>2, <1>3 DEF JobsInTurn, MapFits, UserFits, RunFits, NoSwap, Building, Kept
<1>6. NobodysFit'
  <2>1. t \in told' /\ t.code = "LOGIN_EMAIL_OLD_USER_NOT_REMOVED"
    BY <1>1
  <2> QED BY <2>1 DEF NobodysFit, WasTold
<1> QED BY <1>4, <1>5, <1>6 DEF SwapInv

(* A swap that is dropped before the commit, the new user taken back or    *)
(* left: where it is left, the job is the one that runs next.              *)
LEMMA DropsKeeps ==
  ASSUME SwapInv, Kept(swapLeft, swapLeft'), swapRun.step \notin {"idle", "delete"}, swapRun' = NoSwap,
         gone' = gone \/ (gone' = gone \cup {swapRun.new} /\ swapRun.step \in Building),
         swapLeft.inOrder \/ (swapRun.step \in Building => swapRun.new \in gone'),
         UNCHANGED <<login, suspended, mapping, mail, hw, row, swapped, users, swapJobs, told>>
  PROVE  SwapInv'
<1> DEFINE j == swapRun.job
<1>t. SwapShape /\ JobsInTurn /\ UserFits /\ MapFits /\ RunFits /\ NobodysFit
  BY DEF SwapInv
<1>1. swapRun # NoSwap /\ Steady(swapLeft) /\ (Steady(swapLeft') <=> Steady(swapLeft))
  BY <1>t DEF SwapShape, NoSwap, Kept, Steady
<1>2. swapRun.step \in Building => swapRun.new \in DOMAIN users /\ swapRun.new # hw
  BY <1>t DEF RunFits, SwapShape, Building
<1>3. gone' \subseteq DOMAIN users /\ (hw \in gone' => hw \in gone) /\ gone \subseteq gone'
  BY <1>t, <1>2 DEF SwapShape
<1>4. SwapShape'
  BY <1>t, <1>1, <1>3, LoginEmailSwapAssumption DEF SwapShape, NoSwap, NoSwapJob, SwapJob, Kept
<1>5. JobsInTurn' /\ MapFits' /\ UserFits' /\ RunFits'
  BY <1>t, <1>1, <1>3 DEF JobsInTurn, MapFits, UserFits, RunFits, NoSwap, Building, Kept
<1>6. NobodysFit'
  <2> SUFFICES ASSUME NEW w \in (DOMAIN users) \ gone, w \notin gone', w # hw, ~WasTold
               PROVE  \E k \in swapJobs : FoundNext(w, k)'
    BY <1>3 DEF NobodysFit, WasTold
  <2>1. swapRun'.step = "idle"
    BY DEF NoSwap
  <2>2. CASE InHand(w)
    <3>1. swapRun.step \in Building /\ w = swapRun.new /\ swapLeft.inOrder
      BY <2>2 DEF InHand
    <3>2. /\ j \in swapJobs /\ hw # 0 /\ users[w].email = j.email /\ mail # j.email /\ j.ok /\ ~swapped
          /\ \A i \in swapJobs : i.n <= j.n
      BY <1>t, <3>1 DEF RunFits, Building
    <3> QED BY <2>1, <3>1, <3>2 DEF FoundNext, Kept
  <2>3. CASE ~InHand(w)
    <3>1. PICK k \in swapJobs : FoundNext(w, k)
      BY <1>t, <2>3 DEF NobodysFit
    <3> QED BY <2>1, <3>1 DEF FoundNext, Kept
  <2> QED BY <2>2, <2>3
<1> QED BY <1>4, <1>5, <1>6 DEF SwapInv

LEMMA SwapFailsKeeps ==
  ASSUME SwapInv, NEW f \in {"create", "assign", "commit"}, NEW undo \in BOOLEAN, SwapFails(f, undo)
  PROVE  SwapInv'
<1>t. SwapShape
  BY DEF SwapInv
<1>1. /\ swapRun.step = f /\ swapRun' = NoSwap
      /\ UNCHANGED <<login, suspended, mapping, mail, hw, row, swapped, users, swapJobs, told>>
      /\ gone' = IF undo /\ f # "create" THEN gone \cup {swapRun.new} ELSE gone
  BY DEF SwapFails, outside, records
<1>2. Kept(swapLeft, swapLeft') /\ (undo \/ swapLeft.inOrder)
  <2>1. CASE undo
    BY <1>t, <2>1, SwapFaultKeeps DEF SwapFails, SwapShape
  <2>2. CASE ~undo
    <3>1. /\ swapLeft \in SwapScenario /\ swapLeft.faults \in Nat /\ swapLeft.faults > 1 /\ "undo" \in swapLeft.kinds
          /\ swapLeft' = [swapLeft EXCEPT !.faults = swapLeft.faults - 2]
      BY <1>t, <2>2 DEF SwapFails, SwapShape, SwapScenario
    <3>2. swapLeft.faults - 2 \in Nat
      BY <3>1
    <3>3. swapLeft' \in SwapScenario
      BY <3>1, <3>2 DEF SwapScenario
    <3>4. Kept(swapLeft, swapLeft')
      BY <3>1, <3>3 DEF SwapScenario, Kept
    <3> QED BY <1>t, <3>1, <3>4 DEF SwapShape
  <2> QED BY <2>1, <2>2
<1>3. f \in Building <=> f # "create"
  BY DEF Building
<1>4. gone' = gone \/ (gone' = gone \cup {swapRun.new} /\ swapRun.step \in Building)
  BY <1>1, <1>3
<1>5. swapLeft.inOrder \/ (swapRun.step \in Building => swapRun.new \in gone')
  BY <1>1, <1>2, <1>3
<1>6. swapRun.step \notin {"idle", "delete"}
  BY <1>1
<1> QED BY <1>1, <1>2, <1>4, <1>5, <1>6, DropsKeeps

LEMMA SwapCrashKeeps ==
  ASSUME SwapInv, SwapCrash
  PROVE  SwapInv'
<1>t. SwapShape /\ RunFits
  BY DEF SwapInv
<1>1. /\ swapRun # NoSwap /\ swapRun' = NoSwap /\ gone' = gone
      /\ UNCHANGED <<login, suspended, mapping, mail, hw, row, swapped, users, swapJobs, told>>
  BY DEF SwapCrash, outside, records, atKisi
<1>2. Kept(swapLeft, swapLeft') /\ (IF swapRun.step = "delete" THEN "late_crash" ELSE "crash") \in swapLeft.kinds
  BY <1>t, SwapFaultKeeps DEF SwapCrash, SwapShape
<1>3. swapRun.step \notin {"idle", "delete"} /\ swapLeft.inOrder
  BY <1>t, <1>1, <1>2 DEF SwapShape, RunFits
<1> QED BY <1>1, <1>2, <1>3, DropsKeeps

(* What nothing touches, a stutter included.                               *)
LEMMA SwapStutters ==
  ASSUME SwapInv, UNCHANGED swapVars
  PROVE  SwapInv'
<1>t. SwapShape /\ JobsInTurn /\ UserFits /\ MapFits /\ RunFits /\ NobodysFit
  BY DEF SwapInv
<1>0. /\ users' = users /\ row' = row /\ hw' = hw /\ gone' = gone /\ swapRun' = swapRun /\ mapping' = mapping
      /\ swapLeft' = swapLeft /\ swapJobs' = swapJobs
      /\ login' = login /\ mail' = mail /\ swapped' = swapped /\ suspended' = suspended
  BY DEF swapVars
<1>1. SwapShape'
  <2>1. row' \in [SwapDoors -> [st : {"none", "active", "failed"}, of : {0} \cup DOMAIN users']]
    BY <1>t, <1>0 DEF SwapShape
  <2>2. (\E n \in Nat : users' \in [1 .. n -> KisiUser]) /\ DOMAIN users' = DOMAIN users
    BY <1>t, <1>0 DEF SwapShape
  <2> QED BY <1>t, <1>0, <2>1, <2>2 DEF SwapShape
<1>2. JobsInTurn' /\ UserFits' /\ MapFits'
  BY <1>t DEF JobsInTurn, UserFits, MapFits, swapVars
<1>3. RunFits'
  BY <1>t DEF RunFits, ToMove, swapVars
<1>4. NobodysFit'
  BY <1>t DEF NobodysFit, WasTold, InHand, FoundNext, swapVars
<1> QED BY <1>1, <1>2, <1>3, <1>4 DEF SwapInv

LEMMA SwapSteps ==
  ASSUME SwapInv, [SwapNext]_swapVars
  PROVE  SwapInv'
<1>1. CASE SwapStep
  <2>1. ASSUME NEW j \in swapJobs, SwapStarts(j) PROVE SwapInv'
    BY <2>1, SwapStartsKeeps
  <2>2. ASSUME NEW d \in SwapDoors, Assigns(d) PROVE SwapInv'
    BY <2>2, AssignsKeeps
  <2>3. KeepsOld(FALSE) => SwapInv'
    BY KeepsOldKeeps
  <2> QED BY <1>1, <2>1, <2>2, <2>3, LooksUpKeeps, ReadsRowsKeeps, CreatesKeeps, SwitchesOffKeeps, SwapCommitsKeeps, DeletesOldKeeps
          DEF SwapStep
<1>2. ASSUME NEW e \in Emails, NEW ok \in BOOLEAN, Changes(e, ok) PROVE SwapInv'
  BY <1>2, ChangesKeeps
<1>3. ASSUME NEW why \in {"lapse", "payment"}, Suspends(why) PROVE SwapInv'
  BY <1>3, SuspendsKeeps
<1>4. ASSUME NEW d \in SwapDoors, MapReads(d) PROVE SwapInv'
  BY <1>4, MapReadsKeeps
<1>5. ASSUME NEW f \in {"create", "assign", "commit"}, NEW undo \in BOOLEAN, SwapFails(f, undo) PROVE SwapInv'
  BY <1>5, SwapFailsKeeps
<1>6. KeepsOld(TRUE) => SwapInv'
  BY KeepsOldKeeps
<1> QED BY <1>1, <1>2, <1>3, <1>4, <1>5, <1>6, ResumesKeeps, MapGivesKeeps, StaffTakesKeeps, SwapCrashKeeps, SwapStutters DEF SwapNext

LEMMA SwapInvHolds ==
  ASSUME SwapInv
  PROVE  SwapHolds
<1>t. SwapShape /\ JobsInTurn /\ UserFits /\ MapFits /\ RunFits /\ NobodysFit
  BY DEF SwapInv
<1>1. /\ Cardinality(DOMAIN users) \in Nat /\ DOMAIN users = 1 .. Cardinality(DOMAIN users)
      /\ users \in [1 .. Cardinality(DOMAIN users) -> KisiUser] /\ 0 \notin DOMAIN users
  BY <1>t, UsersAre
<1>2. SwapTypeOK
  <2>1. {0} \cup DOMAIN users = 0 .. Cardinality(DOMAIN users)
    BY <1>1
  <2>2. /\ hw \in 0 .. Cardinality(DOMAIN users) /\ gone \subseteq DOMAIN users
        /\ \A d \in SwapDoors : row[d].st \in {"none", "active", "failed"} /\ row[d].of \in 0 .. Cardinality(DOMAIN users)
    BY <1>t, <2>1 DEF SwapShape
  <2>3. \A u \in DOMAIN users : users[u].email \in Emails /\ users[u].roles \subseteq SwapDoors
    BY <1>1 DEF KisiUser
  <2>4. swapRun.step \in {"assign", "commit", "delete"} <=> swapRun.new # 0
    BY <1>t DEF RunFits, Building
  <2>5. /\ login \in Emails /\ mail \in Emails /\ swapped \in BOOLEAN /\ suspended \in BOOLEAN
        /\ swapRun.step \in {"idle", "look", "rows", "create", "assign", "commit", "delete"}
    BY <1>t DEF SwapShape
  <2> QED BY <2>2, <2>3, <2>4, <2>5 DEF SwapTypeOK
<1>3. hw # 0 => hw \in DOMAIN users /\ hw \notin gone /\ users[hw].email = mail /\ (users[hw].on <=> ~suspended)
  BY <1>t DEF UserFits, SwapShape
<1>4. \A d \in SwapDoors : row[d].st = "active" => hw # 0 /\ row[d].of = hw /\ d \in users[hw].roles
  BY <1>t DEF UserFits
<1>5. NeverLockedOut
  BY <1>3, <1>4 DEF NeverLockedOut, Opens
<1>6. RecordsNameTheUser /\ SuspendedStaysOut
  BY <1>3, <1>4 DEF RecordsNameTheUser, SuspendedStaysOut, Exists
<1>7. StraysAreTold
  <2> SUFFICES ASSUME AtRest, NEW u \in (DOMAIN users) \ gone, u # hw PROVE WasTold
    BY DEF StraysAreTold, Strays, WasTold
  <2>1. ~InHand(u) /\ swapJobs = {}
    BY DEF AtRest, InHand, NoSwap, Building
  <2> QED BY <1>t, <2>1 DEF NobodysFit
<1> QED BY <1>2, <1>5, <1>6, <1>7 DEF SwapHolds

(* A login that changes: at no step is a paying member without a door on   *)
(* record, the records name a user that is there with the roles they say,  *)
(* the login of a suspended member is off, and a user that is left over is *)
(* told of.                                                                *)
THEOREM SwapsAreSafe == ASSUME SwapsApart PROVE SwapSpec => []SwapHolds
<1>1. SwapInit => SwapInv
  BY SwapBegins
<1>2. SwapInv /\ [SwapNext]_swapVars => SwapInv'
  BY SwapSteps
<1>3. SwapInv => SwapHolds
  BY SwapInvHolds
<1> QED BY <1>1, <1>2, <1>3, PTL DEF SwapSpec
=============================================================================
