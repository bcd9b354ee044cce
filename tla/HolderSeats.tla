---------------------------- MODULE HolderSeats ----------------------------
(***************************************************************************)
(* One household on one multi-member plan: the holder who pays, the seats  *)
(* of the others, the Member Hub's endpoints (admin/routes/multi-member.js)*)
(* with every await between a read and the write it decides, the grant,    *)
(* revoke and renewal jobs as far as a seat goes (core/queue-worker.js,    *)
(* adapters/standard-adapter.js), and what the sweep repairs.              *)
(*                                                                         *)
(* The steps inside a job are MemberAccess's; here a grant is cut where an *)
(* endpoint can come between: after resolveAndLock, and after Kisi.        *)
(***************************************************************************)
EXTENDS Integers, FiniteSets, Sequences

CONSTANTS
  Seats,               \* the ids a sub-member may be given (DR-029 suffixes)
  Holder,
  HubRequests,         \* requests the Member Hub can have open at once
  HouseholdScenarios

HubOps == {"add", "submit", "remove", "claim", "release"}
HouseholdFaults == {"create", "enqueue", "job", "webhook"}

(* How many people the plan holds, what is asked and how often, renewals   *)
(* and endings of the order, the faults; patient: one request at a time,   *)
(* and nobody is removed while a job of theirs is under way.               *)
HouseholdScenario ==
  [cap : Nat, ops : SUBSET HubOps, asks : Nat, renewals : Nat, ends : BOOLEAN, faults : Nat, kinds : SUBSET HouseholdFaults,
   patient : BOOLEAN]

ASSUME HolderSeatsAssumption ==
  /\ Holder \notin Seats
  /\ HouseholdScenarios \subseteq HouseholdScenario

VARIABLES
  ordered,     \* the holder's order is live in Wix
  cycles,      \* member_billing of the order: [seated, open] by cycle
  holder,      \* the holder's own access row, source row and Kisi role: [at, row, role]
  seat,        \* a sub-member: [at, row, sub, user, role]
  hubJobs,     \* jobs waiting, as [kind, of]
  hubRun,      \* person |-> the job of theirs that runs, and its step
  hubReq,      \* request |-> where the handler stands
  answered,    \* [removed, left]: what the hub has promised
  hubLeft,     \* the scenario, with what of it may still happen
  hubHappened

hubVars == <<ordered, cycles, holder, seat, hubJobs, hubRun, hubReq, answered, hubLeft, hubHappened>>
-----------------------------------------------------------------------------
Nowhere  == [at |-> "none", row |-> "none", sub |-> FALSE, user |-> FALSE, role |-> FALSE]
NoJobRun == [kind |-> "none", step |-> "idle", carry |-> TRUE]
NoAsk    == [op |-> "none", step |-> "idle", who |-> {}, row |-> "none", user |-> FALSE]
People   == Seats \cup {Holder}

SeatsInit ==
  /\ hubLeft \in HouseholdScenarios
  /\ ordered = TRUE
  /\ cycles = <<[seated |-> TRUE, open |-> TRUE]>>
  /\ holder = [at |-> "active", row |-> "active", role |-> TRUE]
  /\ seat = [s \in Seats |-> Nowhere]
  /\ hubJobs = {}
  /\ hubRun = [p \in People |-> NoJobRun]
  /\ hubReq = [r \in HubRequests |-> NoAsk]
  /\ answered = [removed |-> {}, left |-> FALSE]
  /\ hubHappened = {}

Slip(f) ==
  /\ f \in hubLeft.kinds /\ hubLeft.faults > 0
  /\ hubLeft' = [hubLeft EXCEPT !.faults = @ - 1]
  /\ hubHappened' = hubHappened \cup {f}
Smooth == UNCHANGED <<hubLeft, hubHappened>>

money == <<ordered, cycles>>
doors == <<holder, seat>>

(* A mutant of SubSlots: drafts take no place.                             *)
SubSlotsNoDrafts == Cardinality({s \in Seats : seat[s].sub /\ seat[s].row \in {"active", "pending_hardware"}})

(* countHolderSlots and countSubSlots: people who take a place.            *)
HolderSlots == IF holder.row = "active" THEN 1 ELSE 0
TakesSlot   == {"draft", "active", "pending_hardware"}
SubSlots    == Cardinality({s \in Seats : seat[s].sub /\ seat[s].row \in TakesSlot})

Occupied == HolderSlots + SubSlots

(* _planSeatReleased: the newest cycle says the holder left.               *)
SeatReleased == ~cycles[Len(cycles)].seated

(* holder_seated of the cycles that are still active.                      *)
Flagged(b) == [i \in DOMAIN cycles |-> IF cycles[i].open THEN [cycles[i] EXCEPT !.seated = b] ELSE cycles[i]]

-----------------------------------------------------------------------------
(* The Member Hub.  A request opens, reads, and writes in a later step.    *)

Busy(p) == hubRun[p].kind # "none" \/ \E j \in hubJobs : j.of = p

MayAsk(r, op) ==
  /\ hubReq[r] = NoAsk /\ op \in hubLeft.ops /\ hubLeft.asks > 0
  /\ hubLeft.patient => ~Busy(Holder) /\ \A x \in HubRequests : hubReq[x] = NoAsk
  /\ hubLeft' = [hubLeft EXCEPT !.asks = @ - 1]
  /\ UNCHANGED hubHappened

Ask(r, op, step, who, row, user) ==
  hubReq' = [hubReq EXCEPT ![r] = [op |-> op, step |-> step, who |-> who, row |-> row, user |-> user]]
Step(r, step) == hubReq' = [hubReq EXCEPT ![r].step = step]
Reply(r)      == hubReq' = [hubReq EXCEPT ![r] = NoAsk]

(* POST /api/multi-member/members: counts, and then writes the draft.      *)
AddChecks(r) ==
  /\ MayAsk(r, "add")
  /\ Occupied < hubLeft.cap
  /\ Ask(r, "add", "create", {}, "none", FALSE)
  /\ UNCHANGED <<money, doors, hubJobs, hubRun, answered>>

(* createSubMemberDraft: three inserts, no transaction; a half is an       *)
(* access row without a source row.                                        *)
AddCreates(r, s, half) ==
  /\ hubReq[r].op = "add" /\ hubReq[r].step = "create"
  /\ seat[s] = Nowhere /\ s \notin answered.removed
  /\ (IF half THEN Slip("create") ELSE Smooth)
  /\ seat' = [seat EXCEPT ![s] = [Nowhere EXCEPT !.at = "pending_identity", !.sub = TRUE,
                                                 !.row = IF half THEN "none" ELSE "draft"]]
  /\ Reply(r)
  /\ UNCHANGED <<money, holder, hubJobs, hubRun, answered>>

(* POST /api/multi-member/submit: which drafts there are ...               *)
SubmitReads(r) ==
  /\ MayAsk(r, "submit")
  /\ LET drafts == {s \in Seats : seat[s].sub /\ seat[s].row = "draft"}
     IN  drafts # {} /\ Ask(r, "submit", "flip", drafts, "draft", FALSE)
  /\ UNCHANGED <<money, doors, hubJobs, hubRun, answered>>

(* ... every draft of the household, as it is now, is pending ...          *)
SubmitFlips(r) ==
  /\ hubReq[r].op = "submit" /\ hubReq[r].step = "flip"
  /\ seat' = [s \in Seats |-> IF seat[s].sub /\ seat[s].row = "draft" THEN [seat[s] EXCEPT !.row = "pending_hardware"]
                                                                     ELSE seat[s]]
  /\ Step(r, "queue")
  /\ Smooth
  /\ UNCHANGED <<money, holder, hubJobs, hubRun, answered>>

(* A mutant of SubmitQueues: only the first draft is queued.               *)
SubmitQueuesOne(r, queued) ==
  /\ hubReq[r].op = "submit" /\ hubReq[r].step = "queue"
  /\ queued \subseteq hubReq[r].who /\ Cardinality(queued) = 1
  /\ hubJobs' = hubJobs \cup {[kind |-> "grant", of |-> s] : s \in queued}
  /\ Reply(r)
  /\ Smooth
  /\ UNCHANGED <<money, doors, hubRun, answered>>

(* ... and those that were read get a grant each; the queue may refuse one *)
(* and with it the rest.                                                   *)
SubmitQueues(r, queued) ==
  /\ hubReq[r].op = "submit" /\ hubReq[r].step = "queue"
  /\ queued \subseteq hubReq[r].who
  /\ (IF queued = hubReq[r].who THEN Smooth ELSE Slip("enqueue"))
  /\ hubJobs' = hubJobs \cup {[kind |-> "grant", of |-> s] : s \in queued}
  /\ Reply(r)
  /\ UNCHANGED <<money, doors, hubRun, answered>>

(* DELETE /api/multi-member/members/:subId: what the sub-member is ...     *)
RemoveReads(r, s) ==
  /\ MayAsk(r, "remove")
  /\ seat[s].sub /\ seat[s].at # "deleted"
  /\ hubLeft.patient => ~Busy(s)
  /\ Ask(r, "remove", "act", {s}, seat[s].row, seat[s].user)
  /\ UNCHANGED <<money, doors, hubJobs, hubRun, answered>>

(* hardDeleteSubMember: all rows go; what Kisi has is left as it is.       *)
HardDeleted(s) == [Nowhere EXCEPT !.role = seat[s].role]

(* ... and what is done about it: a draft and a person Kisi never had are  *)
(* deleted outright (their Kisi user, if one came since, stays) ...        *)
RemoveDeletes(r, s) ==
  /\ hubReq[r].op = "remove" /\ hubReq[r].step = "act" /\ hubReq[r].who = {s}
  /\ hubReq[r].row = "draft" \/ ~hubReq[r].user
  /\ seat' = [seat EXCEPT ![s] = HardDeleted(s)]
  /\ answered' = [answered EXCEPT !.removed = @ \cup {s}]
  /\ Reply(r)
  /\ Smooth
  /\ UNCHANGED <<money, holder, hubJobs, hubRun>>

(* ... the others are marked, and a revoke is queued.                      *)
RemoveMarks(r, s) ==
  /\ hubReq[r].op = "remove" /\ hubReq[r].step = "act" /\ hubReq[r].who = {s}
  /\ hubReq[r].row # "draft" /\ hubReq[r].user
  /\ seat' = [seat EXCEPT ![s].at = IF @ = "none" THEN @ ELSE "removing"]
  /\ Step(r, "queue")
  /\ Smooth
  /\ UNCHANGED <<money, holder, hubJobs, hubRun, answered>>

RemoveQueues(r, s) ==
  /\ hubReq[r].op = "remove" /\ hubReq[r].step = "queue" /\ hubReq[r].who = {s}
  /\ \/ Smooth /\ hubJobs' = hubJobs \cup {[kind |-> "revoke", of |-> s]}
               /\ answered' = [answered EXCEPT !.removed = @ \cup {s}]
     \/ Slip("enqueue") /\ UNCHANGED <<hubJobs, answered>>
  /\ Reply(r)
  /\ UNCHANGED <<money, doors, hubRun>>

(* POST /api/multi-member/holder-claim-slot.                               *)
ClaimChecks(r) ==
  /\ MayAsk(r, "claim")
  /\ HolderSlots = 0 /\ SubSlots < hubLeft.cap
  /\ Ask(r, "claim", "flag", {Holder}, "none", FALSE)
  /\ UNCHANGED <<money, doors, hubJobs, hubRun, answered>>

(* POST /api/multi-member/holder-release-slot.                             *)
ReleaseChecks(r) ==
  /\ MayAsk(r, "release")
  /\ holder.row # "none"
  /\ Ask(r, "release", "flag", {Holder}, "none", FALSE)
  /\ UNCHANGED <<money, doors, hubJobs, hubRun, answered>>

(* Both write the flag first, and then queue a job for the door.           *)
FlagsSeat(r) ==
  /\ hubReq[r].op \in {"claim", "release"} /\ hubReq[r].step = "flag"
  /\ cycles' = Flagged(hubReq[r].op = "claim")
  /\ Step(r, "queue")
  /\ Smooth
  /\ UNCHANGED <<ordered, doors, hubJobs, hubRun, answered>>

QueuesSeat(r) ==
  /\ hubReq[r].op \in {"claim", "release"} /\ hubReq[r].step = "queue"
  /\ \/ /\ Smooth
        /\ hubJobs' = hubJobs \cup {[kind |-> IF hubReq[r].op = "claim" THEN "grant" ELSE "revoke", of |-> Holder]}
        /\ answered' = [answered EXCEPT !.left = hubReq[r].op = "release"]
     \/ Slip("enqueue") /\ UNCHANGED <<hubJobs, answered>>
  /\ Reply(r)
  /\ UNCHANGED <<money, doors, hubRun>>

-----------------------------------------------------------------------------
(* The jobs.  The member lock allows one run per person; a job that finds  *)
(* the lock taken waits and may be overtaken.                              *)

Takes(kind, p, step) ==
  /\ [kind |-> kind, of |-> p] \in hubJobs /\ hubRun[p] = NoJobRun
  /\ hubJobs' = hubJobs \ {[kind |-> kind, of |-> p]}
  /\ hubRun' = [hubRun EXCEPT ![p] = [kind |-> kind, step |-> step, carry |-> TRUE]]
Skips(kind, p) ==
  /\ [kind |-> kind, of |-> p] \in hubJobs /\ hubRun[p] = NoJobRun
  /\ hubJobs' = hubJobs \ {[kind |-> kind, of |-> p]}
  /\ UNCHANGED hubRun
At(kind, p, step) == hubRun[p].kind = kind /\ hubRun[p].step = step
Goes(p, step)     == hubRun' = [hubRun EXCEPT ![p].step = step] /\ UNCHANGED hubJobs
Ends(p)           == hubRun' = [hubRun EXCEPT ![p] = NoJobRun] /\ UNCHANGED hubJobs

request == <<hubReq, answered>>

(* rollupAccessStatus: what an access row is, by its source row.           *)
RolledUp(row) == IF row = "active" THEN "active" ELSE "inactive"

(* A grant of a seat: resolveAndLock writes the access row; if that was    *)
(* deleted, it writes a new one, of a person who is nobody's sub-member.   *)
GrantStarts(s) ==
  /\ Takes("grant", s, "open")
  /\ seat' = [seat EXCEPT ![s].at = "in_flight", ![s].user = @ /\ seat[s].at # "deleted"]
  /\ Smooth
  /\ UNCHANGED <<money, holder, request>>

(* Kisi: the user and the role; the user's id is kept if there is a row.   *)
GrantOpens(s) ==
  /\ At("grant", s, "open")
  /\ seat' = [seat EXCEPT ![s].role = TRUE, ![s].user = seat[s].at # "none"]
  /\ Goes(s, "complete")
  /\ Smooth
  /\ UNCHANGED <<money, holder, request>>

(* completeGrant; without an access row (MEMBER_ACCESS_GONE) the job fails *)
(* and is tried again.                                                     *)
GrantCompletes(s) ==
  /\ At("grant", s, "complete")
  /\ hubRun' = [hubRun EXCEPT ![s] = NoJobRun]
  /\ IF seat[s].at = "none"
     THEN hubJobs' = hubJobs \cup {[kind |-> "grant", of |-> s]} /\ UNCHANGED seat
     ELSE seat' = [seat EXCEPT ![s].at = "active", ![s].row = "active"] /\ UNCHANGED hubJobs
  /\ Smooth
  /\ UNCHANGED <<money, holder, request>>

(* The member a revoke is for: _resolveAndLock's condition.                *)
Found(s) == seat[s].at \in {"active", "in_flight", "removing"} \/ (seat[s].at # "deleted" /\ seat[s].row = "active")

(* A revoke of a seat, from the lock to completeRevoke; a job that finds   *)
(* nobody ends quietly, and one that fails rolls the access row up         *)
(* (releaseLock).                                                          *)
RevokesSeat(s) ==
  /\ IF Found(s) THEN Takes("revoke", s, "done") /\ seat' = [seat EXCEPT ![s].at = "in_flight"]
                 ELSE Skips("revoke", s) /\ UNCHANGED seat
  /\ Smooth
  /\ UNCHANGED <<money, holder, request>>
RevokeDone(s) ==
  /\ At("revoke", s, "done")
  /\ Ends(s)
  /\ \/ /\ Smooth
        /\ seat' = IF seat[s].at = "none" THEN seat
                   ELSE [seat EXCEPT ![s] = [@ EXCEPT !.at = "deleted", !.row = "none", !.user = FALSE, !.role = FALSE]]
     \/ /\ Slip("job")
        /\ seat' = [seat EXCEPT ![s].at = IF @ = "none" THEN @ ELSE RolledUp(seat[s].row)]
  /\ UNCHANGED <<money, holder, request>>

(* The holder's grant when they claim a place, or from the sweep: the role *)
(* is given before the flag is read.                                       *)
HolderOpens(kind) ==
  /\ Takes(kind, Holder, IF kind = "renewal" THEN "close" ELSE "complete")
  /\ holder' = [holder EXCEPT !.at = "in_flight", !.role = TRUE]
  /\ Smooth
  /\ UNCHANGED <<money, seat, request>>

(* completeGrant for the holder: the source row, if the seat is theirs,    *)
(* and the rollup.                                                         *)
Granted(seated) ==
  LET row == IF seated THEN "active" ELSE holder.row
  IN  holder' = [holder EXCEPT !.row = row, !.at = RolledUp(row)]
ClaimCompletes ==
  /\ At("grant", Holder, "complete")
  /\ Granted(~SeatReleased)
  /\ Ends(Holder)
  /\ Smooth
  /\ UNCHANGED <<money, seat, request>>

(* A renewal's _writeBillingCycle: the cycles before are completed, ...    *)
RenewalCloses ==
  /\ At("renewal", Holder, "close")
  /\ cycles' = [i \in DOMAIN cycles |-> [cycles[i] EXCEPT !.open = FALSE]]
  /\ Goes(Holder, "carry")
  /\ Smooth
  /\ UNCHANGED <<ordered, doors, request>>
(* ... the newest one's flag is read, ...                                  *)
RenewalCarries ==
  /\ At("renewal", Holder, "carry")
  /\ hubRun' = [hubRun EXCEPT ![Holder].step = "insert", ![Holder].carry = ~SeatReleased]
  /\ Smooth
  /\ UNCHANGED <<money, doors, hubJobs, request>>
(* ... and the new cycle gets it; a holder who left gets no source row.    *)
RenewalInserts ==
  /\ At("renewal", Holder, "insert")
  /\ cycles' = Append(cycles, [seated |-> hubRun[Holder].carry, open |-> TRUE])
  /\ Granted(hubRun[Holder].carry)
  /\ Ends(Holder)
  /\ Smooth
  /\ UNCHANGED <<ordered, seat, request>>

(* _cascadeHolderLapse goes before every revoke, and looks at no event but *)
(* a real plan.cancelled.                                                  *)
Cascades(kind) == kind = "cancel"

(* The seats a cascade finds; the others are only logged.                  *)
Seated(s) == seat[s].sub /\ seat[s].row = "active" /\ seat[s].at = "active" /\ seat[s].user

HolderLeaves(kind, queued) ==
  /\ [kind |-> kind, of |-> Holder] \in hubJobs /\ hubRun[Holder] = NoJobRun
  /\ hubRun' = [hubRun EXCEPT ![Holder] = [kind |-> kind, step |-> "lock", carry |-> TRUE]]
  /\ LET found == {s \in Seats : Cascades(kind) /\ Seated(s)}
     IN  /\ queued \subseteq found
         /\ (IF queued = found THEN Smooth ELSE Slip("enqueue"))
         /\ seat' = [s \in Seats |-> IF s \in found THEN [seat[s] EXCEPT !.at = "removing"] ELSE seat[s]]
         /\ hubJobs' = (hubJobs \ {[kind |-> kind, of |-> Holder]}) \cup {[kind |-> "revoke", of |-> s] : s \in queued}
  /\ UNCHANGED <<money, holder, request>>

(* The holder's own revoke.  resolveAndLock finds a holder whose access    *)
(* row or source row is live; with both closed (a sweep came first) the    *)
(* job ends and says nothing, whatever role the holder has at Kisi.        *)
HolderFound == holder.at \in {"active", "in_flight"} \/ holder.row = "active"
HolderLocks ==
  /\ hubRun[Holder].step = "lock"
  /\ IF HolderFound THEN Goes(Holder, "revoke") /\ holder' = [holder EXCEPT !.at = "in_flight"]
                    ELSE Ends(Holder) /\ UNCHANGED holder
  /\ Smooth
  /\ UNCHANGED <<money, seat, request>>

(* processRevoke takes the role and then the row, in whatever state the    *)
(* row is by then; a job that fails leaves both, and rolls up.             *)
HolderRevoked ==
  /\ hubRun[Holder].step = "revoke"
  /\ \/ Smooth /\ holder' = [at |-> "inactive", row |-> "none", role |-> FALSE]
     \/ Slip("job") /\ holder' = [holder EXCEPT !.at = RolledUp(holder.row)]
  /\ Ends(Holder)
  /\ UNCHANGED <<money, seat, request>>

-----------------------------------------------------------------------------
(* Wix: the order renews, or ends; the webhook of the end may be lost.     *)
OrderRenews ==
  /\ ordered /\ hubLeft.renewals > 0 /\ hubRun[Holder].kind # "renewal"
  /\ [kind |-> "renewal", of |-> Holder] \notin hubJobs
  /\ hubLeft' = [hubLeft EXCEPT !.renewals = @ - 1]
  /\ hubJobs' = hubJobs \cup {[kind |-> "renewal", of |-> Holder]}
  /\ UNCHANGED <<money, doors, hubRun, request, hubHappened>>

OrderEnds(told) ==
  /\ ordered /\ hubLeft.ends
  /\ (IF told THEN Smooth ELSE Slip("webhook"))
  /\ ordered' = FALSE
  /\ hubJobs' = IF told THEN hubJobs \cup {[kind |-> "cancel", of |-> Holder]} ELSE hubJobs
  /\ UNCHANGED <<cycles, doors, hubRun, request>>

(* The sweep, for this household, with removal switched on and its strikes *)
(* and caps as RemovalSweep has them.  Pass 1 for the holder: a paying one *)
(* who did not leave gets the row (promoted or inserted) and, if Kisi does *)
(* not have them, a grant ...                                              *)
SweepSeatsHolder ==
  /\ ordered /\ ~SeatReleased /\ ~Busy(Holder)
  /\ holder.row # "active" \/ ~holder.role
  /\ holder' = [holder EXCEPT !.row = "active"]
  /\ hubJobs' = IF holder.role THEN hubJobs ELSE hubJobs \cup {[kind |-> "grant", of |-> Holder]}
  /\ Smooth
  /\ UNCHANGED <<money, seat, hubRun, request>>
(* ... one who left has the row closed, in the database only and whatever  *)
(* job of theirs waits or runs; ...                                        *)
SweepUnseatsHolder ==
  /\ ordered /\ SeatReleased /\ holder.row = "active"
  /\ holder' = [holder EXCEPT !.row = "cancelled"]
  /\ Smooth
  /\ UNCHANGED <<money, seat, hubJobs, hubRun, request>>
(* ... the access row follows the source rows, unless a job has it ...     *)
SweepRollsHolderUp ==
  /\ ordered /\ holder.at \notin {"in_flight", RolledUp(holder.row)}
  /\ holder' = [holder EXCEPT !.at = RolledUp(holder.row)]
  /\ Smooth
  /\ UNCHANGED <<money, seat, hubJobs, hubRun, request>>
(* ... and one who pays no more is removed.                                *)
SweepRemovesHolder ==
  /\ ~ordered /\ holder.row = "active" /\ ~Busy(Holder)
  /\ hubJobs' = hubJobs \cup {[kind |-> "revoke", of |-> Holder]}
  /\ Smooth
  /\ UNCHANGED <<money, doors, hubRun, request>>

(* Pass 1.5: the seats of a holder who pays no more.                       *)
Lapsed(s) == ~ordered /\ seat[s].sub /\ seat[s].row = "active" /\ seat[s].at = "active"

(* The seat is marked, and then the revoke is queued.                      *)
SweepLapses(s) ==
  /\ Lapsed(s) /\ ~Busy(s)
  /\ seat' = [seat EXCEPT ![s].at = "removing"]
  /\ \/ Smooth /\ hubJobs' = hubJobs \cup {[kind |-> "revoke", of |-> s]}
     \/ Slip("enqueue") /\ UNCHANGED hubJobs
  /\ UNCHANGED <<money, holder, hubRun, request>>

-----------------------------------------------------------------------------
Hub(r) ==
  \/ AddChecks(r) \/ SubmitReads(r) \/ ClaimChecks(r) \/ ReleaseChecks(r)
  \/ \E s \in Seats : RemoveReads(r, s)
HubGoesOn(r) ==
  \/ \E s \in Seats, half \in BOOLEAN : AddCreates(r, s, half)
  \/ SubmitFlips(r)
  \/ \E queued \in SUBSET Seats : SubmitQueues(r, queued)
  \/ \E s \in Seats : RemoveDeletes(r, s) \/ RemoveMarks(r, s) \/ RemoveQueues(r, s)
  \/ FlagsSeat(r) \/ QueuesSeat(r)
SeatJob(s) == GrantStarts(s) \/ GrantOpens(s) \/ GrantCompletes(s) \/ RevokesSeat(s) \/ RevokeDone(s)
HolderJob ==
  \/ \E kind \in {"grant", "renewal"} : HolderOpens(kind)
  \/ ClaimCompletes \/ RenewalCloses \/ RenewalCarries \/ RenewalInserts
  \/ \E kind \in {"cancel", "revoke"}, queued \in SUBSET Seats : HolderLeaves(kind, queued)
  \/ HolderLocks \/ HolderRevoked
SweepOfHousehold ==
  \/ SweepSeatsHolder \/ SweepUnseatsHolder \/ SweepRollsHolderUp \/ SweepRemovesHolder
  \/ \E s \in Seats : SweepLapses(s)

SeatsNext ==
  \/ \E r \in HubRequests : Hub(r) \/ HubGoesOn(r)
  \/ \E s \in Seats : SeatJob(s)
  \/ HolderJob
  \/ OrderRenews
  \/ \E told \in BOOLEAN : OrderEnds(told)
  \/ SweepOfHousehold

(* A handler and a job that were begun go on; the sweep comes again.  Ask, *)
(* renew and end only happen when somebody does them.                      *)
SeatsFairness ==
  /\ \A r \in HubRequests : WF_hubVars(HubGoesOn(r))
  /\ \A s \in Seats : WF_hubVars(SeatJob(s)) /\ WF_hubVars(SweepLapses(s))
  /\ WF_hubVars(HolderJob)

SeatsSpec == SeatsInit /\ [][SeatsNext]_hubVars
SeatsFairSpec == SeatsSpec /\ SeatsFairness
-----------------------------------------------------------------------------
(* Types; and a seat with a source row has its access row.                 *)
SeatsTypeOK ==
  /\ holder \in [at : {"in_flight", "active", "inactive"}, row : {"none", "active", "cancelled"}, role : BOOLEAN]
  /\ seat \in [Seats -> [at : {"none", "pending_identity", "in_flight", "active", "inactive", "removing", "deleted"},
                         row : {"none", "draft", "pending_hardware", "active"},
                         sub : BOOLEAN, user : BOOLEAN, role : BOOLEAN]]
  /\ hubJobs \subseteq [kind : {"grant", "revoke", "cancel", "renewal"}, of : People]
  /\ \A s \in Seats : seat[s].row # "none" => seat[s].at # "none"

(* A plan of max_members people never holds more, drafts and the holder    *)
(* counted, while requests come one at a time (multi-member.js,            *)
(* countOccupiedSlots).                                                    *)
SeatsWithinPlan == hubLeft.patient => Occupied <= hubLeft.cap

(* A holder who gave up their place has no door once their jobs are done   *)
(* and while they ask for nothing, whatever the sweep makes of an order    *)
(* that goes on being paid (multi-member.js, holder-release-slot); but one *)
(* whose row the sweep closed before the revoke had them keeps the role.   *)
LeaversStayOut ==
  hubLeft.patient /\ answered.left /\ ~Busy(Holder) /\ (\A r \in HubRequests : hubReq[r] = NoAsk)
    => ~holder.role \/ holder.row = "cancelled" \/ "job" \in hubHappened

(* A sub-member who was removed, and no job of whom is under way, has no   *)
(* door.                                                                   *)
RemovedStaysOut ==
  \A s \in Seats : s \in answered.removed /\ ~Busy(s) /\ "job" \notin hubHappened => ~seat[s].role

(* Only the end of the order or a removal takes a seat's door: the holder  *)
(* may leave the place and the family keeps theirs.                        *)
OwnLeaveSparesSeats ==
  [][\A s \in Seats : seat[s].role /\ ~seat'[s].role => ~ordered \/ s \in answered.removed]_hubVars

(* After the order ended, webhook or not, every seat's door is closed; a   *)
(* cascade or a removal whose revoke the queue refused leaves the seat     *)
(* marked and open, and that is the exception.                             *)
LapsedIsClosed == ~ordered => \A s \in Seats : seat[s].sub => ~seat[s].role

(* Whoever was submitted is served or removed, if nothing was added while  *)
(* the submission ran.                                                     *)
SubmittedIsServed == hubLeft.patient => \A s \in Seats : seat[s].row # "pending_hardware"

(* What holds of a household at every step ...                             *)
SeatsHold == SeatsTypeOK /\ SeatsWithinPlan /\ LeaversStayOut /\ (hubLeft.patient => RemovedStaysOut)

(* ... from one step to the next, and in the end, if the queue takes the   *)
(* jobs.                                                                   *)
SeatsFollow ==
  /\ OwnLeaveSparesSeats
  /\ []<>("enqueue" \in hubHappened \/ (LapsedIsClosed /\ SubmittedIsServed))
=============================================================================
