------------------------------- MODULE MCPeople ------------------------------
(***************************************************************************)
(* Small instances of HolderSeats, LoginEmailSwap and MemberCheck: one of   *)
(* the three has something to do, the others are quiet.                    *)
(***************************************************************************)
EXTENDS HolderSeats, LoginEmailSwap, MemberCheck

Quiet == [cap |-> 2, ops |-> {}, asks |-> 0, renewals |-> 0, ends |-> FALSE, faults |-> 0, kinds |-> {}, patient |-> TRUE]

(* One request after another; everything the hub offers.                   *)
OneByOne == [Quiet EXCEPT !.ops = HubOps, !.asks = 6, !.faults = 1, !.kinds = {"create", "job"}]

(* The order ends under open requests; jobs and webhooks are lost.         *)
Ending == [Quiet EXCEPT !.cap = 3, !.ops = {"add", "submit", "release"}, !.asks = 4, !.ends = TRUE, !.faults = 1,
             !.kinds = {"webhook", "job", "enqueue"}, !.patient = FALSE]

(* Renewals beside the requests of the holder.                             *)
Renewing == [Quiet EXCEPT !.ops = {"add", "submit", "claim"}, !.asks = 3, !.renewals = 1, !.ends = TRUE, !.patient = FALSE]

HouseholdCases == {Quiet, OneByOne, Ending, Renewing}

(* A sub-member is removed while the grant of theirs is under way.         *)
Hasty == {[Quiet EXCEPT !.ops = {"add", "submit", "remove"}, !.asks = 3, !.patient = FALSE]}

(* The order of a holder who left renews.                                  *)
LeftAndRenewed == {[Quiet EXCEPT !.ops = {"release"}, !.asks = 1, !.renewals = 1]}

(* A claim is written and the queue refuses its job.                       *)
RefusedClaim == {[Quiet EXCEPT !.ops = {"release", "claim"}, !.asks = 3, !.faults = 1, !.kinds = {"enqueue"}]}
-----------------------------------------------------------------------------
OneChange ==
  [changes |-> 1, verified |-> {TRUE}, user |-> TRUE, else |-> {}, times |-> 0, between |-> TRUE,
   inOrder |-> TRUE, faults |-> 0, kinds |-> {}]

NoChange == [OneChange EXCEPT !.changes = 0, !.user = FALSE]
(* An operator maps a door to the member's plan.                           *)
Mapping == [OneChange EXCEPT !.changes = 0, !.else = {"map", "payment", "resume"}, !.times = 2]

(* Every call to Kisi and the transaction can fail; staff are in Kisi.     *)
FailingSwap == [OneChange EXCEPT !.verified = BOOLEAN, !.else = {"staff"}, !.times = 1, !.between = FALSE, !.faults = 2,
                  !.kinds = {"create", "assign", "commit", "undo", "delete", "crash"}]

(* The login changes again while a job waits.                              *)
ChangesTwice == [OneChange EXCEPT !.changes = 2, !.else = {"lapse", "staff"}, !.times = 1]

(* Nobody at Kisi yet.                                                     *)
NoKisiUser == [OneChange EXCEPT !.user = FALSE, !.verified = BOOLEAN]

SwapCases == {NoChange, Mapping, FailingSwap, ChangesTwice, NoKisiUser}

(* The worker dies between the commit and the delete of the old user.      *)
DyingSwap == {[OneChange EXCEPT !.faults = 1, !.kinds = {"late_crash"}]}

(* The location lapses while a swap runs.                                  *)
LapsingSwap == {[OneChange EXCEPT !.else = {"lapse"}, !.times = 1, !.between = FALSE]}

(* The login changes back, and the jobs of the changes swap places.        *)
OvertakenSwap == {[OneChange EXCEPT !.changes = 2, !.inOrder = FALSE]}

(* A job overtakes one whose worker died.                                  *)
HastySwap == {[OneChange EXCEPT !.changes = 2, !.inOrder = FALSE, !.faults = 1, !.kinds = {"crash"}]}

(* An operator maps a door while a swap runs.                              *)
MappedSwap == {[OneChange EXCEPT !.else = {"map"}, !.times = 1]}

(* The login changes while a payment is outstanding.                       *)
OwingSwap == {[OneChange EXCEPT !.else = {"payment", "resume"}, !.times = 1]}
-----------------------------------------------------------------------------
DoorsOfPlans == [p \in CheckPlans |-> IF p = "p3" THEN "d2" ELSE IF p = "p2" THEN "d2" ELSE "d1"]

AllMapped == [p \in CheckPlans |-> "one"]
CalmCheck == [mapped |-> AllMapped, checks |-> 2, changes |-> 2, staff |-> 1, faults |-> 1, kinds |-> {"wix", "kisi", "webhook"},
              calm |-> TRUE]

NoChecks == [CalmCheck EXCEPT !.checks = 0, !.changes = 0, !.staff = 0, !.faults = 0]
(* Mappings of every kind.                                                 *)
Mappings == {[CalmCheck EXCEPT !.mapped["p1"] = m, !.changes = 1, !.checks = 1] : m \in {"none", "empty", "two"}}

(* Purchases, cancellations and jobs between the reads of a check.         *)
BusyCheck == [CalmCheck EXCEPT !.calm = FALSE, !.checks = 1, !.kinds = @ \cup {"grant"}]

CheckCases == {NoChecks} \cup Mappings \cup {CalmCheck, BusyCheck}

(* One check of one member, and nothing goes wrong.                         *)
JustOne == {[CalmCheck EXCEPT !.kinds = {}, !.checks = 1]}
-----------------------------------------------------------------------------
HouseholdRests == hubLeft = Quiet
SwapRests  == swapLeft = NoChange
CheckRests == checkLeft = NoChecks /\ wixPlans = {} /\ Member = <<{}, TRUE, [d \in CheckDoors |-> "none"]>>

PeopleInit ==
  /\ SeatsInit /\ SwapInit /\ CheckInit
  /\ \/ HouseholdRests /\ (SwapRests \/ CheckRests)
     \/ SwapRests /\ CheckRests

PeopleNext ==
  \/ SeatsNext /\ UNCHANGED <<swapVars, checkVars>>
  \/ SwapNext /\ UNCHANGED <<hubVars, checkVars>>
  \/ CheckNext /\ UNCHANGED <<hubVars, swapVars>>

PeopleSpec ==
  /\ PeopleInit /\ [][PeopleNext]_<<hubVars, swapVars, checkVars>>
  /\ SeatsFairness
  /\ WF_swapVars(SwapStep) /\ WF_swapVars(MapGives)
  /\ WF_checkVars(CheckStep)
-----------------------------------------------------------------------------
(* What it comes to: the seats follow what the holder asked for, the login *)
(* on record the login in Wix, and a check what it found missing.          *)
PeopleSettle == SeatsFollow /\ LoginFollows /\ ChecksRepair
=============================================================================
