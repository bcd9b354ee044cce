----------------------------- MODULE MCProgress -----------------------------
(***************************************************************************)
(* What must come to an end: the jobs of a member (MemberAccess), the      *)
(* removal of who pays no more (RemovalSweep), the gyms' syncs (SweepRun)  *)
(* and Pass 3 over Kisi's lists (KisiDrift).  "part" says which of the     *)
(* four has something to do; the others rest.                              *)
(***************************************************************************)
EXTENDS SweepRun, KisiDrift, TLC

VARIABLES
  access, src, kuser, disabled, kroles, minted, memberLock, job, pc, loc, faults,
  wix, row, clock, seat, history, queue, cascade, sweep_, proof, deaths,
  part

Grants == INSTANCE MemberAccess WITH
  Plans <- {"a", "b"}, Groups <- {"g1"}, DoorsOf <- ("a" :> {"g1"}) @@ ("b" :> {}),
  Jobs <- {"j1", "j2"}, Kinds <- {"purchase", "started", "cancel"}, Parks <- {"future_start", "no_email"},
  ForeignUser <- FALSE, StaffDeletes <- FALSE, NoPlan <- "no plan", NoJob <- "no job",
  MaxAttempts <- 2, MaxStalls <- 1, MaxFaults <- 2, MaxIds <- 6

WixSources == {"wix_orders", "wix_bookings"}
Members3   == {"a1", "b1", "c1"}
Strikes == INSTANCE RemovalSweep WITH
  sweep <- sweep_,
  DataSources <- WixSources,
  SourceReads <- ("wix_absence" :> WixSources) @@ ("holder_lapse" :> {"wix_orders"}) @@ ("role_drift" :> {}),
  MemberOf <- ("a1" :> "a") @@ ("b1" :> "b") @@ ("c1" :> "c"),
  ReadOf <- [o \in Members3 |-> "wix_orders"], RidesOn <- [s \in {"s1"} |-> "a1"],
  MinAge <- 1, MinSeen <- 2, Orders <- Members3, Seats <- {"s1"}, Modes <- {"on"}, Faults <- {"webhook"},
  Classes <- [o \in Members3 |-> IF o = "a1" THEN {"paying", "ended"} ELSE {"paying"}]
-----------------------------------------------------------------------------
NothingYet == [active |-> {"g1"}, members |-> {}, lapsed |-> {}, oldRows |-> {}, locked |-> {},
               procs |-> {"p1"}, manual |-> 0, moves |-> 0, faults |-> 0, kinds |-> {}]

(* One gym: webhooks are lost, users vanish, jobs and reads fail.          *)
OneGym == [NothingYet EXCEPT !.members = {"g1"}, !.moves = 2, !.faults = 2,
             !.kinds = {"webhook", "vanish", "read", "job", "crash", "lockdown"}]

(* A member who pays no more, and the mail about it.                       *)
Mails == [NothingYet EXCEPT !.active = {"g1", "g2"}, !.lapsed = {"g1"}, !.locked = {"g2"}, !.moves = 1,
            !.faults = 2, !.kinds = {"read", "crash", "lockdown", "mail", "log"}]

(* A deploy: two processes sweep side by side, and someone syncs by hand.  *)
Deploy == [NothingYet EXCEPT !.lapsed = {"g1"}, !.procs = {"p1", "p2"}, !.manual = 1, !.moves = 1,
             !.faults = 1, !.kinds = {"lockdb"}]

(* An error row from before, and a grant whose worker dies.                *)
OldRow == [NothingYet EXCEPT !.oldRows = {"g1"}, !.moves = 2, !.faults = 1, !.kinds = {"crash"}]

SweepCases == {NothingYet, OneGym, Mails, Deploy, OldRow}
-----------------------------------------------------------------------------
Undisturbed == [paying |-> {"m1"}, edits |-> 3, does |-> {"remove", "unrole", "promote", "join", "regrant"},
                still |-> TRUE, newestFirst |-> FALSE, faults |-> 1]

(* Lists that move while they are read, in either order.                   *)
Moving == {[Undisturbed EXCEPT !.still = FALSE, !.newestFirst = n, !.does = d, !.edits = 2] :
             n \in BOOLEAN, d \in {{"remove", "join"}, {"unrole", "regrant"}, {"promote", "regrant"}}}

DriftCases == {Undisturbed} \cup Moving
-----------------------------------------------------------------------------
grantVars  == <<access, src, kuser, disabled, kroles, minted, memberLock, job, pc, loc, faults>>
strikeVars == <<wix, row, clock, seat, history, queue, cascade, sweep_, proof, deaths>>
progressVars == <<grantVars, strikeVars, sweepVars, driftVars, part>>

ProgressInit ==
  /\ Grants!Init /\ Strikes!Init /\ SweepInit /\ DriftInit
  /\ part \in {"grants", "strikes", "syncs", "drift"}
  /\ (part = "syncs") <=> (sweepLeft # NothingYet)
  /\ part # "drift" => driftLeft = Undisturbed

ProgressNext ==
  /\ UNCHANGED part
  /\ \/ part = "grants"  /\ Grants!Next  /\ UNCHANGED <<strikeVars, sweepVars, driftVars>>
     \/ part = "strikes" /\ Strikes!Next /\ UNCHANGED <<grantVars, sweepVars, driftVars>>
     \/ part = "syncs"   /\ SweepNext    /\ UNCHANGED <<grantVars, strikeVars, driftVars>>
     \/ part = "drift"   /\ DriftNext    /\ UNCHANGED <<grantVars, strikeVars, sweepVars>>

(* The fairness of the four, for the part at work.                         *)
ProgressFairness ==
  /\ \A j \in {"j1", "j2"} : WF_grantVars(part = "grants" /\ Grants!RunStep(j))
  /\ WF_grantVars(part = "grants" /\ Grants!ReleaseStaleLocks)
  /\ WF_strikeVars(part = "strikes" /\ Strikes!SweepSteps) /\ WF_strikeVars(part = "strikes" /\ Strikes!Tick)
  /\ \A t \in Members3 \cup {"s1"} : WF_strikeVars(part = "strikes" /\ Strikes!RunRevoke(t))
  /\ WF_strikeVars(part = "strikes" /\ Strikes!CascadeGoesOn("s1"))
  /\ \A p \in Procs : WF_sweepVars(part = "syncs" /\ SweepStep(p))
  /\ \A p \in Procs \cup {Manual} : WF_sweepVars(part = "syncs" /\ \E s \in syncs : s.by = p /\ SyncStep(s))
  /\ \A g \in Gyms : WF_sweepVars(part = "syncs" /\ GrantStep(g))
  /\ WF_sweepVars(part = "syncs" /\ DayPasses)
  /\ WF_driftVars(part = "drift" /\ DriftStep)

ProgressSpec == ProgressInit /\ [][ProgressNext]_progressVars /\ ProgressFairness
-----------------------------------------------------------------------------
(* Every job ends, and no member stays in flight (MemberAccess).           *)
GrantsEnd == Grants!JobsEnd

(* Who lapses alone leaves, with the seats on the order (RemovalSweep).    *)
LapsedLeaves == Strikes!LapsedLeaves
=============================================================================
