---------------------------- MODULE RemovalPolicy ----------------------------
(***************************************************************************)
(* core/revoke-policy.js: the one decision over every removal a            *)
(* reconciliation sweep wants to make.  The source is a pure function of   *)
(* plain data; so is this module.                                          *)
(*                                                                         *)
(* A proposal is a record                                                  *)
(*   [source, dataSource, member, unit, plan, class, age, seen]            *)
(* whose age is how long ago the strike clock started (the code's          *)
(* now - since), NoClock when none has, and whose seen is the number of    *)
(* observations.  A batch is a record                                      *)
(*   [proposals, managed, pop, differ, mode, observe]                      *)
(* pop and differ being functions from data sources to counts of units.    *)
(***************************************************************************)
EXTENDS Integers, FiniteSets

CONSTANTS
  DataSources,   \* the reads evidence can come from (DATA_SOURCE)
  SourceReads,   \* source |-> the data sources its evidence may be filed under
  MinAge,        \* strikePolicy.minAgeMs, in ticks
  MinSeen        \* strikePolicy.minObservations

NoClock == -1

Sources == {"wix_absence", "holder_lapse", "role_drift"}

ASSUME PolicyAssumption ==
  /\ MinAge \in Nat
  /\ MinSeen \in Nat
  /\ SourceReads \in [Sources -> SUBSET DataSources]
  /\ IsFiniteSet(DataSources)

Removable == {"ended", "absent"}                 \* REMOVABLE_CLASSIFICATIONS
Anomalies == {"invalid_proposal", "snapshot_unstable", "mass_revoke"}

(* How many units may disagree between the two reads of a population of n  *)
(* before the read is unstable: a quarter, rounded up, at least two.       *)
RevalidationThreshold(n) ==
  LET quarter == (n + 3) \div 4 IN IF quarter < 2 THEN 2 ELSE quarter

(* A mutant of MassThreshold: one unit too many passes.                    *)
MassThresholdLate(n) == (n \div 2) + 2

(* The fewest units that make a mass removal: more than half.              *)
MassThreshold(n) == (n \div 2) + 1

UnitsOf(ps) == {p.unit : p \in ps}
From(ps, d) == {p \in ps : p.dataSource = d}

(* A primary's absence is its own unit; a seat's unit is its holder.       *)
UnitFits(p) ==
  CASE p.source = "wix_absence"  -> p.unit = p.member
    [] p.source = "holder_lapse" -> p.unit # p.member
    [] OTHER                     -> TRUE

WellFormed(p) ==
  /\ p.source \in Sources
  /\ p.dataSource \in SourceReads[p.source]
  /\ UnitFits(p)
  /\ p.source \in {"wix_absence", "holder_lapse"} => p.class \in Removable

(* _readDisagreementProblem: a disagreement with no population to judge it *)
(* against.                                                                *)
Judgeable(b) == \A d \in DOMAIN b.differ : b.differ[d] > 0 => d \in DOMAIN b.pop

(* _validate: no more units proposed than are at risk, in all and by read. *)
Valid(b) ==
  /\ \A p \in b.proposals : WellFormed(p)
  /\ Cardinality(UnitsOf(b.proposals)) <= b.managed
  /\ \A p \in b.proposals :
       /\ p.dataSource \in DOMAIN b.pop
       /\ Cardinality(UnitsOf(From(b.proposals, p.dataSource))) <= b.pop[p.dataSource]
  /\ Judgeable(b)

Unstable(b) ==
  \E d \in DOMAIN b.differ :
     b.differ[d] # 0 /\ b.differ[d] >= RevalidationThreshold(b.pop[d])

TooMany(units, n) == n >= 2 /\ Cardinality(units) >= MassThreshold(n)

Mass(b) ==
  \/ TooMany(UnitsOf(b.proposals), b.managed)
  \/ \E d \in DOMAIN b.pop : TooMany(UnitsOf(From(b.proposals, d)), b.pop[d])

(* strikeSatisfied: unpaid for long enough, and seen so often enough.      *)
StrikeMet(p) == p.age # NoClock /\ p.age >= MinAge /\ p.seen >= MinSeen

Ready(b) == {p \in b.proposals : StrikeMet(p)}

(* The reason a batch is held, "none" when it is not.  An empty batch is   *)
(* judged on its two reads alone.                                          *)
HoldReason(b) ==
  IF ~Judgeable(b) \/ (b.proposals # {} /\ ~Valid(b)) THEN "invalid_proposal"
  ELSE IF Unstable(b)         THEN "snapshot_unstable"
  ELSE IF b.proposals = {}    THEN "none"
  ELSE IF Mass(b)             THEN "mass_revoke"
  ELSE IF b.observe           THEN "observation_only"
  ELSE IF b.mode = "dry_run"  THEN "dry_run"
  ELSE IF b.mode # "on"       THEN "auto_revoke_off"
  ELSE IF Ready(b) = {}       THEN "strike_pending"
  ELSE "none"

(* What may be removed: the proposals whose strike is met, when nothing    *)
(* holds the batch.                                                        *)
Flush(b) == IF HoldReason(b) = "none" THEN Ready(b) ELSE {}
=============================================================================
