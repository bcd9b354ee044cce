------------------------------ MODULE MCHealth ------------------------------
(***************************************************************************)
(* Who is told that a gym is not well: the check of its key, doors and     *)
(* plans (HealthCheck), and the owner's hub and daily mail (OwnerDaily).   *)
(* "part" says which of the two runs; the other rests.                     *)
(***************************************************************************)
EXTENDS HealthCheck, OwnerDaily

VARIABLE part
-----------------------------------------------------------------------------
\* The locations are alike when the first run begins, and so are the rows of
\* the doors where nobody touches the doors.
WellInit ==
  /\ HealthInit /\ DailyInit
  /\ part \in {"check", "daily"}
  /\ check = Idle(CHOOSE l \in Locs : TRUE)
  /\ story # "doors" => mark = [d \in Doors |-> "ok"]
  /\ part # "check" => story = "key" /\ key \in Keys
  /\ part # "daily" => dull = FALSE /\ facts = [g \in Hubs |-> Closed]

WellNext ==
  /\ UNCHANGED part
  /\ \/ part = "check" /\ HealthNext /\ UNCHANGED ownerVars
     \/ part = "daily" /\ DailyNext  /\ UNCHANGED healthVars

(* The scheduler's: a run goes on, and time passes.                        *)
WellFairness ==
  WF_healthVars(part = "check" /\ CheckStep) /\ WF_healthVars(part = "check" /\ Tick)

WellSpec == WellInit /\ [][WellNext]_<<healthVars, ownerVars, part>> /\ WellFairness
=============================================================================
