------------------------------ MODULE MCFaults ------------------------------
(***************************************************************************)
(* What stays true of a member's access when calls fail, people act in     *)
(* Kisi and jobs cross: MemberAccess with payments that fail and recover,  *)
(* over a Kisi user of other origin, with grants parked for every reason,  *)
(* with a plan no door is mapped to and with orders that finish.           *)
(***************************************************************************)
EXTENDS MemberAccess, TLC

CONSTANTS a, b, g1, j1, j2, j3

(* Plan a opens every door, plan b none.                                   *)
NoDoorForB == (a :> Groups) @@ (b :> {})

(* Not used by the run: both plans open every door; a opens g1 and b the   *)
(* others; jobs that come one after another.                               *)
SharedDoors     == (a :> Groups) @@ (b :> Groups)
OwnDoors        == (a :> {g1}) @@ (b :> Groups \ {g1})
OneAfterAnother == Cardinality({j \in Jobs : pc[j] \notin {"absent", "done"}}) <= 1

JobSymmetry == Permutations({j1, j2, j3})

(* Bound: three faults where an order finishes, one where a plan starts,   *)
(* else two.                                                               *)
Kind(k)     == \E j \in Jobs : job[j].kind = k
FaultsBound == faults <= (IF Kind("finish") THEN 3 ELSE IF Kind("started") THEN 1 ELSE 2)
=============================================================================
