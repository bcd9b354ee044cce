-------------------------- MODULE MCMemberAccess --------------------------
(***************************************************************************)
(* Small instances of MemberAccess: who may arrive, which doors the plans   *)
(* open, and the bounds.                                                   *)
(***************************************************************************)
EXTENDS MemberAccess, TLC

CONSTANTS a, b, g1, g2, j1, j2, j3

\* A door each; a shared door beside an own one; no door mapped for b.
OwnDoors    == (a :> {g1}) @@ (b :> {g2})
SharedDoor  == (a :> {g1}) @@ (b :> {g1, g2})
Unmapped    == (a :> {g1}) @@ (b :> {})
TwoDoors    == (a :> {g1, g2})
OneDoor     == (a :> {g1})

JobSymmetry == Permutations(Jobs)
=============================================================================
