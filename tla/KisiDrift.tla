----------------------------- MODULE KisiDrift -----------------------------
(***************************************************************************)
(* What the sweep reads of Kisi and makes of it: the offset pager of the   *)
(* bulk lists (_fetchAllKisiPages, adapters/kisi/kisi-adapter.js) over     *)
(* lists that change between two pages, and Pass 3                         *)
(* (core/reconciliation.js), which compares the active rows with the Kisi  *)
(* users and role assignments read.                                        *)
(*                                                                         *)
(* Each member has one active row with one door; Kisi also knows people    *)
(* without a row.  What becomes of a finding is RemovalSweep's (revokes)   *)
(* and PlanDoors' (repairs).                                               *)
(***************************************************************************)
EXTENDS Integers, FiniteSets, Sequences, SequencesExt

CONSTANTS
  Members,         \* people with an active row
  Visitors,        \* people staff add in Kisi
  PageLimit,       \* KISI_LIST_PAGE_LIMIT
  MaxPages,        \* KISI_LIST_MAX_PAGES
  DriftScenarios

Persons == Members \cup Visitors

ASSUME KisiDriftAssumption ==
  /\ PageLimit \in Nat \ {0} /\ MaxPages \in Nat \ {0}
  /\ Members \cap Visitors = {}
  /\ DriftScenarios \subseteq
       [paying : SUBSET Members, edits : Nat, does : SUBSET {"remove", "unrole", "promote", "join", "regrant"},
        still : BOOLEAN, newestFirst : BOOLEAN, faults : Nat]

VARIABLES
  users,      \* Kisi's users in list order
  roles,      \* the users with an assignment to their door, in list order
  boss,       \* users with an elevated role
  marked,     \* rows with kisi_user_disappeared_observed_at
  sweep,      \* [step, page, got, held, left]
  found,      \* findings of this sweep: [who, kind, way]
  barred,     \* members who could not open their door at some moment of this sweep
  missing,    \* members the last judged list of users did not hold
  unsure,     \* members whose elevated roles could not be read this sweep
  driftLeft

driftVars == <<users, roles, boss, marked, sweep, found, barred, missing, unsure, driftLeft>>
-----------------------------------------------------------------------------
Resting == [step |-> "idle", page |-> 0, got |-> << >>, held |-> {}, left |-> {}]

DriftInit ==
  /\ driftLeft \in DriftScenarios
  /\ users = SetToSeq(Members) /\ roles = SetToSeq(Members)
  /\ boss = {} /\ marked = {} /\ found = {} /\ barred = {} /\ missing = {} /\ unsure = {}
  /\ sweep = Resting

kisiLists == <<users, roles, boss>>
Reading   == sweep.step \in {"roles", "users"}

\* Neither the group's role nor an elevated one.
Barred(rs, bs) == Members \ (ToSet(rs) \cup bs)
-----------------------------------------------------------------------------
(* Kisi.                                                                   *)

Listed(s, p)   == IF driftLeft.newestFirst THEN <<p>> \o s ELSE Append(s, p)
Unlisted(s, p) == SelectSeq(s, LAMBDA x : x # p)

\* still: nobody edits Kisi while a sweep reads and judges.
Edits(k) ==
  /\ k \in driftLeft.does /\ driftLeft.edits > 0 /\ (driftLeft.still => sweep = Resting)
  /\ driftLeft' = [driftLeft EXCEPT !.edits = @ - 1]
  /\ barred' = barred \cup Barred(roles', boss')
  /\ UNCHANGED <<marked, sweep, found, missing, unsure>>

RemovesUser(p) ==
  /\ p \in ToSet(users)
  /\ users' = Unlisted(users, p) /\ roles' = Unlisted(roles, p) /\ boss' = boss \ {p}
  /\ Edits("remove")
RemovesRole(p) ==
  /\ p \in ToSet(roles)
  /\ roles' = Unlisted(roles, p) /\ UNCHANGED <<users, boss>>
  /\ Edits("unrole")
\* An elevated role takes the place of the group's.
Promotes(p) ==
  /\ p \in ToSet(users) \ boss
  /\ boss' = boss \cup {p} /\ roles' = Unlisted(roles, p) /\ UNCHANGED users
  /\ Edits("promote")
Joins(p) ==
  /\ p \in Visitors \ ToSet(users)
  /\ users' = Listed(users, p) /\ roles' = Listed(roles, p) /\ UNCHANGED boss
  /\ Edits("join")
\* A grant gives a member the role back; staff may take the elevated one.
Regrants(p) ==
  /\ p \in (Members \cap ToSet(users)) \ ToSet(roles)
  /\ roles' = Listed(roles, p) /\ boss' \in {boss, boss \ {p}} /\ UNCHANGED users
  /\ Edits("regrant")
-----------------------------------------------------------------------------
(* The pager.                                                              *)

Starts ==
  /\ sweep = Resting
  /\ sweep' = [Resting EXCEPT !.step = "roles", !.page = 1]
  /\ found' = {} /\ unsure' = {} /\ barred' = Barred(roles, boss)
  /\ UNCHANGED <<kisiLists, marked, missing, driftLeft>>

List == IF sweep.step = "roles" THEN roles ELSE users
Page == LET from == (sweep.page - 1) * PageLimit
            to   == from + PageLimit
        IN SubSeq(List, from + 1, IF to < Len(List) THEN to ELSE Len(List))

\* duplicate_id: the list moved towards the reader.
Repeats(data) == ToSet(data) \cap ToSet(sweep.got) # {}

IsLast(data) == Len(data) < PageLimit

\* What is read so far ends the list: the roles, then the users.
ListEnds(got) ==
  IF sweep.step = "roles"
  THEN [Resting EXCEPT !.step = "users", !.page = 1, !.held = ToSet(got)]
  ELSE [sweep EXCEPT !.step = "judge", !.got = got, !.left = Members]

\* Any error ends the sweep (roles) or leaves Pass 3 out (users).
Broken == Resting

ReadsPage ==
  /\ Reading
  /\ sweep' = IF Repeats(Page) \/ (~IsLast(Page) /\ sweep.page >= MaxPages) THEN Broken
              ELSE IF IsLast(Page) THEN ListEnds(sweep.got \o Page)
              ELSE [sweep EXCEPT !.page = @ + 1, !.got = @ \o Page]
  /\ UNCHANGED <<kisiLists, marked, found, barred, missing, unsure, driftLeft>>

\* An HTTP error, a timeout or a body that is no array.
PageFails ==
  /\ Reading /\ driftLeft.faults > 0
  /\ driftLeft' = [driftLeft EXCEPT !.faults = @ - 1]
  /\ sweep' = Broken
  /\ UNCHANGED <<kisiLists, marked, found, barred, missing, unsure>>
-----------------------------------------------------------------------------
(* Pass 3, one active row at a time.                                       *)

Seen == ToSet(sweep.got)

\* routePass3Finding: a paying plan is repaired, any other goes to the revokes.
Finding(m, k) == [who |-> m, kind |-> k, way |-> IF m \in driftLeft.paying THEN "repair" ELSE "revoke"]

Judged(m) ==
  /\ sweep.step = "judge" /\ m \in sweep.left
  /\ sweep' = [sweep EXCEPT !.left = @ \ {m}]
  /\ UNCHANGED <<kisiLists, barred, missing>>

\* Mutation: the first sighting leaves no mark.
MarksNever(m) == marked

Marks(m) == marked \cup {m}

\* Not among the users: marked the first time, a finding when marked before.
JudgesGone(m) ==
  /\ m \notin Seen
  /\ Judged(m)
  /\ IF m \in marked
     THEN found' = found \cup {Finding(m, "vanished")} /\ UNCHANGED marked
     ELSE marked' = Marks(m) /\ UNCHANGED found
  /\ UNCHANGED <<unsure, driftLeft>>

Clears(m) == marked \ {m}

\* elevatedRolesFor: a role above group_basic explains the missing one.
Covered(m) == m \in boss

Adrift(m) == m \notin sweep.held

JudgesPresent(m) ==
  /\ m \in Seen
  /\ Judged(m)
  /\ marked' = Clears(m)
  /\ found' = IF Adrift(m) /\ ~Covered(m) THEN found \cup {Finding(m, "drift")} ELSE found
  /\ UNCHANGED <<unsure, driftLeft>>

\* The elevated roles cannot be read: the row counts as adrift.
JudgesUnsure(m) ==
  /\ m \in Seen /\ Adrift(m) /\ driftLeft.faults > 0
  /\ Judged(m)
  /\ marked' = Clears(m)
  /\ found' = found \cup {Finding(m, "drift")}
  /\ unsure' = unsure \cup {m}
  /\ driftLeft' = [driftLeft EXCEPT !.faults = @ - 1]

Ends ==
  /\ sweep.step = "judge" /\ sweep.left = {}
  /\ sweep' = Resting
  /\ missing' = Members \ Seen
  /\ UNCHANGED <<kisiLists, marked, found, barred, unsure, driftLeft>>
-----------------------------------------------------------------------------
DriftStep == Starts \/ ReadsPage \/ Ends \/ \E m \in Members : JudgesGone(m) \/ JudgesPresent(m)
DriftNext ==
  \/ DriftStep \/ PageFails \/ \E m \in Members : JudgesUnsure(m)
  \/ \E p \in Persons : RemovesUser(p) \/ RemovesRole(p) \/ Promotes(p) \/ Joins(p) \/ Regrants(p)

DriftSpec == DriftInit /\ [][DriftNext]_driftVars

\* The sweep is scheduled every six hours.
DriftFairSpec == DriftSpec /\ WF_driftVars(DriftStep)
-----------------------------------------------------------------------------
DriftTypeOK ==
  /\ ToSet(users) \subseteq Persons /\ ToSet(roles) \subseteq ToSet(users)
  /\ boss \subseteq ToSet(users) /\ marked \subseteq Members
  /\ sweep.page \in 0..MaxPages /\ sweep.held \subseteq Persons /\ sweep.left \subseteq Members
  /\ Cardinality(ToSet(sweep.got)) = Len(sweep.got)
  /\ found \subseteq [who : Members, kind : {"vanished", "drift"}, way : {"repair", "revoke"}]

(* The pager's promise, and Pass 3's: who is found without a door could    *)
(* not open it at some moment of the sweep, by a role of the group or an   *)
(* elevated one; unread elevated roles apart.                              *)
DriftIsFact == \A f \in found : f.kind = "drift" => f.who \in barred \cup unsure

(* When nobody edits Kisi during a sweep that is so.  And, however the     *)
(* lists move, a user counts as deleted only when two readable sweeps in a *)
(* row did not list him (OB-249); one that lists him starts anew.          *)
DriftIsReal ==
  /\ DriftTypeOK
  /\ driftLeft.still => DriftIsFact
  /\ \A f \in found : f.kind = "vanished" => f.who \in missing /\ f.who \notin Seen

(* And members whose users are deleted in Kisi are found, all in one       *)
(* sweep: repaired when the plan is paid, handed to the revokes when not.  *)
VanishedIsFound ==
  /\ []DriftIsReal
  /\ []<>(\A m \in Members \ ToSet(users) :
            [who |-> m, kind |-> "vanished", way |-> IF m \in driftLeft.paying THEN "repair" ELSE "revoke"] \in found)
=============================================================================
