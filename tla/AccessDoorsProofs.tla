------------------------- MODULE AccessDoorsProofs -------------------------
(***************************************************************************)
(* What AccessSync calls active opens (MemberAccess): the row of a door    *)
(* that is not parked has its role in Kisi, or the person's Kisi user is    *)
(* gone, or a cancel that will delete the row is not done.                  *)
(***************************************************************************)
EXTENDS AccessRecordsProofs

\* Two plans that share a door hand its role id from row to row without asking
\* Kisi (OB-47), also one that a cancel has already taken off.
DoorsApart == \A p, q \in Plans : p # q => DoorsOf[p] \cap DoorsOf[q] = {}

\* A pause leaves a row that the finalize does not see.
NothingPauses == "payfail" \notin Kinds

Has(g) == \E r \in kroles : r.group = g

\* The user on record is not the one who lives in Kisi.
Gone == access.user # 0 /\ kuser # access.user

\* The job will delete this row, or is on the error list instead.
Owes(j, k) ==
    \/ /\ job[j].kind = "cancel" /\ Plan(j) = k[1]
       /\ \/ pc[j] \in {"queued", "lost", "dead", "resolve", "scan", "catch"}
          \/ pc[j] = "count" /\ \E d \in loc[j].todo : d.group = k[2]
          \/ pc[j] \in {"remove", "drop"} /\ \E d \in loc[j].todo \cup {loc[j].cur} : d.group = k[2]
          \/ pc[j] = "leave" /\ loc[j].out # "done"
    \/ /\ job[j].kind = "deleted"
       /\ \/ pc[j] \in {"queued", "lost", "dead", "resolve", "scan", "catch", "wipe", "complete"}
          \/ pc[j] = "leave" /\ loc[j].out # "done"

Owed(k) == \E j \in Jobs : Owes(j, k)
Good(k) == Has(k[2]) \/ Gone \/ Owed(k)

\* The rows that are to open their door, and what is so of each.
Open == {k \in Rows : src[k].status # "pending"}

Stands(k) == /\ src[k].status = "active"
             /\ k[1] \in Plans /\ k[2] \in DoorsOf[k[1]]
             /\ Good(k)

\* The door a grant has in its hands opens; whoever is about to become the user
\* on record takes over no row; nothing is read of a person nobody has seen.
OpenFit(j) ==
    /\ pc[j] \in {"assign", "record"} => \A d \in loc[j].got : Good(<<Plan(j), d.group>>)
    /\ pc[j] \in {"assign", "record"} => \A d \in loc[j].got : d.group \in DoorsOf[Plan(j)]
    /\ pc[j] = "cache" => \A k \in Open : Owed(k)
    /\ pc[j] \in {"purge", "cache"} => loc[j].user <= minted
    /\ pc[j] = "wipe" => job[j].kind = "deleted"
    /\ access.status = "none" /\ pc[j] \in Running => pc[j] \in {"resolve", "leave"}

OpenInv ==
    /\ \A j \in Jobs : OpenFit(j)
    /\ \A k \in Open : Stands(k)
    /\ access.status \in {"none", "deleted"} => Open = {}
    /\ access.user <= minted /\ kuser <= minted

NoFailure == \A j \in Jobs : job[j].kind # "payfail"

-----------------------------------------------------------------------------
(* What keeps a row standing.                                              *)

LEMMA GoodStays ==
    ASSUME NEW k, Has(k[2]) => Has(k[2])' \/ Gone' \/ Owed(k)', Gone => Gone', Owed(k) => Owed(k)'
    PROVE  Good(k) => Good(k)'
BY DEF Good

LEMMA OwedStays ==
    ASSUME NEW j \in Jobs, OnlyMoves(j), NEW k, Owes(j, k) => Owes(j, k)'
    PROVE  Owed(k) => Owed(k)'
<1>1. ASSUME NEW i \in Jobs \ {j} PROVE Owes(i, k)' = Owes(i, k)
  BY DEF OnlyMoves, Owes, Plan
<1> QED BY <1>1 DEF Owed

\* A grant owes nothing.
LEMMA GrantsOweNothing ==
    ASSUME NEW j \in Jobs, job[j].kind \in GrantKinds, OnlyMoves(j)
    PROVE  \A k : Owed(k) => Owed(k)'
<1>1. \A k : ~Owes(j, k)
  BY DEF Owes, GrantKinds
<1> QED BY <1>1, OwedStays

\* Where a run does not stand at these places nothing is asked of it.
LEMMA FitElsewhere ==
    ASSUME NEW j \in Jobs, pc'[j] \notin {"assign", "record", "purge", "cache", "wipe"},
           access'.status # "none" \/ pc'[j] \in {"resolve", "leave"} \/ pc'[j] \notin Running
    PROVE  OpenFit(j)'
BY DEF OpenFit

\* A step of a run is only about the run itself.
LEMMA OpenRun ==
    ASSUME OwnerInv, OpenInv, NEW j \in Jobs, pc[j] \in Running, OnlyMoves(j),
           OpenFit(j)', \A k \in Open' : Stands(k)',
           access'.status \in {"none", "deleted"} => Open' = {},
           access'.user <= minted', kuser' <= minted'
    PROVE  OpenInv'
<1>1. ASSUME NEW i \in Jobs \ {j} PROVE OpenFit(i)'
  <2>1. pc'[i] \notin Running
    BY AloneInRun
  <2> QED BY <2>1, FitElsewhere DEF Running, AtKisi, AtDb
<1> QED BY <1>1 DEF OpenInv

\* Steps that touch neither the rows nor what lives in Kisi.
LEMMA OpenQuiet ==
    ASSUME OwnerInv, OpenInv, NEW j \in Jobs, pc[j] \in Running, OnlyMoves(j),
           UNCHANGED <<src, kuser, kroles, minted>>, access'.user = access.user,
           access'.status \in {"none", "deleted"} => access'.status = access.status \/ Open = {},
           \A k \in Open : Owes(j, k) => Owes(j, k)',
           OpenFit(j)'
    PROVE  OpenInv'
<1>1. Open' = Open /\ \A k \in Open : src'[k] = src[k]
  BY DEF Open, Rows
<1>2. ASSUME NEW k \in Open PROVE Stands(k)'
  <2>1. (Has(k[2])' = Has(k[2])) /\ (Gone' = Gone)
    BY DEF Has, Gone
  <2>2. Good(k) => Good(k)'
    BY <2>1, GoodStays, OwedStays
  <2> QED BY <1>1, <2>2 DEF OpenInv, Stands
<1> QED BY <1>1, <1>2, OpenRun DEF OpenInv

-----------------------------------------------------------------------------
(* Grants.                                                                 *)

\* Up to the user.
LEMMA OpenBegin ==
    ASSUME OwnerInv, FinalInv, TrackInv, OpenInv, NEW j \in Jobs,
           job[j].kind \in GrantKinds, pc[j] \in Running, OnlyMoves(j),
           \/ SkipStarted(j) \/ ResolveGrant(j) \/ ParkUnmapped(j) \/ ParkIdentity(j)
           \/ IdentifyCached(j) \/ RollUp(j) \/ EndAssign(j)
    PROVE  OpenInv'
<1> USE DEF Goto, kisi
<1>0. /\ TypeOK /\ KindsFit /\ OpenFit(j) /\ FinalFit(j)
      /\ pc \in [Jobs -> Steps] /\ loc \in [Jobs -> Locals] /\ access \in AccessRow /\ minted \in Nat
  BY DEF OwnerInv, FinalInv, OpenInv, TypeOK
<1>1. \A k : ~Owes(j, k)
  BY DEF Owes, GrantKinds
<1>2. CASE SkipStarted(j)
  <2>1. UNCHANGED <<access, src, kuser, kroles, minted>> /\ pc'[j] = "leave"
    BY <1>0, <1>2 DEF SkipStarted
  <2> QED BY <1>1, <2>1, OpenQuiet, FitElsewhere
<1>3. CASE ParkUnmapped(j) \/ ParkIdentity(j) \/ RollUp(j)
  <2>1. /\ UNCHANGED <<src, kuser, kroles, minted>> /\ access'.user = access.user /\ pc'[j] = "leave"
        /\ access'.status \in {"inactive", "pending_identity", "active"}
    BY <1>0, <1>3, RollupType DEF ParkUnmapped, ParkIdentity, RollUp, AccessRow
  <2> QED BY <1>1, <2>1, OpenQuiet, FitElsewhere
<1>4. CASE ResolveGrant(j)
  <2>1. /\ UNCHANGED <<src, kuser, kroles, minted>> /\ pc'[j] \in {"park", "identify"}
        /\ access'.status = "in_flight"
        /\ access'.user = IF access.status = "deleted" THEN 0 ELSE access.user
    BY <1>0, <1>4 DEF ResolveGrant, AccessRow
  <2>2. OpenFit(j)'
    BY <2>1, FitElsewhere
  <2>3. CASE access.status = "deleted"
    <3>1. Open' = {}
      BY <2>1, <2>3 DEF OpenInv, Open, Rows
    <3> QED BY <1>0, <2>1, <2>2, <2>3, <3>1, OpenRun DEF OpenInv
  <2>4. CASE access.status # "deleted"
    BY <1>1, <2>1, <2>2, <2>4, OpenQuiet
  <2> QED BY <2>3, <2>4
<1>5. CASE IdentifyCached(j)
  <2>1. /\ UNCHANGED <<access, src, kuser, kroles, minted>> /\ pc[j] = "identify" /\ pc'[j] = "assign"
        /\ loc'[j].got = {}
    BY <1>0, <1>5 DEF IdentifyCached, ToAssign, Locals
  <2>2. OpenFit(j)'
    BY <1>0, <2>1 DEF OpenFit
  <2> QED BY <1>1, <2>1, <2>2, OpenQuiet
<1>6. CASE EndAssign(j)
  <2>1. /\ pc[j] = "assign" /\ UNCHANGED <<access, src, kuser, kroles, minted>>
        /\ \/ pc'[j] = "record" /\ loc'[j] = loc[j]
           \/ pc'[j] \in {"identify", "catch"}
    BY <1>0, <1>6 DEF EndAssign, Throw
  <2>2. access.status # "none"
    BY <1>0, <2>1 DEF OpenFit
  <2>3. OpenFit(j)'
    <3>1. CASE pc'[j] = "record" /\ loc'[j] = loc[j]
      <4>1. \A d \in loc[j].got : Good(<<Plan(j), d.group>>) /\ d.group \in DoorsOf[Plan(j)]
        BY <1>0, <2>1 DEF OpenFit
      <4>2. \A d \in loc[j].got : Good(<<Plan(j), d.group>>)'
        <5> SUFFICES ASSUME NEW d \in loc[j].got PROVE Good(<<Plan(j), d.group>>)'
          OBVIOUS
        <5> DEFINE k == <<Plan(j), d.group>>
        <5>1. k' = k
          BY DEF OnlyMoves, Plan
        <5>2. \A x : Has(x)' = Has(x) /\ Gone' = Gone
          BY <2>1 DEF Has, Gone
        <5>3. \A x : Owed(x) => Owed(x)'
          BY GrantsOweNothing
        <5>4. Good(k)
          BY <4>1
        <5> QED BY <5>1, <5>2, <5>3, <5>4 DEF Good
      <4>3. Plan(j)' = Plan(j)
        BY DEF OnlyMoves, Plan
      <4> QED BY <2>2, <2>1, <3>1, <4>1, <4>2, <4>3 DEF OpenFit
    <3>2. CASE pc'[j] \in {"identify", "catch"}
      BY <2>1, <2>2, <3>2, FitElsewhere
    <3> QED BY <2>1, <3>1, <3>2
  <2> QED BY <1>1, <2>1, <2>3, OpenQuiet
<1> QED BY <1>2, <1>3, <1>4, <1>5, <1>6

\* A user found or made: whoever was gone stays so, or no row is taken over.
LEMMA OpenUser ==
    ASSUME OwnerInv, FinalInv, TrackInv, OpenInv, NEW j \in Jobs,
           job[j].kind \in GrantKinds, pc[j] \in Running, OnlyMoves(j),
           NEW lost \in BOOLEAN, FindOrCreateUser(j, lost)
    PROVE  OpenInv'
<1>0. /\ TypeOK /\ OpenFit(j) /\ FinalFit(j)
      /\ loc[j] \in Locals /\ access \in AccessRow /\ minted \in Nat /\ kuser \in Nat
      /\ access.user \in Nat /\ access.user <= minted /\ kuser <= minted
      /\ kroles = {}
  BY NewUserNoRoles DEF OwnerInv, FinalInv, OpenInv, TypeOK, AccessRow, Ids, FindOrCreateUser
<1> DEFINE u == IF kuser # 0 THEN kuser ELSE NextId
<1>1. /\ pc[j] = "identify" /\ UNCHANGED <<access, src, kroles>> /\ kuser' = u
      /\ minted' = (IF kuser # 0 THEN minted ELSE NextId)
      /\ pc'[j] = (IF lost THEN "catch" ELSE IF access.user \in {0, u} THEN "cache" ELSE "purge")
      /\ ~lost => loc'[j] = [loc[j] EXCEPT !.user = u]
  BY <1>0, AnswerMoves DEF FindOrCreateUser
<1>2. /\ u \in Nat /\ minted' \in Nat /\ minted <= minted' /\ u <= minted'
      /\ kuser = 0 => u > access.user
      /\ kuser # 0 => u = kuser
  BY <1>0, <1>1 DEF NextId
<1> HIDE DEF u
<1>3. Gone => Gone' /\ access.user \notin {0, u}
  BY <1>0, <1>1, <1>2 DEF Gone
<1>4. \A k : Owed(k) => Owed(k)'
  BY GrantsOweNothing
<1>5. Open' = Open /\ \A k \in Open : src'[k] = src[k]
  BY <1>1 DEF Open, Rows
<1>6. ASSUME NEW k \in Open PROVE Stands(k)'
  <2>1. Good(k) => Good(k)'
    BY <1>0, <1>3, <1>4, GoodStays DEF Has
  <2> QED BY <1>5, <2>1 DEF OpenInv, Stands
<1>7. access.status # "none"
  BY <1>0, <1>1 DEF OpenFit
<1>8. OpenFit(j)'
  <2>1. CASE pc'[j] = "catch"
    BY <1>1, <1>7, <2>1, FitElsewhere
  <2>2. CASE pc'[j] \in {"cache", "purge"}
    <3>1. loc'[j].user = u
      BY <1>0, <1>1, <2>2 DEF Locals
    <3>2. ASSUME pc'[j] = "cache", NEW k \in Open' PROVE Owed(k)'
      <4>1. access.user \in {0, u}
        BY <1>1, <3>2
      <4>2. Good(k) /\ ~Has(k[2]) /\ ~Gone
        BY <1>0, <1>3, <1>5, <3>2, <4>1 DEF OpenInv, Stands, Has
      <4> QED BY <1>4, <4>2 DEF Good
    <3> QED BY <1>1, <1>2, <1>7, <2>2, <3>1, <3>2 DEF OpenFit
  <2> QED BY <1>1, <2>1, <2>2
<1>9. access'.user <= minted' /\ kuser' <= minted'
  BY <1>0, <1>1, <1>2
<1> QED BY <1>1, <1>5, <1>6, <1>8, <1>9, OpenRun DEF OpenInv

LEMMA OpenCache ==
    ASSUME OwnerInv, FinalInv, TrackInv, OpenInv, NEW j \in Jobs,
           job[j].kind \in GrantKinds, pc[j] \in Running, OnlyMoves(j),
           PurgeRows(j) \/ CacheUser(j)
    PROVE  OpenInv'
<1> USE DEF Goto, kisi
<1>0. /\ TypeOK /\ OpenFit(j) /\ FinalFit(j)
      /\ pc \in [Jobs -> Steps] /\ loc \in [Jobs -> Locals] /\ access \in AccessRow
      /\ kuser <= minted
  BY DEF OwnerInv, FinalInv, OpenInv, TypeOK
<1>1. access.status # "none"
  BY <1>0 DEF OpenFit, PurgeRows, CacheUser
<1>2. CASE PurgeRows(j)
  <2>1. /\ pc[j] = "purge" /\ pc'[j] = "cache" /\ UNCHANGED <<access, kuser, kroles, minted>>
        /\ loc'[j] = loc[j] /\ src' = [k \in Keys |-> NoRow]
    BY <1>0, <1>2 DEF PurgeRows
  <2>2. Open' = {}
    BY <2>1 DEF Open, Rows, NoRow
  <2>3. OpenFit(j)'
    BY <1>0, <1>1, <2>1, <2>2 DEF OpenFit
  <2> QED BY <1>0, <2>1, <2>2, <2>3, OpenRun DEF OpenInv
<1>3. CASE CacheUser(j)
  <2>1. /\ pc[j] = "cache" /\ pc'[j] = "assign" /\ UNCHANGED <<src, kuser, kroles, minted>>
        /\ access'.status = access.status /\ access'.user = loc[j].user
        /\ loc'[j].got = {}
    BY <1>0, <1>3 DEF CacheUser, AccessRow, ToAssign, Locals
  <2>2. Open' = Open /\ \A k \in Open : src'[k] = src[k]
    BY <2>1 DEF Open, Rows
  <2>3. \A k \in Open : Owed(k) /\ Owed(k)'
    BY <1>0, <2>1, GrantsOweNothing DEF OpenFit
  <2>4. \A k \in Open' : Stands(k)'
    BY <2>2, <2>3 DEF OpenInv, Stands, Good
  <2>5. OpenFit(j)' /\ access'.user <= minted'
    BY <1>0, <1>1, <2>1 DEF OpenFit
  <2> QED BY <1>0, <2>1, <2>2, <2>4, <2>5, OpenRun DEF OpenInv
<1> QED BY <1>2, <1>3

\* A role that is handed on from row to row stays within the plan.
LEMMA OpenReuse ==
    ASSUME DoorsApart, OwnerInv, FinalInv, TrackInv, OpenInv, NEW j \in Jobs,
           job[j].kind \in GrantKinds, pc[j] \in Running, OnlyMoves(j),
           NEW d \in loc[j].todo,
           ReuseRole(j, d) \/ UserGone(j, d) \/ DoorMissing(j, d)
    PROVE  OpenInv'
<1>0. /\ TypeOK /\ KindsFit /\ OpenFit(j) /\ RolesFit /\ GrantFit(j)
      /\ loc \in [Jobs -> Locals] /\ loc[j] \in Locals /\ d \in Door /\ src \in [Keys -> SourceRow]
  BY DEF OwnerInv, TrackInv, OpenInv, TypeOK, Locals
<1>1. /\ pc[j] = "assign" /\ pc' = pc /\ UNCHANGED <<access, src, kuser, kroles, minted, job>>
  BY DEF ReuseRole, UserGone, DoorMissing, kisi
<1>2. /\ \A x \in loc[j].got : Good(<<Plan(j), x.group>>) /\ x.group \in DoorsOf[Plan(j)]
      /\ d.group \in DoorsOf[Plan(j)] /\ Plan(j) \in Plans /\ access.status # "none"
  <2>1. Plan(j) \in Plans
    BY <1>0, <1>1 DEF KindsFit, GrantKinds, PlanKinds
  <2> QED BY <1>0, <1>1, <2>1, DoorsKnown DEF OpenFit, GrantFit
<1>3. \A x \in loc'[j].got : \/ \E y \in loc[j].got : x.group = y.group
                             \/ ReuseRole(j, d) /\ x.group = d.group
  <2>1. CASE ReuseRole(j, d)
    <3>1. PICK i \in Reusable(d.group) :
            loc' = [loc EXCEPT ![j].todo = @ \ {d}, ![j].got = @ \cup {[d EXCEPT !.role = i]}]
      BY <2>1 DEF ReuseRole
    <3>2. loc'[j].got = loc[j].got \cup {[d EXCEPT !.role = i]} /\ [d EXCEPT !.role = i].group = d.group
      BY <1>0, <3>1 DEF Locals, Door
    <3> QED BY <2>1, <3>2
  <2>2. CASE UserGone(j, d) \/ DoorMissing(j, d)
    <3>1. loc'[j].got = loc[j].got
      BY <1>0, <2>2 DEF UserGone, DoorMissing, MissDoor, Locals
    <3> QED BY <3>1
  <2> QED BY <2>1, <2>2
<1>4. ReuseRole(j, d) => Good(<<Plan(j), d.group>>)
  <2> SUFFICES ASSUME ReuseRole(j, d) PROVE Good(<<Plan(j), d.group>>)
    OBVIOUS
  <2>1. PICK k \in Rows : k[2] = d.group /\ src[k].role # 0
    BY DEF ReuseRole, Reusable
  <2>2. k \in Open /\ Stands(k)
    BY <1>0, <2>1 DEF RolesFit, RowsFit, Open, OpenInv
  <2>3. k[1] = Plan(j)
    BY <1>2, <2>1, <2>2 DEF DoorsApart, Stands
  <2>4. k = <<Plan(j), d.group>>
    BY <2>1, <2>3 DEF Rows, Keys
  <2> QED BY <2>2, <2>4 DEF Stands
<1>5. \A k : Good(k) => Good(k)'
  <2> SUFFICES ASSUME NEW k PROVE Good(k) => Good(k)'
    OBVIOUS
  <2>1. Has(k[2])' = Has(k[2]) /\ Gone' = Gone
    BY <1>1 DEF Has, Gone
  <2> QED BY <2>1, GrantsOweNothing, GoodStays
<1>6. OpenFit(j)'
  <2>1. Plan(j)' = Plan(j)
    BY <1>1 DEF Plan
  <2>2. \A x \in loc'[j].got : Good(<<Plan(j), x.group>>) /\ x.group \in DoorsOf[Plan(j)]
    BY <1>2, <1>3, <1>4
  <2>3. \A x \in loc'[j].got : Good(<<Plan(j), x.group>>)'
    BY <1>5, <2>1, <2>2
  <2> QED BY <1>1, <1>2, <2>1, <2>2, <2>3 DEF OpenFit
<1>7. \A k : ~Owes(j, k)
  BY DEF Owes, GrantKinds
<1> QED BY <1>1, <1>6, <1>7, OpenQuiet

\* assignRole: Kisi has the role from now on, whether or not it answers.
LEMMA OpenAssign ==
    ASSUME OwnerInv, FinalInv, TrackInv, OpenInv, NEW j \in Jobs,
           job[j].kind \in GrantKinds, pc[j] \in Running, OnlyMoves(j),
           NEW d \in loc[j].todo, NEW lost \in BOOLEAN, AssignRole(j, d, lost)
    PROVE  OpenInv'
<1>0. /\ TypeOK /\ OpenFit(j) /\ GrantFit(j)
      /\ access \in AccessRow /\ access.user \in Nat /\ minted \in Nat /\ kuser \in Nat
      /\ access.user <= minted /\ kuser <= minted
  BY DEF OwnerInv, TrackInv, OpenInv, TypeOK, AccessRow, Ids
<1>1. PICK new \in Door :
         /\ new.group = d.group
         /\ kroles' = kroles \cup {[id |-> new.role, user |-> kuser, group |-> d.group]}
         /\ ~lost => loc'[j].got = loc[j].got \cup {new}
  BY AssignGives
<1>2. /\ pc[j] = "assign" /\ UNCHANGED <<access, src, kuser, job>>
      /\ pc'[j] = (IF lost THEN "catch" ELSE "assign")
      /\ minted' \in {minted, NextId}
  BY <1>0, AnswerMoves DEF AssignRole
<1>3. access'.user <= minted' /\ kuser' <= minted'
  BY <1>0, <1>2 DEF NextId
<1>4. Has(d.group)' /\ \A k : Good(k) => Good(k)'
  <2>1. Has(d.group)' /\ \A g : Has(g) => Has(g)'
    BY <1>1 DEF Has
  <2>2. Gone' = Gone
    BY <1>2 DEF Gone
  <2> QED BY <2>1, <2>2, GrantsOweNothing, GoodStays
<1>5. /\ \A x \in loc[j].got : Good(<<Plan(j), x.group>>) /\ x.group \in DoorsOf[Plan(j)]
      /\ d.group \in DoorsOf[Plan(j)] /\ access.status # "none"
  BY <1>0, <1>2, DoorsKnown DEF OpenFit, GrantFit
<1>6. OpenFit(j)'
  <2>1. CASE lost
    BY <1>2, <1>5, <2>1, FitElsewhere
  <2>2. CASE ~lost
    <3>1. Plan(j)' = Plan(j)
      BY <1>2 DEF Plan
    <3>2. Good(<<Plan(j), d.group>>)'
      BY <1>4 DEF Good
    <3>3. \A x \in loc'[j].got : Good(<<Plan(j), x.group>>)' /\ x.group \in DoorsOf[Plan(j)]
      <4> SUFFICES ASSUME NEW x \in loc'[j].got
                   PROVE  Good(<<Plan(j), x.group>>)' /\ x.group \in DoorsOf[Plan(j)]
        OBVIOUS
      <4>1. CASE x = new
        BY <1>1, <1>5, <3>2, <4>1
      <4>2. CASE x \in loc[j].got
        BY <1>4, <1>5, <3>1, <4>2
      <4> QED BY <1>1, <2>2, <4>1, <4>2
    <3> QED BY <1>2, <1>5, <2>2, <3>1, <3>3 DEF OpenFit
  <2> QED BY <2>1, <2>2
<1>7. Open' = Open /\ \A k \in Open : src'[k] = src[k]
  BY <1>2 DEF Open, Rows
<1>8. \A k \in Open' : Stands(k)'
  BY <1>4, <1>7 DEF OpenInv, Stands
<1> QED BY <1>2, <1>3, <1>6, <1>7, <1>8, OpenRun DEF OpenInv

\* The rows a grant writes.
LEMMA OpenRecord ==
    ASSUME OwnerInv, FinalInv, TrackInv, OpenInv, NEW j \in Jobs,
           job[j].kind \in GrantKinds, pc[j] \in Running, OnlyMoves(j),
           NEW d \in loc[j].got, RecordRow(j, d)
    PROVE  OpenInv'
<1>0. /\ TypeOK /\ KindsFit /\ OpenFit(j) /\ FinalFit(j) /\ GrantFit(j)
      /\ pc \in [Jobs -> Steps] /\ loc \in [Jobs -> Locals] /\ loc[j] \in Locals /\ d \in Door
      /\ src \in [Keys -> SourceRow]
  BY DEF OwnerInv, FinalInv, TrackInv, OpenInv, TypeOK, Locals
<1>1. /\ pc[j] = "record" /\ UNCHANGED <<access, kuser, kroles, minted, job>>
      /\ pc'[j] \in {"record", "rollup"} /\ loc'[j].got = loc[j].got \ {d}
  BY <1>0 DEF RecordRow, Goto, Locals, kisi
<1>2. /\ \A x \in loc[j].got : Good(<<Plan(j), x.group>>) /\ x.group \in DoorsOf[Plan(j)]
      /\ Plan(j) \in Plans /\ d.group \in Groups /\ access.status \notin {"none", "deleted"}
  <2>1. Plan(j) \in Plans
    BY <1>0, <1>1 DEF KindsFit, GrantKinds, PlanKinds
  <2>2. "record" \in Running
    BY <1>1
  <2> QED BY <1>0, <1>1, <2>1, <2>2 DEF OpenFit, FinalFit, Door
<1> DEFINE key == <<Plan(j), d.group>>
<1>3. /\ key \in Keys /\ key[1] \in Plans /\ key[2] \in DoorsOf[key[1]] /\ Good(key)
      /\ src' = [src EXCEPT ![key] = [status |-> "active", role |-> d.role]]
  BY <1>2 DEF Keys, RecordRow
<1> HIDE DEF key
<1>4. \A k \in Open' : \/ k = key /\ src'[k].status = "active"
                       \/ k \in Open /\ src'[k] = src[k]
  <2> SUFFICES ASSUME NEW k \in Open', k # key PROVE k \in Open /\ src'[k] = src[k]
    BY <1>0, <1>3
  <2> QED BY <1>0, <1>3 DEF Open, Rows
<1>5. \A k : Good(k) => Good(k)'
  <2> SUFFICES ASSUME NEW k PROVE Good(k) => Good(k)'
    OBVIOUS
  <2>1. Has(k[2])' = Has(k[2]) /\ Gone' = Gone
    BY <1>1 DEF Has, Gone
  <2> QED BY <2>1, GrantsOweNothing, GoodStays
<1>6. \A k \in Open' : Stands(k)'
  BY <1>3, <1>4, <1>5 DEF OpenInv, Stands
<1>7. OpenFit(j)'
  <2>1. Plan(j)' = Plan(j)
    BY <1>1 DEF Plan
  <2>2. \A x \in loc'[j].got : Good(<<Plan(j), x.group>>)' /\ x.group \in DoorsOf[Plan(j)]
    BY <1>1, <1>2, <1>5, <2>1
  <2> QED BY <1>1, <1>2, <2>1, <2>2 DEF OpenFit
<1> QED BY <1>1, <1>2, <1>6, <1>7, OpenRun DEF OpenInv

\* The parks take a row away from those that are to open, if they change one.
LEMMA OpenPark ==
    ASSUME OwnerInv, FinalInv, TrackInv, OpenInv, NEW j \in Jobs,
           job[j].kind \in GrantKinds, pc[j] \in Running, OnlyMoves(j),
           pc[j] \in {"identify", "assign"}, WriteParkedRows(j)
    PROVE  OpenInv'
<1>0. /\ TypeOK /\ OpenFit(j) /\ pc \in [Jobs -> Steps]
  BY DEF OwnerInv, OpenInv, TypeOK
<1>1. /\ UNCHANGED <<access, kuser, kroles, minted>> /\ pc'[j] = "rollup"
  BY <1>0 DEF WriteParkedRows, Goto, kisi
<1>2. \A k \in Open' : k \in Open /\ src'[k] = src[k]
  BY DEF WriteParkedRows, Open, Rows
<1>3. ASSUME NEW k \in Open' PROVE Stands(k)'
  <2>1. Has(k[2])' = Has(k[2]) /\ Gone' = Gone
    BY <1>1 DEF Has, Gone
  <2>2. Good(k) => Good(k)'
    BY <2>1, GrantsOweNothing, GoodStays
  <2> QED BY <1>2, <2>2 DEF OpenInv, Stands
<1>4. access.status # "none"
  BY <1>0 DEF OpenFit
<1> QED BY <1>1, <1>2, <1>3, <1>4, FitElsewhere, OpenRun DEF OpenInv

LEMMA OpenGrant ==
    ASSUME DoorsApart, OwnerInv, FinalInv, TrackInv, OpenInv, NEW j \in Jobs, GrantStep(j)
    PROVE  OpenInv'
<1>1. job[j].kind \in GrantKinds /\ pc[j] \in Running /\ OnlyMoves(j)
  BY GrantMoves DEF OwnerInv
<1>2. ParkHardware(j) \/ ParkStart(j) => pc[j] \in {"identify", "assign"} /\ WriteParkedRows(j)
  BY DEF ParkHardware, ParkStart
<1> QED BY <1>1, <1>2, OpenBegin, OpenUser, OpenCache, OpenReuse, OpenAssign, OpenRecord, OpenPark
        DEF GrantStep

-----------------------------------------------------------------------------
(* Revokes.                                                                *)

\* The reads, and the steps that leave rows and Kisi as they are.
LEMMA OpenScan ==
    ASSUME OwnerInv, FinalInv, TrackInv, StatusInv, OpenInv, NEW j \in Jobs,
           pc[j] \in Running, OnlyMoves(j),
           \/ SkipUnknown(j) \/ ResolveRevoke(j) \/ Scan(j) \/ CountedAll(j) \/ RefuseNullRole(j)
           \/ \E d \in loc[j].todo : Count(j, d)
    PROVE  OpenInv'
<1> USE DEF Goto, kisi
<1>0. /\ TypeOK /\ KindsFit /\ OpenFit(j)
      /\ pc \in [Jobs -> Steps] /\ loc \in [Jobs -> Locals] /\ loc[j] \in Locals
      /\ access \in AccessRow /\ job[j].kind \in AllKinds
  BY DEF OwnerInv, OpenInv, TypeOK, Job
<1>1. UNCHANGED <<src, kuser, kroles, minted, job>> /\ access'.user = access.user
  BY <1>0 DEF SkipUnknown, ResolveRevoke, Scan, CountedAll, RefuseNullRole, Throw, Count, AccessRow
<1>2. Plan(j)' = Plan(j)
  BY <1>1 DEF Plan
<1>3. access.status = "none" => pc[j] \in {"resolve", "leave"}
  BY <1>0 DEF OpenFit
<1>4. CASE SkipUnknown(j)
  <2>1. /\ access' = access /\ pc'[j] = "leave" /\ ~Findable
    BY <1>0, <1>4 DEF SkipUnknown
  <2>2. Open = {}
    <3> SUFFICES ASSUME NEW k \in Open PROVE FALSE
      OBVIOUS
    <3>1. k \in Keys /\ src[k].status = "active" /\ access.status \notin {"none", "deleted"}
      BY DEF OpenInv, Stands, Open, Rows
    <3> QED BY <2>1, <3>1 DEF Findable
  <2> QED BY <1>1, <2>1, <2>2, FitElsewhere, OpenQuiet
<1>5. CASE ResolveRevoke(j)
  <2>1. /\ access'.status = "in_flight"
        /\ pc'[j] \in {"complete", "suspend", "enable", "scan"}
        /\ pc'[j] # "scan" => job[j].kind \in {"payfail", "recovered"}
    BY <1>0, <1>5 DEF ResolveRevoke, AccessRow
  <2>2. \A k : Owes(j, k) => Owes(j, k)'
    BY <1>1, <1>2, <2>1 DEF Owes
  <2> QED BY <1>1, <2>1, <2>2, FitElsewhere, OpenQuiet
<1>6. CASE Scan(j)
  <2>1. /\ access' = access /\ pc[j] = "scan"
        /\ \/ job[j].kind \in CancelKinds /\ loc'[j].todo = Held(Rows) /\ pc'[j] = "count"
           \/ job[j].kind = "deleted" /\ pc'[j] = "wipe"
    BY <1>0, <1>6 DEF Scan, Locals
  <2>2. ASSUME NEW k \in Open, Owes(j, k) PROVE Owes(j, k)'
    <3>1. [group |-> k[2], role |-> src[k].role] \in Held(Rows)
      BY DEF Held, Open
    <3>2. \E d \in Held(Rows) : d.group = k[2]
      BY <3>1
    <3> QED BY <1>1, <1>2, <2>1, <2>2, <3>2 DEF Owes, CancelKinds
  <2>3. OpenFit(j)'
    BY <1>1, <1>3, <2>1 DEF OpenFit
  <2> QED BY <1>1, <2>1, <2>2, <2>3, OpenQuiet
<1>7. CASE CountedAll(j)
  <2>1. access' = access /\ pc[j] \in {"count", "wipe"} /\ pc'[j] = "complete" /\ loc[j].todo = {}
    BY <1>0, <1>7 DEF CountedAll
  <2>2. \A k : Owes(j, k) => Owes(j, k)'
    BY <1>1, <2>1 DEF Owes
  <2> QED BY <1>1, <1>3, <2>1, <2>2, FitElsewhere, OpenQuiet
<1>8. CASE RefuseNullRole(j)
  <2>1. access' = access /\ pc[j] = "remove" /\ pc'[j] = "catch"
    BY <1>0, <1>8 DEF RefuseNullRole, Throw
  <2>2. \A k : Owes(j, k) => Owes(j, k)'
    BY <1>1, <1>2, <2>1 DEF Owes
  <2> QED BY <1>1, <1>3, <2>1, <2>2, FitElsewhere, OpenQuiet
<1>9. ASSUME NEW d \in loc[j].todo, Count(j, d) PROVE OpenInv'
  <2>1. /\ access' = access /\ pc[j] = "count" /\ pc'[j] \in {"drop", "remove"}
        /\ loc'[j].todo = loc[j].todo
    BY <1>0, <1>9 DEF Count, Locals
  <2>2. \A k : Owes(j, k) => Owes(j, k)'
    BY <1>1, <1>2, <2>1 DEF Owes
  <2> QED BY <1>1, <1>3, <2>1, <2>2, FitElsewhere, OpenQuiet
<1> QED BY <1>4, <1>5, <1>6, <1>7, <1>8, <1>9

\* removeRole: the doors of other plans keep their roles, and whoever takes
\* this one off still owes its row.
LEMMA OpenRemove ==
    ASSUME IInv, OwnerInv, FinalInv, FreshFit, TrackInv, OpenInv, NEW j \in Jobs,
           pc[j] \in Running, OnlyMoves(j), NEW lost \in BOOLEAN,
           RemoveRole(j, lost) \/ \E d \in loc[j].todo : WipeRole(j, d, lost)
    PROVE  OpenInv'
<1>0. /\ TypeOK /\ KindsFit /\ OpenFit(j) /\ RolesFit
      /\ loc \in [Jobs -> Locals] /\ loc[j] \in Locals /\ kroles \in SUBSET Role
      /\ kuser \in Nat /\ minted \in Nat
  BY DEF OwnerInv, TrackInv, OpenInv, TypeOK, Ids
<1>1. UNCHANGED <<access, src, kuser, minted, job>> /\ kroles' \subseteq kroles
  BY DEF RemoveRole, WipeRole
<1>2. access.status # "none" /\ Plan(j)' = Plan(j)
  BY <1>0, <1>1 DEF OpenFit, RemoveRole, WipeRole, Plan
<1>3. Open' = Open /\ (\A k \in Open : src'[k] = src[k]) /\ Gone' = Gone
  BY <1>1 DEF Open, Rows, Gone
<1>4. CASE RemoveRole(j, lost)
  <2>1. /\ pc[j] = "remove" /\ pc'[j] = (IF lost THEN "catch" ELSE "drop")
        /\ ~lost => loc'[j] = loc[j]
        /\ kroles' = {r \in kroles : r.id # loc[j].cur.role}
        /\ loc[j].cur.role # 0
    BY <1>0, <1>4, AnswerMoves DEF RemoveRole
  <2>2. OpenFit(j)'
    BY <1>1, <1>2, <2>1, FitElsewhere
  <2>3. \A k : Owes(j, k) => Owes(j, k)'
    BY <1>1, <1>2, <2>1 DEF Owes
  \* What goes is the role of this door only.
  <2>4. ASSUME NEW r \in kroles, r \notin kroles' PROVE r.group = loc[j].cur.group
    <3>1. r.id = loc[j].cur.role /\ r.group \in Groups /\ r.id \in Nat /\ r.id # 0
      BY <1>0, <2>1, <2>4 DEF Role, Ids
    <3>2. loc[j].cur \in Door
      BY <1>0, <2>1 DEF Locals, NoDoor
    <3>3. r.id <= minted
      BY DEF IInv, IdsIssued
    <3>4. r.id \in 1 .. minted /\ loc[j].cur.group \in Groups
      BY <1>0, <3>1, <3>2, <3>3 DEF Door
    <3>5. Ref(r.id, r.group) /\ Ref(r.id, loc[j].cur.group)
      BY <3>1 DEF Ref
    <3> QED BY <3>1, <3>4, <3>5 DEF IInv, IdsAgree
  <2>5. ASSUME NEW k \in Open, k[2] = loc[j].cur.group PROVE Owes(j, k)'
    <3>1. Remaining(Plan(j), k[2]) = {}
      BY <2>1, <2>5 DEF IInv, CountStands
    <3>2. k[1] = Plan(j) /\ k[1] \in Plans
      BY <3>1 DEF Remaining, Open, OpenInv, Stands
    <3>3. job[j].kind = "cancel"
      <4>1. job[j].kind \in CancelKinds /\ Plan(j) \in Plans
        BY <1>0, <2>1, <3>2 DEF KindsFit, CancelAt
      <4> QED BY <4>1, ConstantsAssumption DEF CancelKinds, FreshFit, PlanKinds
    <3> QED BY <1>1, <1>2, <2>1, <2>5, <3>2, <3>3 DEF Owes
  <2>6. ASSUME NEW k \in Open PROVE Stands(k)'
    <3>1. CASE k[2] = loc[j].cur.group
      BY <1>3, <2>5, <3>1 DEF OpenInv, Stands, Good, Owed
    <3>2. CASE k[2] # loc[j].cur.group
      <4>1. Has(k[2]) => Has(k[2])'
        BY <2>4, <3>2 DEF Has
      <4> QED BY <1>3, <2>3, <4>1, OwedStays, GoodStays DEF OpenInv, Stands
    <3> QED BY <3>1, <3>2
  <2> QED BY <1>1, <1>3, <2>2, <2>6, OpenRun DEF OpenInv
<1>5. ASSUME NEW d \in loc[j].todo, WipeRole(j, d, lost) PROVE OpenInv'
  <2>1. /\ pc[j] = "wipe" /\ pc'[j] \in {"wipe", "catch"}
        /\ job[j].kind = "deleted"
    BY <1>0, <1>5, AnswerMoves DEF WipeRole, OpenFit
  <2>2. OpenFit(j)'
    BY <1>1, <1>2, <2>1 DEF OpenFit
  <2>3. \A k : Owes(j, k)'
    BY <1>1, <2>1 DEF Owes
  <2>4. \A k \in Open : Stands(k)'
    BY <1>3, <2>3 DEF OpenInv, Stands, Good, Owed
  <2> QED BY <1>1, <1>3, <2>2, <2>4, OpenRun DEF OpenInv
<1> QED BY <1>4, <1>5

\* deleteSourceRow: the row it owed is gone, the others it still owes.
LEMMA OpenDrop ==
    ASSUME OwnerInv, OpenInv, NEW j \in Jobs, pc[j] \in Running, OnlyMoves(j), DropRow(j)
    PROVE  OpenInv'
<1>0. /\ TypeOK /\ OpenFit(j) /\ pc \in [Jobs -> Steps] /\ loc \in [Jobs -> Locals] /\ loc[j] \in Locals
  BY DEF OwnerInv, OpenInv, TypeOK
<1> DEFINE key == <<Plan(j), loc[j].cur.group>>
<1>1. /\ pc[j] = "drop" /\ pc'[j] = "count" /\ UNCHANGED <<access, kuser, kroles, minted, job>>
      /\ loc'[j].todo = loc[j].todo \ {loc[j].cur}
      /\ src' = [k \in Keys |-> IF k = key THEN NoRow ELSE src[k]]
  BY <1>0 DEF DropRow, Goto, kisi, Locals
<1>2. \A k \in Open' : k \in Open /\ k \in Keys /\ k # key /\ src'[k] = src[k]
  BY <1>1 DEF Open, Rows, NoRow
<1>3. access.status # "none" /\ Plan(j)' = Plan(j)
  BY <1>0, <1>1 DEF OpenFit, Plan
<1>4. OpenFit(j)'
  BY <1>1, <1>3, FitElsewhere
<1>5. ASSUME NEW k \in Open', Owes(j, k) PROVE Owes(j, k)'
  <2>1. k = <<k[1], k[2]>>
    BY <1>2 DEF Keys
  <2>2. ~(k[1] = Plan(j) /\ k[2] = loc[j].cur.group)
    BY <1>2, <2>1
  <2> QED BY <1>1, <1>3, <1>5, <2>2 DEF Owes
<1> HIDE DEF key
<1>6. ASSUME NEW k \in Open' PROVE Stands(k)'
  <2>1. Has(k[2])' = Has(k[2]) /\ Gone' = Gone
    BY <1>1 DEF Has, Gone
  <2>2. Good(k) => Good(k)'
    BY <1>5, <2>1, OwedStays, GoodStays
  <2> QED BY <1>2, <2>2 DEF OpenInv, Stands
<1> QED BY <1>1, <1>2, <1>4, <1>6, OpenRun DEF OpenInv

\* The end: the last transaction, the finalize, the user.
LEMMA OpenFinish ==
    ASSUME OwnerInv, FinalInv, TrackInv, StatusInv, NoFailure, OpenInv, NEW j \in Jobs,
           pc[j] \in Running, OnlyMoves(j),
           \/ SetEnabled(j, FALSE) \/ SetEnabledGone(j) \/ CompleteRevoke(j)
           \/ Finalize(j) \/ KeepForeignUser(j) \/ MarkDeleted(j)
    PROVE  OpenInv'
<1> USE DEF Goto, kisi
<1>0. /\ TypeOK /\ KindsFit /\ OpenFit(j) /\ FinalFit(j) /\ StatusFit(j)
      /\ pc \in [Jobs -> Steps] /\ access \in AccessRow /\ job[j].kind \in AllKinds
      /\ src \in [Keys -> SourceRow]
  BY DEF OwnerInv, FinalInv, StatusInv, OpenInv, TypeOK, Job
<1>1. access.status = "none" => pc[j] \in {"resolve", "leave"}
  BY <1>0 DEF OpenFit
<1>2. CASE SetEnabled(j, FALSE) \/ SetEnabledGone(j)
  <2>1. /\ pc[j] \in {"suspend", "enable"} /\ pc'[j] \in {"complete", "catch"}
        /\ UNCHANGED <<access, src, kuser, kroles, minted>>
    BY <1>0, <1>2, AnswerMoves DEF SetEnabled, SetEnabledGone, Throw
  <2>2. \A k : ~Owes(j, k)
    BY <2>1 DEF Owes
  <2> QED BY <1>1, <2>1, <2>2, FitElsewhere, OpenQuiet
<1>3. CASE Finalize(j) \/ KeepForeignUser(j)
  <2>1. /\ pc[j] \in {"finalize", "delete"} /\ pc'[j] \in {"leave", "mark", "delete"}
        /\ UNCHANGED <<access, src, kuser, kroles, minted>>
    BY <1>0, <1>3 DEF Finalize, KeepForeignUser
  <2>2. \A k : ~Owes(j, k)
    BY <2>1 DEF Owes
  <2> QED BY <1>1, <2>1, <2>2, FitElsewhere, OpenQuiet
<1>4. CASE MarkDeleted(j)
  <2>1. /\ pc[j] = "mark" /\ pc'[j] = "leave" /\ UNCHANGED <<src, kuser, kroles, minted>>
        /\ access'.user = access.user
    BY <1>0, <1>4 DEF MarkDeleted, AccessRow
  <2>2. RollupOf(src) = "inactive"
    BY <1>0, <2>1 DEF FinalFit, StatusFit
  <2>3. Open = {}
    BY <2>2 DEF RollupOf, OpenInv, Stands, Open, Rows
  <2> QED BY <2>1, <2>3, FitElsewhere, OpenQuiet
<1>5. CASE CompleteRevoke(j)
  <2>1. /\ pc[j] = "complete" /\ pc'[j] \in {"leave", "finalize"} /\ UNCHANGED <<kuser, kroles, minted, job>>
        /\ src' = RowsAfter(job[j].kind) /\ access'.user = access.user
        /\ access'.status \in {"active", "inactive"}
    BY <1>0, <1>5, RollupType DEF CompleteRevoke, AccessRow
  <2>2. job[j].kind \in CancelKinds \cup {"deleted", "recovered"}
    BY <1>0, <2>1 DEF KindsFit, RevokeAt, GrantKinds, CancelKinds, AllKinds, NoFailure
  <2>3. ASSUME NEW k \in Open' PROVE k \in Open /\ src'[k] = src[k] /\ job[j].kind # "deleted"
    <3>1. CASE job[j].kind = "deleted"
      BY <2>1, <3>1 DEF RowsAfter, CancelKinds, Open, Rows, NoRow
    <3>2. CASE job[j].kind \in CancelKinds
      BY <2>1, <3>2 DEF RowsAfter, CancelKinds, Open, Rows
    <3>3. CASE job[j].kind = "recovered"
      <4>1. k \in Keys /\ src'[k] = IF src[k].status = "failed" THEN [src[k] EXCEPT !.status = "active"] ELSE src[k]
        BY <2>1, <3>3 DEF RowsAfter, CancelKinds, Open, Rows
      <4>2. src[k].status = "failed" => k \in Open
        BY <4>1 DEF Open, Rows
      <4>3. src[k].status # "failed"
        BY <4>2 DEF OpenInv, Stands
      <4> QED BY <3>3, <4>1, <4>3 DEF Open, Rows
    <3> QED BY <2>2, <3>1, <3>2, <3>3
  <2>4. ASSUME NEW k \in Open' PROVE Stands(k)'
    <3>1. ~Owes(j, k)
      BY <2>1, <2>3 DEF Owes
    <3>2. Has(k[2])' = Has(k[2]) /\ Gone' = Gone
      BY <2>1 DEF Has, Gone
    <3>3. Good(k) => Good(k)'
      BY <3>1, <3>2, OwedStays, GoodStays
    <3> QED BY <2>3, <3>3 DEF OpenInv, Stands
  <2> QED BY <2>1, <2>4, FitElsewhere, OpenRun DEF OpenInv
<1> QED BY <1>2, <1>3, <1>4, <1>5

\* deleteUser: whose roles go is from now on gone.
LEMMA OpenDelete ==
    ASSUME OwnerInv, FinalInv, TrackInv, OpenInv, NEW j \in Jobs,
           pc[j] \in Running, OnlyMoves(j), NEW lost \in BOOLEAN, DeleteUser(j, lost)
    PROVE  OpenInv'
<1>0. /\ TypeOK /\ OpenFit(j) /\ FinalFit(j) /\ RolesFit
      /\ minted \in Nat /\ kuser \in Nat /\ kuser <= minted
  BY DEF OwnerInv, FinalInv, TrackInv, OpenInv, TypeOK, Ids
<1>1. /\ pc[j] = "delete" /\ pc'[j] \in {"mark", "catch"} /\ UNCHANGED <<access, src, minted>>
      /\ kuser' = (IF kuser = loc[j].user THEN 0 ELSE kuser)
      /\ kroles' = kroles \ RolesOf(loc[j].user)
  BY <1>0, AnswerMoves DEF DeleteUser
<1>2. access.status # "none" /\ loc[j].user = access.user
  BY <1>0, <1>1 DEF OpenFit, FinalFit, RevokeAt
<1>3. Gone => Gone'
  BY <1>1 DEF Gone
<1>4. \A g : Has(g) => Has(g)' \/ Gone'
  BY <1>0, <1>1, <1>2 DEF Has, Gone, RolesFit, RolesOf
<1>5. \A k : ~Owes(j, k)
  BY <1>1 DEF Owes
<1>6. Open' = Open /\ \A k \in Open : src'[k] = src[k]
  BY <1>1 DEF Open, Rows
<1>7. ASSUME NEW k \in Open PROVE Stands(k)'
  <2>1. Good(k) => Good(k)'
    BY <1>3, <1>4, <1>5, OwedStays, GoodStays
  <2> QED BY <1>6, <2>1 DEF OpenInv, Stands
<1>8. kuser' <= minted'
  BY <1>0, <1>1
<1> QED BY <1>1, <1>2, <1>6, <1>7, <1>8, FitElsewhere, OpenRun DEF OpenInv

LEMMA OpenRevoke ==
    ASSUME IInv, OwnerInv, FinalInv, FreshFit, TrackInv, StatusInv, NoFailure, OpenInv,
           NEW j \in Jobs, RevokeStep(j)
    PROVE  OpenInv'
<1>1. pc[j] \in Running /\ OnlyMoves(j)
  BY RevokeMoves DEF OwnerInv
<1> QED BY <1>1, OpenScan, OpenRemove, OpenDrop, OpenFinish, OpenDelete DEF RevokeStep

-----------------------------------------------------------------------------
(* Faults, the queue, and the world.                                       *)

LEMMA OpenFault ==
    ASSUME DoorsApart, IInv, OwnerInv, FinalInv, FreshFit, TrackInv, OpenInv,
           NEW j \in Jobs, FaultStep(j)
    PROVE  OpenInv'
<1> USE DEF Goto, kisi
<1>0. /\ TypeOK /\ KindsFit /\ OpenFit(j)
      /\ pc \in [Jobs -> Steps] /\ loc \in [Jobs -> Locals]
      /\ pc[j] \in Running /\ OnlyMoves(j)
      /\ pc[j] \in {"identify", "assign"} => job[j].kind \in GrantKinds
  BY FaultMoves DEF OwnerInv, OpenInv, TypeOK, KindsFit, GrantAt
<1>1. access.status = "none" => pc[j] \in {"resolve", "leave"}
  BY <1>0 DEF OpenFit
<1>2. CASE FindOrCreateUser(j, TRUE)
  BY <1>0, <1>2, OpenUser DEF FindOrCreateUser
<1>3. ASSUME NEW d \in loc[j].todo, AssignRole(j, d, TRUE) \/ DoorMissing(j, d) PROVE OpenInv'
  BY <1>0, <1>3, OpenAssign, OpenReuse DEF AssignRole, DoorMissing
<1>4. CASE RemoveRole(j, TRUE) \/ \E d \in loc[j].todo : WipeRole(j, d, TRUE)
  BY <1>0, <1>4, OpenRemove
<1>5. CASE DeleteUser(j, TRUE)
  BY <1>0, <1>5, OpenDelete
\* Whatever it owed it owes still.
<1>6. CASE SetEnabled(j, TRUE) \/ (\E out \in {"retry", "dead"} : Fail(j, out)) \/ CatchFails(j) \/ Crash(j)
  <2>1. UNCHANGED <<access, src, kuser, kroles, minted>>
    BY <1>6 DEF SetEnabled, Fail, CatchFails, Crash
  <2>2. \/ pc'[j] \in {"catch", "lost"}
        \/ pc'[j] = "leave" /\ loc'[j].out # "done"
    BY <1>6, FaultWrites, AnswerMoves, <1>0 DEF SetEnabled, Fail, CatchFails, Crash
  <2>3. \A k : Owes(j, k) => Owes(j, k)'
    BY <1>0, <2>2 DEF Owes, OnlyMoves, Plan
  <2>4. OpenFit(j)'
    <3>1. pc'[j] = "catch" => pc[j] \notin {"resolve", "leave"}
      BY <1>0, <1>6, FaultWrites
    <3>2. "lost" \notin Running
      BY RunningNames DEF Resting
    <3> QED BY <1>1, <2>1, <2>2, <3>1, <3>2, FitElsewhere
  <2> QED BY <1>0, <2>1, <2>3, <2>4, OpenQuiet
<1> QED BY <1>2, <1>3, <1>4, <1>5, <1>6 DEF FaultStep

LEMMA OpenEnv ==
    ASSUME OwnerInv, OpenInv, NEW j \in Jobs, EnvStep(j)
    PROVE  OpenInv'
<1>0. TypeOK /\ OwnersFit /\ \A i \in Jobs : OpenFit(i)
  BY DEF OwnerInv, OpenInv
<1>1. /\ UNCHANGED <<src, kuser, kroles, minted>> /\ access'.user = access.user
      /\ access'.status \in {access.status, "active", "inactive", "removing"}
      /\ \A i \in Jobs \ {j} : pc'[i] = pc[i] /\ loc'[i] = loc[i] /\ job'[i] = job[i]
      /\ QueueMoves(j)
  BY <1>0, EnvMoves DEF kisi
<1>2. ASSUME NEW i \in Jobs, NEW k, Owes(i, k) PROVE Owes(i, k)'
  <2>1. CASE i # j
    BY <1>1, <1>2, <2>1 DEF Owes, Plan
  <2>2. CASE i = j
    <3>1. pc[j] # "absent"
      BY <1>2, <2>2 DEF Owes
    <3>2. job'[j].kind = job[j].kind /\ Plan(j)' = Plan(j)
      BY <1>1, <3>1 DEF QueueMoves, Plan
    <3>3. pc[j] = "catch" => loc[j].out # "done"
      BY <1>0 DEF OwnersFit
    <3> QED BY <1>1, <1>2, <2>2, <3>1, <3>2, <3>3 DEF QueueMoves, Owes
  <2> QED BY <2>1, <2>2
<1>3. ASSUME NEW k PROVE Good(k) => Good(k)'
  <2>1. Has(k[2])' = Has(k[2]) /\ Gone' = Gone /\ (Owed(k) => Owed(k)')
    BY <1>1, <1>2 DEF Has, Gone, Owed
  <2> QED BY <2>1, GoodStays
<1>4. Open' = Open /\ \A k \in Open : src'[k] = src[k]
  BY <1>1 DEF Open, Rows
<1>5. \A k \in Open' : Stands(k)'
  BY <1>3, <1>4 DEF OpenInv, Stands
<1>6. ASSUME NEW i \in Jobs PROVE OpenFit(i)'
  <2>1. CASE pc'[i] = pc[i] /\ loc'[i] = loc[i] /\ job'[i].kind = job[i].kind /\ Plan(i)' = Plan(i)
    <3>1. \A d \in loc[i].got : Good(<<Plan(i), d.group>>) => Good(<<Plan(i), d.group>>)'
      BY <1>3, <2>1
    <3>2. \A k \in Open : Owed(k) => Owed(k)'
      BY <1>2 DEF Owed
    <3> QED BY <1>0, <1>1, <1>4, <2>1, <3>1, <3>2 DEF OpenFit
  <2>2. CASE i = j /\ pc'[j] \in Resting \cup {"resolve", "leave"}
    BY <2>2, RunningNames, FitElsewhere DEF Resting
  <2> QED BY <1>1, <2>1, <2>2 DEF QueueMoves, Resting, Plan
<1> QED BY <1>1, <1>4, <1>5, <1>6 DEF OpenInv

LEMMA OpenNext ==
    ASSUME DoorsApart, IInv, OwnerInv, FinalInv, FreshFit, TrackInv, StatusInv, NoFailure, OpenInv,
           [Next]_vars
    PROVE  OpenInv'
<1>1. ASSUME NEW j \in Jobs, EnvStep(j) \/ GrantStep(j) \/ RevokeStep(j) \/ FaultStep(j)
      PROVE  OpenInv'
  BY <1>1, OpenEnv, OpenGrant, OpenRevoke, OpenFault
<1>0. access \in AccessRow /\ minted \in Nat /\ kuser \in Nat /\ RolesFit
  BY DEF OwnerInv, TypeOK, TrackInv, Ids
<1>2. ASSUME UNCHANGED <<src, kroles, kuser, minted, pc, loc, job>>, access'.user = access.user,
             access'.status \in {access.status, "recovery_pending"}
      PROVE  OpenInv'
  <2>1. /\ Open' = Open /\ Gone' = Gone /\ (\A g : Has(g)' = Has(g))
        /\ \A i \in Jobs : Plan(i)' = Plan(i) /\ \A k : Owes(i, k)' = Owes(i, k)
    BY <1>2 DEF Open, Rows, Gone, Has, Plan, Owes
  <2>2. \A k : (Good(k)' = Good(k)) /\ (Owed(k)' = Owed(k))
    BY <2>1 DEF Good, Owed
  <2>3. \A k \in Open' : Stands(k)'
    BY <1>2, <2>1, <2>2 DEF Stands, OpenInv
  <2>4. ASSUME NEW i \in Jobs PROVE OpenFit(i)'
    BY <1>2, <2>1, <2>2 DEF OpenFit, OpenInv
  <2> QED BY <1>2, <2>1, <2>3, <2>4 DEF OpenInv
<1>3. CASE ReleaseStaleLocks
  BY <1>0, <1>2, <1>3 DEF ReleaseStaleLocks, kisi, AccessRow
<1>4. CASE UNCHANGED vars
  BY <1>2, <1>4 DEF vars
\* Whoever deletes the user: what had a role is gone.
<1>5. CASE StaffDeletesUser
  <2>1. /\ UNCHANGED <<access, src, minted, pc, loc, job>> /\ kuser' = 0 /\ kuser # 0
        /\ kroles # {} => access.user = kuser
    BY <1>0, <1>5 DEF StaffDeletesUser, RolesFit
  <2>2. \A k : Owed(k)' = Owed(k)
    BY <2>1 DEF Owed, Owes, Plan
  <2>3. \A k : Good(k) => Good(k)'
    BY <2>1, <2>2 DEF Good, Has, Gone
  <2>4. Open' = Open /\ \A i \in Jobs : Plan(i)' = Plan(i)
    BY <2>1 DEF Open, Rows, Plan
  <2>5. \A k \in Open' : Stands(k)'
    BY <2>1, <2>3, <2>4 DEF Stands, OpenInv
  <2>6. ASSUME NEW i \in Jobs PROVE OpenFit(i)'
    <3>1. \A d \in loc[i].got : Good(<<Plan(i), d.group>>) => Good(<<Plan(i), d.group>>)'
      BY <2>3, <2>4
    <3> QED BY <2>1, <2>2, <2>4, <3>1 DEF OpenFit, OpenInv
  <2> QED BY <1>0, <2>1, <2>4, <2>5, <2>6 DEF OpenInv
<1> QED BY <1>1, <1>3, <1>4, <1>5, NextCases

-----------------------------------------------------------------------------
(* The theorem.                                                            *)

LEMMA OpenInit == Init => OpenInv /\ NoFailure
<1> SUFFICES ASSUME Init PROVE OpenInv /\ NoFailure
  OBVIOUS
<1>1. /\ Open = {} /\ access.user = 0 /\ kuser <= minted /\ access.user <= minted
      /\ \A j \in Jobs : pc[j] = "absent" /\ job[j].kind = "purchase"
  BY DEF Init, Open, Rows, NoRow
<1>2. "absent" \notin Running
  BY RunningNames DEF Resting
<1> QED BY <1>1, <1>2 DEF OpenInv, OpenFit, NoFailure

\* With every job done nobody owes a row, so a row that is to open has its role.
LEMMA RowsOpen == TrackInv /\ OpenInv => ActiveRowsOpen
<1> SUFFICES ASSUME TrackInv, OpenInv, Settled, kuser = access.user,
                    NEW k \in Keys, src[k].status = "active"
             PROVE  \E r \in RolesOf(kuser) : r.id = src[k].role /\ r.group = k[2]
  BY DEF ActiveRowsOpen
<1>1. k \in Rows /\ k \in Open
  BY DEF Open, Rows
<1>2. ~Gone /\ ~Owed(k)
  BY DEF Gone, Owed, Owes, Settled
<1>3. PICK r \in kroles : r.group = k[2]
  BY <1>1, <1>2 DEF OpenInv, Stands, Good, Has
<1>4. r.user = kuser /\ r.id = src[k].role
  BY <1>1, <1>3 DEF TrackInv, RolesFit, RowsFit
<1> QED BY <1>3, <1>4 DEF RolesOf

\* With every job done, a row that says active opens its door as long as the
\* person's Kisi user is the one on record, the status is the rollup of the
\* rows, and every role is on a row (processGrant, processRevoke,
\* rollupAccessStatus): whatever failed, crashed or was parked, and whoever
\* deleted the user in Kisi, as long as no two plans open the same door and
\* nothing is paused.
THEOREM RowsAreKept ==
  ASSUME DoorsApart, NothingPauses, ParksAreFollowed
  PROVE  Spec => []RowsAreTrue
<1> DEFINE Base == /\ IInv /\ OwnerInv /\ FinalInv /\ FreshFit /\ ParkedFit /\ TrackInv
                   /\ NoFailure
           Sound == Base /\ (Mapped => StatusInv /\ OpenInv)
<1>1. Init => Sound
  BY IInvInit, OwnersAlways, RecordsInit, OpenInit
<1>2. Sound /\ [Next]_vars => Sound'
  <2> SUFFICES ASSUME Sound, [Next]_vars PROVE Sound'
    OBVIOUS
  <2>1. NoFailure'
    BY KindsCome DEF NoFailure, NothingPauses
  <2>2. Base' /\ (Mapped' => Mapped)
    BY <2>1, IInvNext, OwnersAlways, FinalNext, FreshNext, ParkedNext, TrackNext DEF OwnerInv
  <2>3. Mapped => (StatusInv /\ OpenInv)'
    BY StatusNext, OpenNext
  <2> QED BY <2>2, <2>3
<1>3. Sound => RowsAreTrue
  BY StatusIsSo, RolesAreSo, RowsOpen DEF RowsAreTrue
<1> HIDE DEF Sound
<1> QED BY <1>1, <1>2, <1>3, PTL DEF Spec
=============================================================================
