------------------------------ MODULE KisiUsers -----------------------------
(***************************************************************************)
(* The people of one Kisi organisation and whose they are                  *)
(* (adapters/kisi/kisi-adapter.js): the grant that finds or creates a user *)
(* by e-mail and labels it with the client's marker, the conflict on a     *)
(* role, the guards a revoke passes before it deletes a user               *)
(* (finalizeRevoke, adapters/standard-adapter.js), and the script that     *)
(* moves old markers from notes to metadata.                               *)
(*                                                                         *)
(* Accounts are rows of member_access with the same e-mail: two people of  *)
(* one gym on one address, or one person at two gyms of one organisation.  *)
(* Every step is one request or one statement; jobs of different accounts  *)
(* interleave.                                                             *)
(***************************************************************************)
EXTENDS Integers, FiniteSets, Sequences

CONSTANTS
  Accounts,
  Gyms,
  MaxPeople,       \* bound on Kisi's user ids
  PeopleScenarios

People    == 1..MaxPeople
Stranger  == 1   \* another person, whom Kisi's search returns first
Older     == 2   \* an account with the e-mail, older than AccessSync's grant
Script    == "script"
Actors    == Accounts \cup {Script}
Owner     == Gyms \cup {"none"}

(* What Kisi does with metadata on POST /users: keeps and echoes it, keeps  *)
(* it without echo, drops it there, drops it always, refuses it.           *)
MetaWays  == {"kept", "unechoed", "patched", "dropped", "refused"}
\* What staff do by hand in Kisi.
StaffDoes == {"promote", "unmark", "delete", "addKey"}
\* late: the request took effect, the answer is lost; lag: a search misses.
KisiTrouble == {"error", "late", "lag"}

ASSUME KisiUsersAssumption ==
  /\ MaxPeople \in Nat /\ MaxPeople > 2
  /\ Script \notin Accounts /\ "none" \notin Gyms
  /\ PeopleScenarios \subseteq
       [gym : [Accounts -> Gyms], jobs : [Accounts -> Seq({"grant", "revoke"})], apart : BOOLEAN,
        way : MetaWays, older : {"absent", "unmarked"} \cup Gyms, faults : Nat, kinds : SUBSET KisiTrouble,
        staff : Nat, does : SUBSET StaffDoes, script : BOOLEAN]

VARIABLES
  kisiUser,   \* id |-> [there, mail, meta, notes, extra, boss, by]
  kisiRole,   \* [user, door]: group_basic assignments; an account's door is its own
  born,       \* the last user id Kisi gave
  account,    \* [user, st, role]: member_access and its source row
  work,       \* actor |-> the job it runs: [step, user, again, mark, kept]; mark is the script's
              \* client, kept the other metadata keys a stamp has read
  owed,       \* account |-> the jobs still to run
  told,       \* users an alert names as unlabelled
  refused,    \* accounts whose grant or finalize ended in an alert
  killed,     \* deletions by AccessSync: [by, of, with]
  peopleLeft

peopleVars == <<kisiUser, kisiRole, born, account, work, owed, told, refused, killed, peopleLeft>>
-----------------------------------------------------------------------------
Nobody == [there |-> FALSE, mail |-> "", meta |-> "none", notes |-> "none", extra |-> FALSE, boss |-> FALSE,
           by |-> "none"]
AtRest == [step |-> "idle", user |-> 0, again |-> FALSE, mark |-> "none", kept |-> FALSE]
GymOf(x) == peopleLeft.gym[x]

PeopleInit ==
  /\ peopleLeft \in PeopleScenarios
  /\ kisiUser = [i \in People |->
       CASE i = Stranger -> [Nobody EXCEPT !.there = TRUE, !.mail = "other", !.by = "staff"]
         [] i = Older /\ peopleLeft.older # "absent" ->
              [Nobody EXCEPT !.there = TRUE, !.mail = "own", !.extra = TRUE,
                             !.notes = IF peopleLeft.older \in Gyms THEN peopleLeft.older ELSE "none",
                             !.by = IF peopleLeft.older \in Gyms THEN peopleLeft.older ELSE "staff"]
         [] OTHER -> Nobody]
  /\ born = Older
  /\ kisiRole = {} /\ told = {} /\ refused = {} /\ killed = {}
  /\ account = [a \in Accounts |-> [user |-> 0, st |-> "none", role |-> FALSE]]
  /\ work = [x \in Actors |-> AtRest]
  /\ owed = peopleLeft.jobs

Step(x, s)  == work' = [work EXCEPT ![x].step = s]
Fault(k) ==
  /\ k \in peopleLeft.kinds /\ peopleLeft.faults > 0
  /\ peopleLeft' = [peopleLeft EXCEPT !.faults = @ - 1]

Others == <<owed, told, refused, killed, peopleLeft>>
Kisi   == <<kisiUser, kisiRole, born>>
-----------------------------------------------------------------------------
(* Resolving the Kisi user of a grant.                                     *)

\* A job begins; a deleted row's Kisi id is dropped (resolveAndLock).
Begins(a) ==
  /\ work[a] = AtRest /\ owed[a] # << >>
  /\ peopleLeft.apart => \A x \in Actors : work[x] = AtRest
  /\ owed' = [owed EXCEPT ![a] = Tail(@)]
  /\ IF Head(owed[a]) = "grant"
     THEN /\ account' = [account EXCEPT ![a].st = "in_flight", ![a].user = IF account[a].st = "deleted" THEN 0 ELSE @]
          /\ Step(a, "resolve")
     ELSE /\ work' = IF account[a].st \in {"none", "deleted"} THEN work
                     ELSE [work EXCEPT ![a].step = "take", ![a].user = account[a].user]
          /\ UNCHANGED account
  /\ UNCHANGED <<Kisi, told, refused, killed, peopleLeft>>

\* resolveIdentity: the cached id, unless it is forced past the cache.
Cached(a) ==
  /\ work[a].step = "resolve"
  /\ work' = [work EXCEPT ![a] = IF account[a].user # 0 /\ ~work[a].again
                                 THEN [@ EXCEPT !.step = "assign", !.user = account[a].user]
                                 ELSE [@ EXCEPT !.step = "find"]]
  /\ UNCHANGED <<Kisi, account, Others>>

\* findUserByEmail: Kisi's search returns others too; only the exact e-mail counts.
Found == {i \in People : kisiUser[i].there /\ kisiUser[i].mail = "own"}

FindsUser(a) ==
  /\ work[a].step \in {"find", "refind"}
  /\ \E i \in Found : work' = [work EXCEPT ![a].step = "save", ![a].user = i]
  /\ UNCHANGED <<Kisi, account, Others>>

FindsNobody(a) ==
  /\ work[a].step = "find"
  /\ IF Found = {} THEN UNCHANGED peopleLeft ELSE Fault("lag")
  /\ Step(a, "create")
  /\ UNCHANGED <<Kisi, account, owed, told, refused, killed>>

\* createUser: notes always carry the marker, metadata where Kisi keeps it.
\* A refusal of the metadata (400, 422) is followed by a POST without it.
NewUser(g) ==
  [Nobody EXCEPT !.there = TRUE, !.mail = "own", !.notes = g, !.by = g,
                 !.meta = IF peopleLeft.way \in {"kept", "unechoed"} THEN g ELSE "none"]

Creates(a) ==
  /\ work[a].step = "create" /\ Found = {} /\ born < MaxPeople
  /\ born' = born + 1
  /\ kisiUser' = [kisiUser EXCEPT ![born'] = NewUser(GymOf(a))]
  /\ \/ /\ work' = [work EXCEPT ![a].step = IF peopleLeft.way = "kept" THEN "save" ELSE "label", ![a].user = born']
        /\ UNCHANGED peopleLeft
     \/ Fault("late") /\ Step(a, "resolve")
  /\ UNCHANGED <<kisiRole, account, owed, told, refused, killed>>

\* 409 'already exists': searched again; when that misses too the job is retried.
CreateConflicts(a) ==
  /\ work[a].step = "create" /\ Found # {}
  /\ Step(a, "refind")
  /\ UNCHANGED <<Kisi, account, Others>>
RefindMisses(a) ==
  /\ work[a].step = "refind"
  /\ IF Found = {} THEN UNCHANGED peopleLeft ELSE Fault("lag")
  /\ Step(a, "resolve")
  /\ UNCHANGED <<Kisi, account, owed, told, refused, killed>>

\* The id is stored; when it replaces another, the old rows are purged.
Saved(a, i) == [account[a] EXCEPT !.user = i, !.role = IF account[a].user \in {0, i} THEN @ ELSE FALSE]

Saves(a) ==
  /\ work[a].step = "save"
  /\ LET gone == work[a].again /\ account[a].user = work[a].user IN
     /\ account' = [account EXCEPT ![a] = Saved(a, work[a].user)]
     /\ work' = [work EXCEPT ![a] = IF gone THEN [AtRest EXCEPT !.step = "resolve"] ELSE [@ EXCEPT !.step = "assign"]]
  /\ UNCHANGED <<Kisi, Others>>
-----------------------------------------------------------------------------
(* stampOwnershipMetadata: read, merge, PATCH, read again.  Run after a    *)
(* create without echo and by the migration script.                        *)

\* The script takes the users that carry only this client's notes marker, and
\* stamps that client whatever becomes of the notes.
ScriptTakes(i) ==
  /\ peopleLeft.script /\ work[Script] = AtRest
  /\ peopleLeft.apart => \A x \in Actors : work[x] = AtRest
  /\ kisiUser[i].there /\ kisiUser[i].meta = "none" /\ kisiUser[i].notes # "none"
  /\ work' = [work EXCEPT ![Script] = [AtRest EXCEPT !.step = "label", !.user = i, !.mark = kisiUser[i].notes]]
  /\ peopleLeft' = [peopleLeft EXCEPT !.script = FALSE]
  /\ UNCHANGED <<Kisi, account, owed, told, refused, killed>>

Marker(x) == IF x = Script THEN work[x].mark ELSE GymOf(x)

\* After the stamp the grant goes on, whatever came of it; the script ends.
AfterLabel(x) == IF x = Script THEN AtRest ELSE [work[x] EXCEPT !.step = "save", !.kept = FALSE]

ReadsLabel(x) ==
  /\ work[x].step = "label"
  /\ LET i == work[x].user IN
     IF ~kisiUser[i].there \/ kisiUser[i].meta \notin {"none", Marker(x)}
     THEN /\ work' = [work EXCEPT ![x] = AfterLabel(x)]
          /\ told' = IF x = Script THEN told ELSE told \cup {i}
     ELSE /\ work' = [work EXCEPT ![x] = IF kisiUser[i].meta = "none"
                                         THEN [@ EXCEPT !.step = "patch", !.kept = kisiUser[i].extra]
                                         ELSE AfterLabel(x)]
          /\ UNCHANGED told
  /\ UNCHANGED <<Kisi, account, owed, refused, killed, peopleLeft>>

\* Mutation: the marker is written without the keys already there.
MergedBare(x, u) == [u EXCEPT !.meta = Marker(x), !.extra = FALSE]

\* The PATCH carries the keys of the read beside the marker.
Merged(x, u) == [u EXCEPT !.meta = Marker(x), !.extra = work[x].kept]

PatchesLabel(x) ==
  /\ work[x].step = "patch"
  /\ LET i == work[x].user IN
     /\ kisiUser' = IF kisiUser[i].there /\ peopleLeft.way \notin {"dropped", "refused"}
                    THEN [kisiUser EXCEPT ![i] = Merged(x, @)] ELSE kisiUser
     /\ work' = [work EXCEPT ![x] = [@ EXCEPT !.step = "confirm", !.kept = FALSE]]
  /\ UNCHANGED <<kisiRole, born, account, Others>>

Persists(x, i) == kisiUser[i].there /\ kisiUser[i].meta = Marker(x)

\* A stamp that is not seen on the second read is alerted, never thrown.
Confirms(x) ==
  /\ work[x].step = "confirm"
  /\ work' = [work EXCEPT ![x] = AfterLabel(x)]
  /\ told' = IF x = Script \/ Persists(x, work[x].user) THEN told ELSE told \cup {work[x].user}
  /\ UNCHANGED <<Kisi, account, owed, refused, killed, peopleLeft>>

LabelFails(x) ==
  /\ work[x].step \in {"label", "patch", "confirm"}
  /\ Fault("error")
  /\ work' = [work EXCEPT ![x] = AfterLabel(x)]
  /\ told' = IF x = Script THEN told ELSE told \cup {work[x].user}
  /\ UNCHANGED <<Kisi, account, owed, refused, killed>>
-----------------------------------------------------------------------------
(* The role.                                                               *)

Role(a) == [user |-> work[a].user, door |-> a]

\* assignRole; a role that exists (409) is looked up among the user's own.
Assigns(a) ==
  /\ work[a].step = "assign" /\ kisiUser[work[a].user].there
  /\ kisiRole' = kisiRole \cup {Role(a)}
  /\ \/ Step(a, "record") /\ UNCHANGED peopleLeft
     \/ Fault("late") /\ Step(a, "resolve")
  /\ UNCHANGED <<kisiUser, born, account, owed, told, refused, killed>>

\* Only the first HARDWARE_USER_GONE of a job is answered by a forced resolve.
ResolvesAnew(a) == ~work[a].again

\* 404 or 422 and no such user: HARDWARE_USER_GONE.
FindsUserGone(a) ==
  /\ work[a].step = "assign" /\ ~kisiUser[work[a].user].there
  /\ work' = [work EXCEPT ![a] = IF ResolvesAnew(a) THEN [@ EXCEPT !.step = "resolve", !.again = TRUE] ELSE AtRest]
  /\ account' = IF ResolvesAnew(a) THEN account ELSE [account EXCEPT ![a].st = "inactive"]
  /\ refused' = IF ResolvesAnew(a) THEN refused ELSE refused \cup {a}
  /\ UNCHANGED <<Kisi, owed, told, killed, peopleLeft>>

Records(a) ==
  /\ work[a].step = "record"
  /\ account' = [account EXCEPT ![a] = [user |-> work[a].user, st |-> "active", role |-> TRUE]]
  /\ work' = [work EXCEPT ![a] = AtRest]
  /\ UNCHANGED <<Kisi, Others>>

\* A request of a grant fails: the job is retried from its start.
GrantFails(a) ==
  /\ work[a].step \in {"find", "create", "refind", "assign"}
  /\ Fault("error")
  /\ work' = [work EXCEPT ![a] = [AtRest EXCEPT !.step = "resolve"]]
  /\ UNCHANGED <<Kisi, account, owed, told, refused, killed>>
-----------------------------------------------------------------------------
(* The revoke and its finalize.                                            *)

\* The assignment the account's row names.
Taken(a) == {Role(a)}

TakesRole(a) ==
  /\ work[a].step = "take"
  /\ kisiRole' = kisiRole \ Taken(a)
  /\ account' = [account EXCEPT ![a].role = FALSE, ![a].st = "inactive"]
  /\ Step(a, "sharers")
  /\ UNCHANGED <<kisiUser, born, Others>>

\* _alertOperatorFinalizeRefused; the account stays inactive.
Refuse(a) ==
  /\ work' = [work EXCEPT ![a] = AtRest]
  /\ refused' = refused \cup {a}

\* Guard E: rows of other accounts that name the Kisi user.
Sharers(a) == {b \in Accounts \ {a} : account[b].user = work[a].user /\ account[b].st # "deleted"}

ChecksSharers(a) ==
  /\ work[a].step = "sharers"
  /\ IF Sharers(a) # {} THEN Refuse(a) ELSE Step(a, "others") /\ UNCHANGED refused
  /\ UNCHANGED <<Kisi, account, owed, told, killed, peopleLeft>>

\* Guard D: a role of any kind left on the user.
ChecksOthers(a) ==
  /\ work[a].step = "others"
  /\ IF \E r \in kisiRole : r.user = work[a].user THEN Refuse(a) ELSE Step(a, "mine") /\ UNCHANGED refused
  /\ UNCHANGED <<Kisi, account, owed, told, killed, peopleLeft>>

\* readUserOwnership and _requireOwnership: metadata first, then notes, and
\* the two never name different clients.
Owns(g, u) ==
  /\ g \in {u.meta, u.notes}
  /\ u.meta \in {"none", g} /\ u.notes \in {"none", g}

\* assertDeletable, the first read: gone already, ours, or not ours.
ChecksMarker(a) ==
  /\ work[a].step = "mine"
  /\ LET u == kisiUser[work[a].user] IN
     IF ~u.there THEN Step(a, "purge") /\ UNCHANGED refused
     ELSE IF Owns(GymOf(a), u) THEN Step(a, "bosses") /\ UNCHANGED refused
     ELSE Refuse(a)
  /\ UNCHANGED <<Kisi, account, owed, told, killed, peopleLeft>>

\* findElevatedAssignments: any role but a group's basic one.
Elevated(i) == kisiUser[i].there /\ kisiUser[i].boss

ChecksRoles(a) ==
  /\ work[a].step = "bosses"
  /\ IF Elevated(work[a].user) THEN Refuse(a) ELSE Step(a, "delete") /\ UNCHANGED refused
  /\ UNCHANGED <<Kisi, account, owed, told, killed, peopleLeft>>

Deletes(a) ==
  /\ work[a].step = "delete"
  /\ LET i == work[a].user IN
     IF kisiUser[i].there
     THEN /\ kisiUser' = [kisiUser EXCEPT ![i].there = FALSE]
          /\ kisiRole' = {r \in kisiRole : r.user # i}
          /\ killed' = killed \cup {[by |-> GymOf(a), of |-> kisiUser[i].by, boss |-> kisiUser[i].boss]}
     ELSE UNCHANGED <<kisiUser, kisiRole, killed>>
  /\ \/ Step(a, "purge") /\ UNCHANGED peopleLeft
     \/ Fault("late") /\ Step(a, "sharers")
  /\ UNCHANGED <<born, account, owed, told, refused>>

Purges(a) ==
  /\ work[a].step = "purge"
  /\ account' = [account EXCEPT ![a].st = "deleted"]
  /\ work' = [work EXCEPT ![a] = AtRest]
  /\ UNCHANGED <<Kisi, Others>>

\* A guard's read or the DELETE fails: the finalize is taken up again.
FinalizeFails(a) ==
  /\ work[a].step \in {"others", "mine", "bosses", "delete"}
  /\ Fault("error")
  /\ Step(a, "sharers")
  /\ UNCHANGED <<Kisi, account, owed, told, refused, killed>>
-----------------------------------------------------------------------------
(* Staff, in Kisi's dashboard.                                             *)
StaffActs(i, k) ==
  /\ k \in peopleLeft.does /\ peopleLeft.staff > 0 /\ kisiUser[i].there /\ i # Stranger
  /\ peopleLeft.apart => \A x \in Actors : work[x] = AtRest
  /\ kisiUser' = [kisiUser EXCEPT ![i] =
       CASE k = "promote" -> [@ EXCEPT !.boss = TRUE]
         [] k = "unmark"  -> [@ EXCEPT !.notes = "none"]
         [] k = "addKey"  -> [@ EXCEPT !.extra = TRUE]
         [] k = "delete"  -> [@ EXCEPT !.there = FALSE]]
  /\ kisiRole' = IF k = "delete" THEN {r \in kisiRole : r.user # i} ELSE kisiRole
  /\ peopleLeft' = [peopleLeft EXCEPT !.staff = @ - 1]
  /\ UNCHANGED <<born, account, work, owed, told, refused, killed>>
-----------------------------------------------------------------------------
GrantStep(a) ==
  \/ Begins(a) \/ Cached(a) \/ FindsUser(a) \/ FindsNobody(a) \/ Creates(a) \/ CreateConflicts(a) \/ RefindMisses(a)
  \/ Saves(a) \/ Assigns(a) \/ FindsUserGone(a) \/ Records(a)
LabelStep(x) == ReadsLabel(x) \/ PatchesLabel(x) \/ Confirms(x)
RevokeStep(a) ==
  \/ TakesRole(a) \/ ChecksSharers(a) \/ ChecksOthers(a) \/ ChecksMarker(a) \/ ChecksRoles(a) \/ Deletes(a) \/ Purges(a)

PeopleNext ==
  \/ \E a \in Accounts : GrantStep(a) \/ RevokeStep(a) \/ GrantFails(a) \/ FinalizeFails(a)
  \/ \E x \in Actors : LabelStep(x) \/ LabelFails(x)
  \/ \E i \in People : ScriptTakes(i) \/ \E k \in StaffDoes : StaffActs(i, k)

PeopleSpec == PeopleInit /\ [][PeopleNext]_peopleVars

(* BullMQ runs every queued job and retries it; Kisi answers; a script     *)
(* that was started goes on.                                               *)
PeopleFairSpec ==
  /\ PeopleSpec
  /\ \A a \in Accounts : WF_peopleVars(GrantStep(a) \/ LabelStep(a) \/ RevokeStep(a))
  /\ WF_peopleVars(LabelStep(Script))
-----------------------------------------------------------------------------
KisiTypeOK ==
  /\ kisiUser \in [People -> [there : BOOLEAN, mail : {"", "own", "other"}, meta : Owner, notes : Owner,
                              extra : BOOLEAN, boss : BOOLEAN, by : Owner \cup {"staff"}]]
  /\ kisiRole \subseteq [user : People, door : Accounts]
  /\ account \in [Accounts -> [user : {0} \cup People, st : {"none", "in_flight", "active", "inactive", "deleted"},
                               role : BOOLEAN]]
  /\ \A x \in Actors : work[x].user \in {0} \cup People
  /\ told \subseteq People /\ refused \subseteq Accounts
  /\ \A i \in People : kisiUser[i].there => i \in 1..born

(* DR-045: AccessSync deletes only a Kisi user it created for the very     *)
(* client that deletes it, whoever edits markers and whatever interleaves. *)
OnlyOursDeleted == \A k \in killed : k.by = k.of

(* findUserByEmail: a member is never bound to somebody else's Kisi user.  *)
BoundToHimself == \A a \in Accounts : account[a].user # 0 => kisiUser[account[a].user].mail = "own"

(* Guards E and D: an account that is active has its user, and its role on *)
(* it: no finalize of another account has taken them away.                 *)
ActiveKeepsUser ==
  "delete" \notin peopleLeft.does =>
    \A a \in Accounts : account[a].st = "active" =>
      kisiUser[account[a].user].there /\ [user |-> account[a].user, door |-> a] \in kisiRole

(* The same where the jobs of accounts that share a user do not overlap.   *)
ActiveHasUser == peopleLeft.apart => ActiveKeepsUser

(* DR-045 Layer C: no user with an elevated role is deleted.               *)
BossesAreKept == \A k \in killed : ~k.boss

(* The same where staff promote nobody while the guards are being read.    *)
BossesStay == peopleLeft.apart => BossesAreKept

(* createUser and its heal: a user AccessSync made carries the client's    *)
(* metadata, or an operator was told; a lost answer or an edit by hand     *)
(* apart.                                                                  *)
LabelledOrTold ==
  {"late"} \cap peopleLeft.kinds = {} =>
    \A i \in People : kisiUser[i].there /\ kisiUser[i].by \in Gyms /\ i > Older =>
      \/ kisiUser[i].meta = kisiUser[i].by \/ i \in told
      \/ \E x \in Accounts : work[x].user = i /\ work[x].step \in {"label", "patch", "confirm"}

(* The stamp merges: a key another integration put on the user outlives it. *)
KeysAreKept == [][\A i \in People : kisiUser[i].extra => kisiUser'[i].extra]_peopleVars

(* The same where no key is written between the stamp's read and its PATCH. *)
OthersKeysStay == [][peopleLeft.apart => \A i \in People : kisiUser[i].extra => kisiUser'[i].extra]_peopleVars

(* When the jobs are done everybody is settled: who was granted last is    *)
(* active, also when the Kisi user was deleted under the grant; who was    *)
(* removed last is deleted for good, or the operator knows why not.        *)
LastJob(a) == LET js == peopleLeft.jobs[a] IN IF js = << >> THEN "none" ELSE js[Len(js)]

EveryoneIsSettled ==
  []<>(\A a \in Accounts :
         /\ work[a] = AtRest /\ owed[a] = << >>
         /\ LastJob(a) = "grant"  => account[a].st = "active"
         /\ LastJob(a) = "revoke" => account[a].st = "deleted" \/ a \in refused)

(* What AccessSync never does to the people of an organisation.            *)
KisiHolds ==
  /\ [](KisiTypeOK /\ OnlyOursDeleted /\ BoundToHimself /\ ActiveHasUser /\ BossesStay /\ LabelledOrTold)
  /\ OthersKeysStay
=============================================================================
