----------------------------- MODULE GymsProofs -----------------------------
(***************************************************************************)
(* Theorems about a gym's setting: OwnerDaily, for every set of gyms, any  *)
(* number of days and quarters, of changes and of failures; LocationLapse, *)
(* for any number of places, of patrons of one place each and of requests  *)
(* that cross; GymLink, for any number of gyms, sites and webhooks, and    *)
(* any life of a kept answer: webhooks and links go by a table no older    *)
(* than it may be; and GymSecret, for every window, cool-down, threshold   *)
(* and number of pages and watchers.                                       *)
(***************************************************************************)
EXTENDS OwnerDaily, LocationLapse, GymLink, GymSecret, FiniteSetTheorems, TLAPS

-----------------------------------------------------------------------------
(* What the queries may say of a gym.                                      *)

Facts ==
  [active : BOOLEAN, keyed : BOOLEAN, wixed : BOOLEAN, located : BOOLEAN,
   doored : BOOLEAN, granted : BOOLEAN, members : BOOLEAN, stuck : BOOLEAN,
   key : {"unseen", "fresh", "stale", "refused"},
   synced : {"never", "fresh", "late", "old"},
   latest : {"none", "success", "aborted"},
   hook : {"never", "recent", "silent"},
   errors : SUBSET {"accesssync", "gym", "clears"}]

GymsFit == facts \in [Hubs -> Facts] /\ \A g \in Hubs : Consistent(facts[g])

LEMMA FactsValues ==
    ASSUME NEW f \in Facts
    PROVE  \A k \in DOMAIN Values : f[k] \in Values[k]
BY DEF Facts, Values

\* One fact may change to any of its values.
LEMMA FactChanges ==
    ASSUME NEW f \in Facts, NEW k \in DOMAIN Values, NEW v \in Values[k]
    PROVE  [f EXCEPT ![k] = v] \in Facts
<1>1. k \in {"active", "keyed", "wixed", "located", "doored", "granted", "members",
             "stuck", "key", "synced", "latest", "hook", "errors"}
  BY DEF Values
<1>2. CASE k \in {"active", "keyed", "wixed", "located", "doored", "granted", "members", "stuck"}
  BY <1>2 DEF Facts, Values
<1>3. CASE k = "key"
  BY <1>3 DEF Facts, Values
<1>4. CASE k = "synced"
  BY <1>4 DEF Facts, Values
<1>5. CASE k = "latest"
  BY <1>5 DEF Facts, Values
<1>6. CASE k = "hook"
  BY <1>6 DEF Facts, Values
<1>7. CASE k = "errors"
  BY <1>7 DEF Facts, Values
<1> QED BY <1>1, <1>2, <1>3, <1>4, <1>5, <1>6, <1>7

-----------------------------------------------------------------------------
(* The subject of the mail.                                                *)

LEMMA RowIsThere == \A k, o, s : Row(k, o, s) # {}
BY DEF Row

\* A gym of which every query answered has no row exactly when it is inactive,
\* or is through with its set-up and nothing is amiss.
LEMMA NoRowsIff ==
    ASSUME NEW f \in Facts, Consistent(f)
    PROVE  Rows(f, {}) = {} <=>
             \/ ~f.active
             \/ /\ ~SettingUp(f, {})
                /\ ~(History(f, {}) /\ Missing(f, {}))
                /\ f.key # "refused"
                /\ ~(f.keyed /\ AnyKeySeen /\ f.key \in {"unseen", "stale"})
                /\ History(f, {}) => f.latest # "aborted" /\ f.synced = "fresh"
                /\ f.hook # "silent" /\ ~f.stuck
                /\ "accesssync" \notin f.errors /\ "gym" \notin f.errors
<1>1. KeyRow(f) = {} <=> /\ f.key # "refused"
                         /\ ~(f.keyed /\ AnyKeySeen /\ f.key \in {"unseen", "stale"})
  BY RowIsThere DEF KeyRow, If, NoRow, Facts
<1>2. Runs(f, {}) = f
  BY DEF Runs, Has
<1>3. SyncRow(f) = {} <=> f.latest # "aborted" /\ f.synced = "fresh"
  BY RowIsThere DEF SyncRow, NoRow, Facts
<1>4. SyncRows(f, {}) = {} <=> (History(f, {}) => f.latest # "aborted" /\ f.synced = "fresh")
  BY <1>2, <1>3 DEF SyncRows, If, NoRow, Has
<1>5. \A c, k, o, s : If(c, Row(k, o, s)) = {} <=> ~c
  BY RowIsThere DEF If, NoRow
<1>6. \A q \in Queries : Has(q, {})
  BY DEF Has
<1>7. CASE ~f.active
  BY <1>7 DEF Rows, NoRow
<1>8. CASE f.active /\ SettingUp(f, {})
  BY <1>8, RowIsThere DEF Rows
<1>9. CASE f.active /\ ~SettingUp(f, {})
  <2> DEFINE gap   == If(History(f, {}) /\ Missing(f, {}), Row("config_gap", "gym", "red"))
             hook  == If(Has("webhooks", {}) /\ f.hook = "silent", Row("webhooks", "you", "amber"))
             mine  == If(Has("errors", {}) /\ "accesssync" \in f.errors, Row("errors_you", "you", "red"))
             stuck == If(Has("stuck", {}) /\ f.stuck, Row("stuck_you", "you", "red"))
             broken == If(Has("errors", {}) /\ "gym" \in f.errors, Row("errors_gym", "gym", "amber"))
  <2>1. Rows(f, {}) = gap \cup KeyRow(f) \cup SyncRows(f, {}) \cup hook \cup mine \cup stuck \cup broken
    BY <1>9 DEF Rows
  <2>2. /\ gap = {} <=> ~(History(f, {}) /\ Missing(f, {}))
        /\ hook = {} <=> f.hook # "silent"
        /\ mine = {} <=> "accesssync" \notin f.errors
        /\ stuck = {} <=> ~f.stuck
        /\ broken = {} <=> "gym" \notin f.errors
    BY <1>5, <1>6 DEF Queries
  <2> HIDE DEF gap, hook, mine, stuck, broken
  <2>3. Rows(f, {}) = {} <=> /\ gap = {} /\ KeyRow(f) = {} /\ SyncRows(f, {}) = {}
                             /\ hook = {} /\ mine = {} /\ stuck = {} /\ broken = {}
    BY <2>1
  <2> QED BY <1>9, <1>1, <1>4, <2>2, <2>3
<1> QED BY <1>7, <1>8, <1>9

\* And the rows of no gym.
LEMMA NoPlatformRowsIff ==
    PlatformRows({}) = {} <=>
        /\ "errors" \notin stray /\ "burst" \notin stray
        /\ ~(~AnyKeySeen /\ \E g \in Hubs : facts[g].active /\ facts[g].keyed)
        /\ ~(/\ \E g \in Hubs : facts[g].active /\ History(facts[g], {})
             /\ \A g \in Hubs : facts[g].latest = "none")
BY RowIsThere DEF PlatformRows, If, NoRow, Has

\* A gym with none of the listed reasons has no row and gives none to the
\* platform; and the other way round.
LEMMA UnwellShows ==
    ASSUME NEW f \in Facts, Consistent(f)
    PROVE  ~Unwell(f) <=>
             \/ ~f.active
             \/ /\ ~SettingUp(f, {})
                /\ ~(History(f, {}) /\ Missing(f, {}))
                /\ f.key # "refused"
                /\ ~(f.keyed /\ f.key \in {"unseen", "stale"})
                /\ History(f, {}) => f.latest # "aborted" /\ f.synced = "fresh"
                /\ f.hook # "silent" /\ ~f.stuck
                /\ "accesssync" \notin f.errors /\ "gym" \notin f.errors
<1>0. \A q \in Queries : Has(q, {})
  BY DEF Has
<1>1. History(f, {}) <=> f.members \/ f.latest # "none" \/ f.hook # "never"
  BY <1>0 DEF History, Queries
<1>2. Missing(f, {}) <=> ~f.keyed \/ ~f.wixed \/ ~f.located
  BY <1>0 DEF Missing, Queries
<1>3. SettingUp(f, {}) <=> ~History(f, {})
  BY <1>1 DEF SettingUp, Step
<1>4. f.errors \cap {"accesssync", "gym"} # {} <=> "accesssync" \in f.errors \/ "gym" \in f.errors
  OBVIOUS
<1> QED BY <1>1, <1>2, <1>3, <1>4 DEF Unwell, Consistent, Facts

LEMMA AllClearFromTypes == GymsFit /\ stray \subseteq {"errors", "burst"} => AllClearIsClear
<1> SUFFICES ASSUME GymsFit, stray \subseteq {"errors", "burst"}
             PROVE  AllClear({}) <=> stray = {} /\ \A g \in Hubs : ~Unwell(facts[g])
  BY DEF AllClearIsClear
<1>1. \A g \in Hubs : facts[g] \in Facts /\ Consistent(facts[g])
  BY DEF GymsFit
<1>2. ASSUME stray = {}, \A g \in Hubs : ~Unwell(facts[g])
      PROVE  AllClear({})
  <2>1. \A g \in Hubs : Rows(facts[g], {}) = {}
    BY <1>1, <1>2, NoRowsIff, UnwellShows
  <2>2. ~(~AnyKeySeen /\ \E g \in Hubs : facts[g].active /\ facts[g].keyed)
    BY <1>2 DEF AnyKeySeen, Unwell
  <2>3. ASSUME NEW g \in Hubs, facts[g].active, History(facts[g], {}), facts[g].latest = "none"
        PROVE  FALSE
    BY <1>1, <1>2, <2>3 DEF Unwell, History, Consistent
  <2>4. PlatformRows({}) = {}
    BY <1>2, <2>2, <2>3, NoPlatformRowsIff
  <2> QED BY <2>1, <2>4 DEF AllClear, NoRow
<1>3. ASSUME AllClear({})
      PROVE  stray = {} /\ \A g \in Hubs : ~Unwell(facts[g])
  <2>1. PlatformRows({}) = {} /\ \A g \in Hubs : Rows(facts[g], {}) = {}
    BY <1>3 DEF AllClear, NoRow
  <2>2. stray = {}
    BY <2>1, NoPlatformRowsIff
  <2>3. \A g \in Hubs : facts[g].active /\ facts[g].keyed => AnyKeySeen
    BY <2>1, NoPlatformRowsIff
  <2>4. \A g \in Hubs : ~Unwell(facts[g])
    BY <1>1, <2>1, <2>3, NoRowsIff, UnwellShows
  <2> QED BY <2>2, <2>4
<1> QED BY <1>2, <1>3

-----------------------------------------------------------------------------
(* Failing queries.                                                        *)

\* Where a gym is red with queries failing, it has a history.
LEMMA RedHasHistory ==
    ASSUME NEW f \in Facts, NEW failed \in SUBSET Queries, f.active, ~SettingUp(f, failed)
    PROVE  History(f, failed) /\ History(f, {}) /\ ~SettingUp(f, {})
<1>1. History(f, failed)
  BY DEF SettingUp, Step, History
<1>2. History(f, {})
  BY <1>1 DEF History, Has
<1> QED BY <1>1, <1>2 DEF SettingUp

LEMMA RedStays ==
    ASSUME NEW f \in Facts, NEW failed \in SUBSET Queries,
           NEW r \in Rows(f, failed), r.severity = "red"
    PROVE  r \in Rows(f, {})
<1>1. f.active
  BY DEF Rows, NoRow
<1>2. ~SettingUp(f, failed)
  <2>1. SettingUp(f, failed) => r \in Row("setup", "you", "amber")
    BY <1>1 DEF Rows
  <2> QED BY <2>1 DEF Row
<1>3. History(f, {}) /\ ~SettingUp(f, {})
  BY <1>1, <1>2, RedHasHistory
<1> DEFINE Gap(q)   == If(History(f, q) /\ Missing(f, q), Row("config_gap", "gym", "red"))
           Hook(q)  == If(Has("webhooks", q) /\ f.hook = "silent", Row("webhooks", "you", "amber"))
           Mine(q)  == If(Has("errors", q) /\ "accesssync" \in f.errors, Row("errors_you", "you", "red"))
           Stuck(q) == If(Has("stuck", q) /\ f.stuck, Row("stuck_you", "you", "red"))
           Broken(q)  == If(Has("errors", q) /\ "gym" \in f.errors, Row("errors_gym", "gym", "amber"))
<1>4. \A q : f.active /\ ~SettingUp(f, q) =>
         Rows(f, q) = Gap(q) \cup KeyRow(f) \cup SyncRows(f, q) \cup Hook(q) \cup Mine(q) \cup Stuck(q) \cup Broken(q)
  BY DEF Rows
<1>5. /\ Gap(failed) \subseteq Gap({}) /\ SyncRows(f, failed) \subseteq SyncRows(f, {})
      /\ Hook(failed) \subseteq Hook({}) /\ Mine(failed) \subseteq Mine({})
      /\ Stuck(failed) \subseteq Stuck({}) /\ Broken(failed) \subseteq Broken({})
  <2>1. \A q \in Queries : Has(q, failed) => Has(q, {})
    BY DEF Has
  <2>2. Missing(f, failed) => Missing(f, {})
    BY DEF Missing, Has
  <2>3. Gap(failed) \subseteq Gap({})
    BY <1>3, <2>2 DEF If, NoRow
  <2>4. Has("runs", failed) => Runs(f, failed) = Runs(f, {})
    BY DEF Runs, Has
  <2>5. SyncRows(f, failed) \subseteq SyncRows(f, {})
    BY <1>3, <2>4 DEF SyncRows, If, NoRow, Has
  <2>6. Hook(failed) \subseteq Hook({}) /\ Mine(failed) \subseteq Mine({})
        /\ Stuck(failed) \subseteq Stuck({}) /\ Broken(failed) \subseteq Broken({})
    BY DEF If, NoRow, Has
  <2> QED BY <2>3, <2>5, <2>6
<1> HIDE DEF Gap, Hook, Mine, Stuck, Broken
<1> QED BY <1>1, <1>2, <1>3, <1>4, <1>5

LEMMA BlameFromTypes == GymsFit => FailuresBlameNobody
BY RedStays DEF GymsFit, FailuresBlameNobody

-----------------------------------------------------------------------------
(* The mail of the day.                                                    *)

\* DailyTypeOK in two parts, with the facts as one set of functions.
HubTypes == GymsFit /\ stray \subseteq {"errors", "burst"} /\ changes \in 0 .. MaxChanges

MailNumbers ==
  /\ day \in 1 .. MaxDays /\ slot \in 0 .. Slots
  /\ sender \in {"down", "rest", "log", "health", "mail", "row"}
  /\ memory \in 0 .. MaxDays /\ logged \in 0 .. MaxDays /\ mails \in Nat
  /\ slips \in 0 .. MaxSlips

MailFlags ==
  asked \in BOOLEAN /\ slipped \in BOOLEAN /\ hitch \in BOOLEAN /\ dull \in BOOLEAN

MailTypes == MailNumbers /\ MailFlags

DailyInv == HubTypes /\ MailTypes /\ MailInv

LEMMA DailyInitInv == DailyInit => DailyInv
<1> SUFFICES ASSUME DailyInit PROVE DailyInv
  OBVIOUS
<1>1. \A f \in {Established, Brand, Closed} : f \in Facts /\ Consistent(f)
  <2>1. Established \in Facts /\ Consistent(Established)
    BY DEF Established, Facts, Consistent
  <2>2. Brand \in Facts /\ Consistent(Brand)
    BY DEF Brand, Established, Facts, Consistent
  <2>3. Closed \in Facts /\ Consistent(Closed)
    BY DEF Closed, Established, Facts, Consistent
  <2> QED BY <2>1, <2>2, <2>3
<1>2. HubTypes
  BY <1>1, DailyAssumption DEF DailyInit, HubTypes, GymsFit
<1>3. MailTypes
  <2>1. MailNumbers
    BY DailyAssumption DEF DailyInit, MailNumbers
  <2>2. MailFlags
    BY DEF DailyInit, MailFlags
  <2> QED BY <2>1, <2>2 DEF MailTypes
<1>4. MailInv
  BY DailyAssumption DEF DailyInit, MailInv, MissingMeansTrouble
<1> QED BY <1>2, <1>3, <1>4 DEF DailyInv

\* What the mail reads and writes does not touch the gyms.
LEMMA HubKept == HubTypes /\ UNCHANGED hubVars => HubTypes'
BY DEF HubTypes, hubVars, GymsFit, Consistent

LEMMA DailyNextInv == DailyInv /\ [DailyNext]_ownerVars => DailyInv'
<1> SUFFICES ASSUME DailyInv, [DailyNext]_ownerVars PROVE DailyInv'
  OBVIOUS
<1> USE DailyAssumption
<1>0. HubTypes /\ MailTypes /\ MailInv
  BY DEF DailyInv
<1>2. CASE AskScheduler
  <2> USE <1>2 DEF AskScheduler, NoSlip, Asks, clockVars
  <2>1. MailNumbers' /\ MailFlags'
    <3>1. MailNumbers'
      BY <1>0 DEF MailTypes, MailNumbers
    <3>2. MailFlags'
      BY <1>0 DEF MailTypes, MailFlags
    <3> QED BY <3>1, <3>2
  <2>2. MailInv'
    BY <1>0 DEF MailTypes, MailNumbers, MailInv, MissingMeansTrouble
  <2> QED BY <1>0, <2>1, <2>2, HubKept DEF DailyInv, MailTypes
<1>3. CASE AskLog
  <2> USE <1>3 DEF AskLog, NoSlip, Slip, Asks, clockVars, LoggedToday
  <2>1. MailNumbers' /\ MailFlags'
    <3>1. MailNumbers'
      BY <1>0 DEF MailTypes, MailNumbers
    <3>2. MailFlags'
      BY <1>0 DEF MailTypes, MailFlags
    <3> QED BY <3>1, <3>2
  <2>2. MailInv'
    BY <1>0 DEF MailTypes, MailNumbers, MailInv, MissingMeansTrouble
  <2> QED BY <1>0, <2>1, <2>2, HubKept DEF DailyInv, MailTypes
<1>4. CASE ComputeHealth
  <2> USE <1>4 DEF ComputeHealth, NoSlip, Slip, Asks, clockVars
  <2>1. MailNumbers' /\ MailFlags'
    <3>1. MailNumbers'
      BY <1>0 DEF MailTypes, MailNumbers
    <3>2. MailFlags'
      BY <1>0 DEF MailTypes, MailFlags
    <3> QED BY <3>1, <3>2
  <2>2. MailInv'
    BY <1>0 DEF MailTypes, MailNumbers, MailInv, MissingMeansTrouble
  <2> QED BY <1>0, <2>1, <2>2, HubKept DEF DailyInv, MailTypes
<1>5. CASE SendDaily
  <2> USE <1>5 DEF SendDaily, NoSlip, Slip, Asks, clockVars, Remembers
  <2>1. MailNumbers' /\ MailFlags'
    <3>1. MailNumbers'
      BY <1>0 DEF MailTypes, MailNumbers
    <3>2. MailFlags'
      BY <1>0 DEF MailTypes, MailFlags
    <3> QED BY <3>1, <3>2
  <2>2. MailInv'
    BY <1>0 DEF MailTypes, MailNumbers, MailInv, MissingMeansTrouble
  <2> QED BY <1>0, <2>1, <2>2, HubKept DEF DailyInv, MailTypes
<1>6. CASE WriteRow
  <2> USE <1>6 DEF WriteRow, NoSlip, Slip, Asks, clockVars
  <2>1. MailNumbers' /\ MailFlags'
    <3>1. MailNumbers'
      BY <1>0 DEF MailTypes, MailNumbers
    <3>2. MailFlags'
      BY <1>0 DEF MailTypes, MailFlags
    <3> QED BY <3>1, <3>2
  <2>2. MailInv'
    BY <1>0 DEF MailTypes, MailNumbers, MailInv, MissingMeansTrouble
  <2> QED BY <1>0, <2>1, <2>2, HubKept DEF DailyInv, MailTypes
<1>7. CASE Die
  <2> USE <1>7 DEF Die, Asks, clockVars
  <2>1. MailNumbers' /\ MailFlags'
    <3>1. MailNumbers'
      BY <1>0 DEF MailTypes, MailNumbers
    <3>2. MailFlags'
      BY <1>0 DEF MailTypes, MailFlags
    <3> QED BY <3>1, <3>2
  <2>2. MailInv'
    <3>1. ~slipped' => ~slipped /\ sender = "rest"
      OBVIOUS
    <3>2. sender' = "down" /\ hitch' /\ memory' = 0 /\ UNCHANGED <<day, logged, mails>>
      OBVIOUS
    <3> QED BY ONLY DailyAssumption, <1>0, <3>1, <3>2 DEF MailTypes, MailNumbers, MailInv, MissingMeansTrouble
  <2> QED BY <1>0, <2>1, <2>2, HubKept DEF DailyInv, MailTypes
<1>8. CASE Boot
  <2> USE <1>8 DEF Boot, Asks, clockVars
  <2>1. MailNumbers' /\ MailFlags'
    <3>1. MailNumbers'
      BY <1>0 DEF MailTypes, MailNumbers
    <3>2. MailFlags'
      BY <1>0 DEF MailTypes, MailFlags
    <3> QED BY <3>1, <3>2
  <2>2. MailInv'
    BY <1>0 DEF MailTypes, MailNumbers, MailInv, MissingMeansTrouble
  <2> QED BY <1>0, <2>1, <2>2, HubKept DEF DailyInv, MailTypes
<1>9. CASE NextQuarter
  <2> USE <1>9 DEF NextQuarter
  <2>1. MailNumbers' /\ MailFlags'
    <3>1. MailNumbers'
      BY <1>0 DEF MailTypes, MailNumbers
    <3>2. MailFlags'
      BY <1>0 DEF MailTypes, MailFlags
    <3> QED BY <3>1, <3>2
  <2>2. MailInv'
    <3>1. /\ sender \in {"down", "rest"} /\ ~asked'
          /\ \/ UNCHANGED <<day, mails>> /\ (~slipped' => ~slipped)
             \/ day' = day + 1 /\ mails' = 0
          /\ UNCHANGED <<sender, memory, logged>>
      BY Zenon
    <3> QED BY ONLY <1>0, <3>1 DEF MailTypes, MailNumbers, MailInv, MissingMeansTrouble
  <2> QED BY <1>0, <2>1, <2>2, HubKept DEF DailyInv, MailTypes
<1>10. CASE Change
  <2>1. UNCHANGED <<clockVars, asked, sender, memory, logged, mails, slipped, hitch, dull, slips>>
    BY <1>10 DEF Change
  <2>2. MailInv'
    BY <1>0, <2>1 DEF MailInv, MissingMeansTrouble, clockVars
  <2>3. changes' \in 0 .. MaxChanges
    BY <1>0, <1>10 DEF Change, HubTypes
  <2>4. GymsFit' /\ stray' \subseteq {"errors", "burst"}
    <3>1. ASSUME NEW g \in Hubs, NEW k \in DOMAIN Values, ChangeFact(g, k)
          PROVE  GymsFit' /\ UNCHANGED stray
      <4>1. PICK v \in Values[k] : facts' = [facts EXCEPT ![g][k] = v]
        BY <3>1 DEF ChangeFact
      <4>2. facts \in [Hubs -> Facts] /\ \A h \in Hubs : Consistent(facts[h])
        BY <1>0 DEF HubTypes, GymsFit
      <4>3. [facts[g] EXCEPT ![k] = v] \in Facts
        BY <4>2, FactChanges
      <4>4. facts' = [facts EXCEPT ![g] = [facts[g] EXCEPT ![k] = v]]
        BY <4>1
      <4>5. facts' \in [Hubs -> Facts] /\ \A h \in Hubs \ {g} : facts'[h] = facts[h]
        BY <4>2, <4>3, <4>4
      <4>6. Consistent(facts'[g]) /\ UNCHANGED stray
        BY <3>1 DEF ChangeFact
      <4> QED BY <4>2, <4>5, <4>6 DEF GymsFit, Consistent
    <3>2. ASSUME NEW s \in {"errors", "burst"}, ChangeStray(s)
          PROVE  GymsFit' /\ stray' \subseteq {"errors", "burst"}
      BY <1>0, <3>2 DEF ChangeStray, HubTypes, GymsFit
    <3> QED BY <1>0, <1>10, <3>1, <3>2 DEF Change, HubTypes
  <2>5. HubTypes' /\ MailTypes'
    BY <1>0, <2>1, <2>3, <2>4 DEF HubTypes, MailTypes, MailNumbers, MailFlags, clockVars
  <2> QED BY <2>2, <2>5 DEF DailyInv
<1>11. CASE UNCHANGED ownerVars
  BY <1>0, <1>11, HubKept DEF ownerVars, clockVars, DailyInv, MailTypes, MailNumbers, MailFlags, MailInv, MissingMeansTrouble
<1> QED BY <1>2, <1>3, <1>4, <1>5, <1>6, <1>7, <1>8, <1>9, <1>10, <1>11 DEF DailyNext

LEMMA DailyInvHolds == DailyInv => DailyHolds
<1> SUFFICES ASSUME DailyInv PROVE DailyHolds
  OBVIOUS
<1>1. DailyTypeOK
  BY FactsValues DEF DailyInv, HubTypes, MailTypes, MailNumbers, MailFlags, DailyTypeOK, GymsFit
<1>2. AllClearIsClear /\ FailuresBlameNobody
  BY AllClearFromTypes, BlameFromTypes DEF DailyInv, HubTypes
<1>3. MissingMeansTrouble /\ NeverTwice
  BY DEF DailyInv, MailTypes, MailNumbers, MailFlags, MailInv, NeverTwice
<1> QED BY <1>1, <1>2, <1>3 DEF DailyHolds

\* The owner can go by the mail: the subject says "all OK" exactly when no gym
\* is unwell, a query that fails makes no gym red, a quarter of an hour in which
\* nothing failed leaves today's mail out, and no day without a failure has two,
\* whatever restarts there are (computeOwnerHealth, maybeSendOwnerDaily).
THEOREM MailCanBeTrusted == DailySpec => []DailyHolds
<1> QED BY DailyInitInv, DailyNextInv, DailyInvHolds, PTL DEF DailySpec

-----------------------------------------------------------------------------
-----------------------------------------------------------------------------
(* The types.                                                              *)

Requests == [op : PlaceOps \cup {"none"}, place : Places \cup {"none"},
             step : {"idle", "list", "each", "mark", "restore"}, todo : SUBSET PlaceEntry]
PlaceRow == [Places -> {"none", "active", "lapse", "failed"}]
People   == [access : {"active", "inactive", "in_flight"}, enabled : BOOLEAN]
PlaceJobs == [kind : PaymentKinds \cup {"none"}, step : {"idle", "lock", "kisi", "complete"},
              place : Places \cup {"none"}]

LEMMA RolledType == \A m, rows : Rolled(m, rows) \in {"active", "inactive"}
BY DEF Rolled

LEMMA NoReqType == NoPlaceReq \in Requests
BY DEF NoPlaceReq, Requests

LEMMA EntryType ==
    \A m \in Patrons, held \in BOOLEAN, access \in {"active", "inactive", "in_flight", "hand"} :
        /\ Entry(m, held, access) \in PlaceEntry
        /\ Entry(m, held, access).who = m /\ Entry(m, held, access).held = held
        /\ Entry(m, held, access).access = access
BY DEF Entry, PlaceEntry

\* An entry taken in hand keeps its patron.
LEMMA HandType ==
    ASSUME NEW e \in PlaceEntry
    PROVE  /\ [e EXCEPT !.access = "hand"] \in PlaceEntry
           /\ [e EXCEPT !.access = "hand"].who = e.who
           /\ [e EXCEPT !.access = "hand"].held = e.held
           /\ [e EXCEPT !.access = "hand"].access = "hand"
BY DEF PlaceEntry

\* What is left of a scenario is a scenario of the same patrons.
LEMMA MishapLeft ==
    ASSUME placeLeft \in PlaceScenario, NEW f, Mishap(f)
    PROVE  /\ placeLeft' \in PlaceScenario
           /\ placeLeft'.home = placeLeft.home /\ placeLeft'.ops = placeLeft.ops
           /\ placeHappened' = placeHappened \cup {f}
BY DEF Mishap, PlaceScenario

LEMMA CallsLeft ==
    ASSUME placeLeft \in PlaceScenario, NEW r \in PlaceRequests, NEW op, NEW l, Calls(r, op, l)
    PROVE  /\ placeLeft' \in PlaceScenario
           /\ placeLeft'.home = placeLeft.home /\ placeLeft'.ops = placeLeft.ops
           /\ placeHappened' = placeHappened /\ placeReq[r] = NoPlaceReq /\ op \in placeLeft.ops
BY DEF Calls, PlaceScenario

LEMMA PaysLeft ==
    ASSUME placeLeft \in PlaceScenario, NEW m \in Patrons, NEW kind, NEW l, Pays(m, kind, l)
    PROVE  /\ placeLeft' \in PlaceScenario
           /\ placeLeft'.home = placeLeft.home /\ placeLeft'.ops = placeLeft.ops
           /\ placeHappened' = placeHappened /\ placeJob[m] = NoPlaceJob
           /\ placeJob' = [placeJob EXCEPT ![m] = [kind |-> kind, step |-> "lock", place |-> l]]
BY DEF Pays, PlaceScenario

-----------------------------------------------------------------------------
(* What a step does to the lists: the run it is of goes on with fewer      *)
(* entries, or one of them in hand, and nobody else's list changes.        *)

OtherReqs(r) == \A q \in PlaceRequests \ {r} : placeReq'[q] = placeReq[q]

LEMMA NextMemberMoves ==
    ASSUME LapseTypes, NEW r \in PlaceRequests, NEW e \in placeReq[r].todo, NextMember(r, e)
    PROVE  /\ placeReq' \in [PlaceRequests -> Requests] /\ OtherReqs(r)
           /\ placeReq'[r].op = placeReq[r].op /\ placeReq'[r].place = placeReq[r].place
           /\ placeReq'[r].todo = placeReq[r].todo \ {e} /\ placeReq'[r].step = "each"
<1>1. placeReq \in [PlaceRequests -> Requests]
  BY DEF LapseTypes, Requests
<1>2. [placeReq[r] EXCEPT !.todo = @ \ {e}, !.step = "each"] \in Requests
  BY <1>1 DEF Requests
<1>3. placeReq' = [placeReq EXCEPT ![r] = [placeReq[r] EXCEPT !.todo = @ \ {e}, !.step = "each"]]
  BY DEF NextMember
<1>4. /\ placeReq' \in [PlaceRequests -> Requests] /\ OtherReqs(r)
      /\ placeReq'[r] = [placeReq[r] EXCEPT !.todo = @ \ {e}, !.step = "each"]
  BY <1>1, <1>2, <1>3 DEF OtherReqs
<1> QED BY <1>1, <1>4 DEF Requests

LEMMA TakesInHand ==
    ASSUME LapseTypes, NEW r \in PlaceRequests, NEW e \in placeReq[r].todo, NEW at \in {"mark", "restore"},
           placeReq' = [placeReq EXCEPT ![r].step = at, ![r].todo = (@ \ {e}) \cup {[e EXCEPT !.access = "hand"]}]
    PROVE  /\ placeReq' \in [PlaceRequests -> Requests] /\ OtherReqs(r)
           /\ placeReq'[r].op = placeReq[r].op /\ placeReq'[r].place = placeReq[r].place
           /\ placeReq'[r].todo = (placeReq[r].todo \ {e}) \cup {[e EXCEPT !.access = "hand"]}
           /\ placeReq'[r].step = at
<1>1. placeReq \in [PlaceRequests -> Requests]
  BY DEF LapseTypes, Requests
<1>2. [e EXCEPT !.access = "hand"] \in PlaceEntry
  BY <1>1, HandType DEF Requests
<1> DEFINE new == [placeReq[r] EXCEPT !.step = at, !.todo = (@ \ {e}) \cup {[e EXCEPT !.access = "hand"]}]
<1>3. new \in Requests
  BY <1>1, <1>2 DEF Requests
<1>4. placeReq' = [placeReq EXCEPT ![r] = new]
  OBVIOUS
<1>5. placeReq' \in [PlaceRequests -> Requests] /\ OtherReqs(r) /\ placeReq'[r] = new
  BY <1>1, <1>3, <1>4 DEF OtherReqs
<1> QED BY <1>1, <1>5 DEF Requests

LEMMA ClosesMoves ==
    ASSUME LapseTypes, NEW r \in PlaceRequests, Closes(r)
    PROVE  /\ placeReq' \in [PlaceRequests -> Requests] /\ OtherReqs(r)
           /\ placeReq'[r] = NoPlaceReq /\ placeReq'[r].todo = {} /\ placeReq'[r].op = "none"
BY NoReqType DEF Closes, LapseTypes, Requests, OtherReqs, NoPlaceReq

LEMMA OpensMoves ==
    ASSUME LapseTypes, NEW r \in PlaceRequests, NEW op \in PlaceOps, NEW l \in Places,
           NEW step \in {"list", "each"}, NEW todo \in SUBSET PlaceEntry, Opens(r, op, step, l, todo)
    PROVE  /\ placeReq' \in [PlaceRequests -> Requests] /\ OtherReqs(r)
           /\ placeReq'[r] # NoPlaceReq /\ placeReq'[r].op = op /\ placeReq'[r].place = l
           /\ placeReq'[r].step = step /\ placeReq'[r].todo = todo
BY DEF Opens, LapseTypes, Requests, OtherReqs, NoPlaceReq, PlaceOps

\* A transaction leaves a row for each place and the rollup of them.
LEMMA WritesMoves ==
    ASSUME LapseTypes, NEW m \in Patrons, NEW rows \in PlaceRow, Writes(m, rows)
    PROVE  /\ placeRow' \in [Patrons -> PlaceRow] /\ patron' \in [Patrons -> People]
           /\ placeRow'[m] = rows /\ patron'[m].access = Rolled(m, rows)
           /\ \A p \in Patrons \ {m} : placeRow'[p] = placeRow[p] /\ patron'[p] = patron[p]
           /\ \A p \in Patrons : patron'[p].enabled = patron[p].enabled
BY RolledType DEF Writes, LapseTypes, PlaceRow, People

LEMMA SwitchesMoves ==
    ASSUME LapseTypes, NEW m \in Patrons, NEW on \in BOOLEAN, Switches(m, on)
    PROVE  /\ placeRow' = placeRow /\ patron' \in [Patrons -> People]
           /\ patron'[m].enabled = on
           /\ \A p \in Patrons : patron'[p].access = patron[p].access
           /\ \A p \in Patrons \ {m} : patron'[p] = patron[p]
BY DEF Switches, LapseTypes, People

LEMMA MarkedType ==
    ASSUME LapseTypes, NEW m \in Patrons, NEW l \in Places
    PROVE  /\ Marked(m, l) \in PlaceRow /\ Restored(m, l) \in PlaceRow
           /\ \A p \in Places : /\ Marked(m, l)[p] = IF p = l /\ placeRow[m][p] = "active" THEN "lapse" ELSE placeRow[m][p]
                                /\ Restored(m, l)[p] = IF p = l /\ placeRow[m][p] = "lapse" THEN "active" ELSE placeRow[m][p]
BY DEF Marked, Restored, LapseTypes, PlaceRow

-----------------------------------------------------------------------------
(* The actions of one request, and of one patron.                          *)

Opening(r) == \E l \in Places :
    Suspend(r, l, "suspended") \/ Suspend(r, l, "cancelled") \/ Activate(r, l) \/ PatchActive(r, l)
Working(r) == \E e \in placeReq[r].todo :
    SwitchesOff(r, e) \/ MarksLapse(r, e) \/ Passes(r, e) \/ SwitchesOn(r, e) \/ Restores(r, e)
Ending(r)  == SuspendEnds(r) \/ ActivateEnds(r) \/ Dies(r)
Paying(m)  == Declines(m) \/ Recovers(m) \/ \E l \in Places : Purchases(m, l)
Job(m)     == Locks(m) \/ CallsKisi(m) \/ Completes(m) \/ JobFails(m) \/ SweepRolls(m)

LEMMA NextCases ==
    LapseNext => \/ \E r \in PlaceRequests : Opening(r) \/ Working(r) \/ Lists(r) \/ Ending(r)
                 \/ \E m \in Patrons : Paying(m) \/ Job(m)
BY DEF LapseNext, Background, JobGoes, Opening, Working, Ending, Paying, Job

\* The patrons' places and the operator's means stay, and what happened has.
StaysPut == /\ placeLeft'.home = placeLeft.home /\ placeLeft'.ops = placeLeft.ops
        /\ placeHappened \subseteq placeHappened'

LEMMA UneventfulKept == Uneventful => StaysPut /\ placeLeft' = placeLeft /\ placeHappened' = placeHappened
BY DEF Uneventful, StaysPut

LEMMA TypesOpening ==
    ASSUME LapseTypes, NEW r \in PlaceRequests, Opening(r)
    PROVE  LapseTypes' /\ StaysPut
<1>0. placeLeft \in PlaceScenario
  BY DEF LapseTypes
<1>1. ASSUME NEW l \in Places, NEW op \in {"suspended", "cancelled"}, Suspend(r, l, op)
      PROVE  LapseTypes' /\ StaysPut
  <2> DEFINE todo == {Entry(m, FALSE, "active") : m \in
                        {p \in Patrons : placeRow[p][l] = "active" /\ patron[p].access \in {"active", "in_flight"}}}
  <2>1. todo \in SUBSET PlaceEntry /\ op \in PlaceOps
    <3>1. \A m \in Patrons : Entry(m, FALSE, "active") \in PlaceEntry
      BY EntryType
    <3>2. todo \in SUBSET PlaceEntry
      BY <3>1
    <3> QED BY <3>2 DEF PlaceOps
  <2>2. Opens(r, op, "each", l, todo)
    BY <1>1 DEF Suspend
  <2>3. placeReq' \in [PlaceRequests -> Requests]
    BY <2>1, <2>2, OpensMoves
  <2> QED BY <1>0, <1>1, <2>3, CallsLeft DEF Suspend, LapseTypes, Requests, StaysPut, ledger, people
<1>2. ASSUME NEW l \in Places, Activate(r, l) PROVE LapseTypes' /\ StaysPut
  <2>1. placeReq' \in [PlaceRequests -> Requests]
    BY <1>2, OpensMoves DEF Activate, PlaceOps
  <2> QED BY <1>0, <1>2, <2>1, CallsLeft DEF Activate, LapseTypes, Requests, StaysPut, people
<1>3. ASSUME NEW l \in Places, PatchActive(r, l) PROVE LapseTypes' /\ StaysPut
  <2>1. Calls(r, "patch", l) => /\ placeLeft' \in PlaceScenario /\ StaysPut
    BY <1>0, CallsLeft DEF StaysPut
  <2> QED BY <1>3, <2>1 DEF PatchActive, LapseTypes, people
<1> QED BY <1>1, <1>2, <1>3 DEF Opening

LEMMA TypesWorking ==
    ASSUME LapseTypes, RequestsFit, NEW r \in PlaceRequests, Working(r)
    PROVE  LapseTypes' /\ StaysPut
<1>0. /\ placeLeft \in PlaceScenario /\ placeReq[r].todo \subseteq PlaceEntry
      /\ placeReq[r].step # "idle" => placeReq[r].place \in Places
  BY DEF LapseTypes, RequestsFit, NoPlaceReq
<1>a. \A e \in PlaceEntry : e.who \in Patrons
  BY DEF PlaceEntry
<1>1. ASSUME NEW e \in placeReq[r].todo, SwitchesOff(r, e) PROVE LapseTypes' /\ StaysPut
  <2>1. CASE Uneventful /\ Switches(e.who, FALSE) /\ placeReq' = [placeReq EXCEPT ![r].step = "mark", ![r].todo = (@ \ {e}) \cup {[e EXCEPT !.access = "hand"]}]
    <3>1. placeReq' \in [PlaceRequests -> Requests]
      BY <2>1, TakesInHand
    <3>2. placeRow' = placeRow /\ patron' \in [Patrons -> People]
      BY <1>0, <1>a, <2>1, SwitchesMoves
    <3> QED BY <1>1, <2>1, <3>1, <3>2, UneventfulKept DEF SwitchesOff, LapseTypes, Requests, People, ledger
  <2>2. CASE Mishap("kisi") /\ UNCHANGED <<patron, placeRow>> /\ NextMember(r, e)
    <3>1. placeReq' \in [PlaceRequests -> Requests]
      BY <2>2, NextMemberMoves
    <3> QED BY <1>0, <1>1, <2>2, <3>1, MishapLeft DEF SwitchesOff, LapseTypes, Requests, StaysPut, ledger
  <2> QED BY <1>1, <2>1, <2>2 DEF SwitchesOff
<1>2. ASSUME NEW e \in placeReq[r].todo, MarksLapse(r, e) PROVE LapseTypes' /\ StaysPut
  <2>1. placeReq' \in [PlaceRequests -> Requests]
    BY <1>2, NextMemberMoves DEF MarksLapse
  <2>2. CASE Writes(e.who, Marked(e.who, placeReq[r].place)) /\ UNCHANGED placeLeft /\ placeHappened \subseteq placeHappened'
    <3>1. placeRow' \in [Patrons -> PlaceRow] /\ patron' \in [Patrons -> People]
      BY <1>0, <1>a, <1>2, <2>2, MarkedType, WritesMoves DEF MarksLapse
    <3> QED BY <1>2, <2>1, <2>2, <3>1 DEF MarksLapse, LapseTypes, Requests, People, PlaceRow, StaysPut, ledger
  <2>3. CASE Mishap("db") /\ UNCHANGED people
    BY <1>0, <1>2, <2>1, <2>3, MishapLeft DEF MarksLapse, LapseTypes, Requests, StaysPut, ledger, people
  <2> QED BY <1>2, <2>2, <2>3 DEF MarksLapse
<1>3. ASSUME NEW e \in placeReq[r].todo, Passes(r, e) PROVE LapseTypes' /\ StaysPut
  <2>1. placeReq' \in [PlaceRequests -> Requests]
    BY <1>3, NextMemberMoves DEF Passes
  <2>2. placeAlerts' \subseteq [who : Patrons \cup {Everyone}, place : Places]
    BY <1>0, <1>a, <1>3 DEF Passes, LapseTypes
  <2> QED BY <1>3, <2>1, <2>2, UneventfulKept DEF Passes, LapseTypes, Requests, ledger, people
<1>4. ASSUME NEW e \in placeReq[r].todo, SwitchesOn(r, e) PROVE LapseTypes' /\ StaysPut
  <2>1. CASE /\ Switches(e.who, TRUE) /\ placeReq' = [placeReq EXCEPT ![r].step = "restore", ![r].todo = (@ \ {e}) \cup {[e EXCEPT !.access = "hand"]}]
             /\ placeHappened \subseteq placeHappened' /\ UNCHANGED <<placeLeft, placeAlerts>>
    <3>1. placeReq' \in [PlaceRequests -> Requests]
      BY <2>1, TakesInHand
    <3>2. placeRow' = placeRow /\ patron' \in [Patrons -> People]
      BY <1>0, <1>a, <2>1, SwitchesMoves
    <3> QED BY <1>4, <2>1, <3>1, <3>2 DEF SwitchesOn, LapseTypes, Requests, People, StaysPut, ledger
  <2>2. CASE Mishap("kisi") /\ UNCHANGED <<patron, placeRow>> /\ NextMember(r, e) /\ placeAlerts' = placeAlerts \cup {[who |-> e.who, place |-> placeReq[r].place]}
    <3>1. placeReq' \in [PlaceRequests -> Requests]
      BY <2>2, NextMemberMoves
    <3>2. placeAlerts' \subseteq [who : Patrons \cup {Everyone}, place : Places]
      BY <1>0, <1>a, <1>4, <2>2 DEF SwitchesOn, LapseTypes
    <3> QED BY <1>0, <1>4, <2>2, <3>1, <3>2, MishapLeft DEF SwitchesOn, LapseTypes, Requests, StaysPut, ledger
  <2> QED BY <1>4, <2>1, <2>2 DEF SwitchesOn
<1>5. ASSUME NEW e \in placeReq[r].todo, Restores(r, e) PROVE LapseTypes' /\ StaysPut
  <2> DEFINE alert == [who |-> e.who, place |-> placeReq[r].place]
  <2>1. placeReq' \in [PlaceRequests -> Requests]
    BY <1>5, NextMemberMoves DEF Restores
  <2>2. alert \in [who : Patrons \cup {Everyone}, place : Places]
    BY <1>0, <1>a, <1>5 DEF Restores
  <2>3. CASE Uneventful /\ Writes(e.who, Restored(e.who, placeReq[r].place)) /\ placeAlerts' = placeAlerts \ {alert}
    <3>1. placeRow' \in [Patrons -> PlaceRow] /\ patron' \in [Patrons -> People]
      BY <1>0, <1>a, <1>5, <2>3, MarkedType, WritesMoves DEF Restores
    <3> QED BY <1>5, <2>1, <2>3, <3>1, UneventfulKept DEF Restores, LapseTypes, Requests, People, PlaceRow, ledger
  <2>4. CASE Mishap("db") /\ UNCHANGED <<patron, placeRow>> /\ placeAlerts' = placeAlerts \cup {alert}
    BY <1>0, <1>5, <2>1, <2>2, <2>4, MishapLeft DEF Restores, LapseTypes, Requests, StaysPut, ledger
  <2> QED BY <1>5, <2>3, <2>4 DEF Restores
<1> QED BY <1>1, <1>2, <1>3, <1>4, <1>5 DEF Working

LEMMA TypesEnding ==
    ASSUME LapseTypes, RequestsFit, NEW r \in PlaceRequests, Lists(r) \/ Ending(r)
    PROVE  LapseTypes' /\ StaysPut
<1>0. placeLeft \in PlaceScenario
  BY DEF LapseTypes
<1>1. CASE Lists(r)
  <2> DEFINE l      == placeReq[r].place
             marked == {m \in Patrons : placeRow[m][l] = "lapse"}
             todo   == {Entry(m, Held(m), patron[m].access) : m \in marked}
  <2>0. placeReq \in [PlaceRequests -> Requests] /\ l \in Places
    BY <1>1 DEF Lists, LapseTypes, RequestsFit, NoPlaceReq, Requests
  <2>1. UNCHANGED <<ledger, people>>
    BY <1>1 DEF Lists
  <2>2. CASE Closes(r) /\ UNCHANGED placeAlerts /\ (Uneventful \/ Mishap("read"))
    BY <1>0, <2>1, <2>2, ClosesMoves, MishapLeft, UneventfulKept DEF LapseTypes, Requests, ledger, people, StaysPut
  <2>3. CASE /\ placeReq' = [placeReq EXCEPT ![r].step = "each", ![r].todo = todo]
             /\ placeAlerts' \subseteq placeAlerts /\ Uneventful
    <3>1. todo \in SUBSET PlaceEntry
      <4>1. \A m \in Patrons : patron[m].access \in {"active", "inactive", "in_flight"} /\ Held(m) \in BOOLEAN
        BY DEF LapseTypes, Held
      <4>2. \A m \in Patrons : Entry(m, Held(m), patron[m].access) \in PlaceEntry
        BY <4>1, EntryType
      <4> QED BY <4>2
    <3>2. [placeReq[r] EXCEPT !.step = "each", !.todo = todo] \in Requests
      BY <2>0, <3>1 DEF Requests
    <3>3. placeReq' = [placeReq EXCEPT ![r] = [placeReq[r] EXCEPT !.step = "each", !.todo = todo]]
      BY <2>3
    <3>4. placeReq' \in [PlaceRequests -> Requests]
      BY <2>0, <3>2, <3>3
    <3> QED BY <2>1, <2>3, <3>4, UneventfulKept DEF LapseTypes, Requests, ledger, people
  <2>4. CASE Mishap("key") /\ Closes(r) /\ placeAlerts' = placeAlerts \cup {[who |-> Everyone, place |-> l]}
    <3>1. placeAlerts' \subseteq [who : Patrons \cup {Everyone}, place : Places]
      BY <2>0, <2>4 DEF LapseTypes
    <3> QED BY <1>0, <2>1, <2>4, <3>1, ClosesMoves, MishapLeft DEF LapseTypes, Requests, ledger, people, StaysPut
  <2> QED BY <1>1, <2>2, <2>3, <2>4 DEF Lists
<1>2. CASE SuspendEnds(r)
  BY <1>2, ClosesMoves, UneventfulKept DEF SuspendEnds, LapseTypes, Requests, people
<1>3. CASE ActivateEnds(r)
  BY <1>3, ClosesMoves, UneventfulKept DEF ActivateEnds, LapseTypes, Requests, ledger, people
<1>4. CASE Dies(r)
  BY <1>0, <1>4, ClosesMoves, MishapLeft DEF Dies, LapseTypes, Requests, ledger, people, StaysPut
<1> QED BY <1>1, <1>2, <1>3, <1>4 DEF Ending

LEMMA TypesJobs ==
    ASSUME LapseTypes, NEW m \in Patrons, Paying(m) \/ Job(m)
    PROVE  LapseTypes' /\ StaysPut
<1>0. placeLeft \in PlaceScenario /\ placeJob \in [Patrons -> PlaceJobs] /\ NoPlaceJob \in PlaceJobs
  BY DEF LapseTypes, PlaceJobs, NoPlaceJob
<1>1. ASSUME NEW kind \in PaymentKinds, NEW l \in Places \cup {"none"}, Pays(m, kind, l)
      PROVE  placeLeft' \in PlaceScenario /\ StaysPut /\ placeJob' \in [Patrons -> PlaceJobs]
  BY <1>0, <1>1, PaysLeft DEF StaysPut, PlaceJobs
<1>2. CASE Declines(m) \/ Recovers(m)
  BY <1>1, <1>2 DEF Declines, Recovers, PaymentKinds, LapseTypes, PlaceJobs, people
<1>3. ASSUME NEW l \in Places, Purchases(m, l) PROVE LapseTypes' /\ StaysPut
  BY <1>1, <1>3 DEF Purchases, PaymentKinds, LapseTypes, PlaceJobs, people
<1>4. CASE Locks(m)
  <2>1. placeJob' \in [Patrons -> PlaceJobs]
    BY <1>0, <1>4 DEF Locks, PlaceJobs
  <2>2. patron' \in [Patrons -> People]
    <3>1. patron \in [Patrons -> People] /\ patron' = [patron EXCEPT ![m].access = "in_flight"]
      BY <1>4 DEF Locks, LapseTypes, People
    <3> QED BY <3>1 DEF People
  <2> QED BY <1>4, <2>1, <2>2, UneventfulKept DEF Locks, LapseTypes, PlaceJobs, People
<1>5. CASE CallsKisi(m)
  <2>1. placeJob' \in [Patrons -> PlaceJobs]
    BY <1>0, <1>5 DEF CallsKisi, PlaceJobs
  <2>2. patron' \in [Patrons -> People]
    <3> DEFINE on == IF placeJob[m].kind = "purchase" THEN patron[m].enabled ELSE placeJob[m].kind = "recover"
    <3>1. patron \in [Patrons -> People] /\ patron' = [patron EXCEPT ![m].enabled = on]
      BY <1>5 DEF CallsKisi, LapseTypes, People
    <3>2. on \in BOOLEAN
      BY <3>1 DEF People
    <3> QED BY <3>1, <3>2 DEF People
  <2>3. StaysPut /\ placeLeft' = placeLeft
    BY <1>5 DEF CallsKisi, StaysPut
  <2> QED BY <1>5, <2>1, <2>2, <2>3 DEF CallsKisi, LapseTypes, PlaceJobs, People
<1>6. CASE Completes(m)
  <2> DEFINE rows == [l \in Places |->
                        CASE placeJob[m].kind = "decline" -> IF placeRow[m][l] = "active" THEN "failed" ELSE placeRow[m][l]
                          [] placeJob[m].kind = "recover" -> IF placeRow[m][l] \in {"failed", "lapse"} THEN "active" ELSE placeRow[m][l]
                          [] OTHER -> IF l = placeJob[m].place THEN "active" ELSE placeRow[m][l]]
  <2>1. rows \in PlaceRow
    <3>1. \A l \in Places : rows[l] \in {"none", "active", "lapse", "failed"}
      BY DEF LapseTypes
    <3> QED BY <3>1 DEF PlaceRow
  <2>2. Writes(m, rows)
    BY <1>6 DEF Completes
  <2> HIDE DEF rows
  <2>3. placeRow' \in [Patrons -> PlaceRow] /\ patron' \in [Patrons -> People]
    BY <2>1, <2>2, WritesMoves
  <2>4. placeJob' \in [Patrons -> PlaceJobs]
    BY <1>0, <1>6 DEF Completes
  <2> QED BY <1>6, <2>3, <2>4, UneventfulKept DEF Completes, LapseTypes, PlaceJobs, People, PlaceRow
<1>7. CASE JobFails(m)
  <2>1. placeJob' \in [Patrons -> PlaceJobs]
    BY <1>0, <1>7 DEF JobFails
  <2> QED BY <1>0, <1>7, <2>1, MishapLeft DEF JobFails, LapseTypes, PlaceJobs, StaysPut, people
<1>8. CASE SweepRolls(m)
  <2>1. placeRow[m] \in PlaceRow
    BY DEF LapseTypes, PlaceRow
  <2>2. placeRow' \in [Patrons -> PlaceRow] /\ patron' \in [Patrons -> People]
    BY <1>8, <2>1, WritesMoves DEF SweepRolls
  <2> QED BY <1>8, <2>2, UneventfulKept DEF SweepRolls, LapseTypes, People, PlaceRow, ledger
<1> QED BY <1>2, <1>3, <1>4, <1>5, <1>6, <1>7, <1>8 DEF Paying, Job

LEMMA TypesNext == LapseTypes /\ RequestsFit /\ LapseNext => LapseTypes' /\ StaysPut
BY NextCases, TypesOpening, TypesWorking, TypesEnding, TypesJobs

-----------------------------------------------------------------------------
(* Where requests and rows can be.                                         *)

ReqFit(r) ==
  /\ placeReq[r] = NoPlaceReq \/ Suspends(r) \/ Activates(r)
  /\ placeReq[r] # NoPlaceReq => placeReq[r].place \in Places /\ placeReq[r].step # "idle"
  /\ placeReq[r].step \in {"list", "restore"} => Activates(r)
  /\ placeReq[r].step = "mark" => Suspends(r)
  /\ placeReq[r].step = "list" => placeReq[r].todo = {}
  /\ \A e \in placeReq[r].todo : /\ <<e.who, placeReq[r].place>> \in placeLeft.home
                                 /\ Activates(r) /\ e.access = "hand" => ~e.held

LEMMA OthersFit ==
    ASSUME RequestsFit, StaysPut, NEW r \in PlaceRequests, OtherReqs(r), ReqFit(r)'
    PROVE  RequestsFit'
<1>1. \A q \in PlaceRequests \ {r} : ReqFit(q)'
  BY DEF RequestsFit, ReqFit, StaysPut, OtherReqs, Suspends, Activates
<1> QED BY <1>1 DEF RequestsFit, ReqFit

LEMMA ReqsKept == RequestsFit /\ StaysPut /\ UNCHANGED placeReq => RequestsFit'
BY DEF RequestsFit, StaysPut, Suspends, Activates

\* A run that goes on with fewer entries fits as before,
LEMMA FewerFit ==
    ASSUME LapseTypes, RequestsFit, StaysPut, NEW r \in PlaceRequests, NEW e \in placeReq[r].todo,
           NextMember(r, e), placeReq[r].step # "idle"
    PROVE  RequestsFit'
<1>1. ReqFit(r)'
  BY NextMemberMoves DEF RequestsFit, ReqFit, Suspends, Activates, NoPlaceReq, StaysPut
<1> QED BY <1>1, NextMemberMoves, OthersFit

\* and so does one with an entry in hand,
LEMMA HandFit ==
    ASSUME LapseTypes, RequestsFit, StaysPut, NEW r \in PlaceRequests, NEW e \in placeReq[r].todo,
           NEW at \in {"mark", "restore"}, placeReq[r].step = "each",
           at = "mark" => Suspends(r), at = "restore" => Activates(r) /\ ~e.held,
           placeReq' = [placeReq EXCEPT ![r].step = at, ![r].todo = (@ \ {e}) \cup {[e EXCEPT !.access = "hand"]}]
    PROVE  RequestsFit'
<1>0. e \in PlaceEntry
  BY DEF LapseTypes
<1>1. /\ OtherReqs(r) /\ placeReq'[r].op = placeReq[r].op /\ placeReq'[r].place = placeReq[r].place
      /\ placeReq'[r].todo = (placeReq[r].todo \ {e}) \cup {[e EXCEPT !.access = "hand"]}
      /\ placeReq'[r].step = at
  BY TakesInHand
<1>2. Suspends(r)' = Suspends(r) /\ Activates(r)' = Activates(r) /\ ~(Suspends(r) /\ Activates(r))
  BY <1>1 DEF Suspends, Activates
<1>3. ASSUME NEW x \in placeReq'[r].todo
      PROVE  <<x.who, placeReq'[r].place>> \in placeLeft'.home /\ (Activates(r)' /\ x.access = "hand" => ~x.held)
  <2>1. x \in placeReq[r].todo \/ (x.who = e.who /\ x.held = e.held)
    BY <1>0, <1>1, <1>3, HandType
  <2> QED BY <1>1, <1>2, <1>3, <2>1, HandType, <1>0 DEF RequestsFit, StaysPut
<1>4. placeReq[r].place \in Places
  BY DEF RequestsFit, NoPlaceReq
<1>5. ReqFit(r)'
  BY <1>1, <1>2, <1>3, <1>4 DEF ReqFit, RequestsFit, NoPlaceReq
<1> QED BY <1>1, <1>5, OthersFit

\* and one that ends.
LEMMA ClosedFit ==
    ASSUME LapseTypes, RequestsFit, StaysPut, NEW r \in PlaceRequests, Closes(r)
    PROVE  RequestsFit'
<1>1. ReqFit(r)'
  BY ClosesMoves DEF ReqFit, NoPlaceReq, Suspends, Activates
<1> QED BY <1>1, ClosesMoves, OthersFit

LEMMA RequestsNext == LapseTypes /\ RequestsFit /\ RowsFit /\ LapseNext => RequestsFit'
<1> SUFFICES ASSUME LapseTypes, RequestsFit, RowsFit, LapseNext PROVE RequestsFit'
  OBVIOUS
<1>0. StaysPut
  BY TypesNext
<1>1. ASSUME NEW r \in PlaceRequests, NEW l \in Places, NEW op \in {"suspended", "cancelled"}, Suspend(r, l, op)
      PROVE  RequestsFit'
  <2> DEFINE todo == {Entry(m, FALSE, "active") : m \in
                        {p \in Patrons : placeRow[p][l] = "active" /\ patron[p].access \in {"active", "in_flight"}}}
  <2>1. \A m \in Patrons : Entry(m, FALSE, "active") \in PlaceEntry /\ Entry(m, FALSE, "active").who = m
    BY EntryType
  <2>2. todo \in SUBSET PlaceEntry /\ op \in PlaceOps
    <3>1. todo \in SUBSET PlaceEntry
      BY <2>1
    <3> QED BY <3>1 DEF PlaceOps
  <2>3. Opens(r, op, "each", l, todo)
    BY <1>1 DEF Suspend
  <2>4. \A e \in todo : <<e.who, l>> \in placeLeft.home
    <3>1. \A m \in Patrons : placeRow[m][l] = "active" => <<m, l>> \in placeLeft.home
      BY DEF RowsFit
    <3> QED BY <2>1, <3>1
  <2> HIDE DEF todo
  <2>5. ReqFit(r)'
    BY <1>0, <2>2, <2>3, <2>4, OpensMoves DEF ReqFit, Suspends, Activates, StaysPut
  <2> QED BY <1>0, <2>2, <2>3, <2>5, OpensMoves, OthersFit
<1>2. ASSUME NEW r \in PlaceRequests, NEW l \in Places, Activate(r, l) PROVE RequestsFit'
  <2>1. Opens(r, "activate", "list", l, {}) /\ "activate" \in PlaceOps
    BY <1>2 DEF Activate, PlaceOps
  <2>2. ReqFit(r)'
    BY <2>1, OpensMoves DEF ReqFit, Suspends, Activates
  <2> QED BY <1>0, <2>1, <2>2, OpensMoves, OthersFit
<1>3. ASSUME NEW r \in PlaceRequests, NEW e \in placeReq[r].todo, SwitchesOff(r, e) PROVE RequestsFit'
  BY <1>0, <1>3, HandFit, FewerFit DEF SwitchesOff, Suspends
<1>4. ASSUME NEW r \in PlaceRequests, NEW e \in placeReq[r].todo, MarksLapse(r, e) \/ Passes(r, e) \/ Restores(r, e)
      PROVE  RequestsFit'
  BY <1>0, <1>4, FewerFit DEF MarksLapse, Passes, Restores
<1>5. ASSUME NEW r \in PlaceRequests, NEW e \in placeReq[r].todo, SwitchesOn(r, e) PROVE RequestsFit'
  BY <1>0, <1>5, HandFit, FewerFit DEF SwitchesOn, Activates
<1>6. ASSUME NEW r \in PlaceRequests, Lists(r) PROVE RequestsFit'
  <2> DEFINE l      == placeReq[r].place
             marked == {m \in Patrons : placeRow[m][l] = "lapse"}
             todo   == {Entry(m, Held(m), patron[m].access) : m \in marked}
  <2>1. CASE Closes(r)
    BY <1>0, <2>1, ClosedFit
  <2>2. CASE placeReq' = [placeReq EXCEPT ![r].step = "each", ![r].todo = todo]
    <3>1. Activates(r) /\ l \in Places
      BY <1>6 DEF Lists, RequestsFit, NoPlaceReq
    <3>2. \A m \in Patrons : patron[m].access \in {"active", "inactive", "in_flight"} /\ Held(m) \in BOOLEAN
      BY DEF LapseTypes, Held
    <3>3. \A m \in Patrons : /\ Entry(m, Held(m), patron[m].access).who = m
                             /\ Entry(m, Held(m), patron[m].access).access # "hand"
      BY <3>2, EntryType
    <3>a. \A m \in marked : <<m, l>> \in placeLeft.home
      BY <3>1 DEF RowsFit
    <3>4. ASSUME NEW e \in todo PROVE <<e.who, l>> \in placeLeft.home /\ e.access # "hand"
      <4>1. PICK m \in marked : e = Entry(m, Held(m), patron[m].access)
        OBVIOUS
      <4> QED BY <3>3, <3>a, <4>1
    <3> HIDE DEF todo
    <3>5. /\ OtherReqs(r) /\ placeReq'[r].op = placeReq[r].op /\ placeReq'[r].place = l
          /\ placeReq'[r].step = "each" /\ placeReq'[r].todo = todo
      BY <2>2 DEF LapseTypes, OtherReqs
    <3>6. ReqFit(r)'
      BY <1>0, <3>1, <3>4, <3>5 DEF ReqFit, Suspends, Activates, StaysPut, NoPlaceReq
    <3> QED BY <1>0, <3>5, <3>6, OthersFit
  <2> QED BY <1>6, <2>1, <2>2 DEF Lists
<1>7. ASSUME NEW r \in PlaceRequests, Ending(r) PROVE RequestsFit'
  BY <1>0, <1>7, ClosedFit DEF Ending, SuspendEnds, ActivateEnds, Dies
<1>8. ASSUME NEW r \in PlaceRequests, NEW l \in Places, PatchActive(r, l) PROVE RequestsFit'
  BY <1>0, <1>8, ReqsKept DEF PatchActive
<1>9. ASSUME NEW m \in Patrons, Paying(m) \/ Job(m) PROVE RequestsFit'
  BY <1>0, <1>9, ReqsKept DEF Paying, Job, Declines, Recovers, Purchases, Locks, CallsKisi, Completes, JobFails, SweepRolls
<1> QED BY <1>1, <1>2, <1>3, <1>4, <1>5, <1>6, <1>7, <1>8, <1>9, NextCases DEF Opening, Working

\* What the runs do to rows: a row that is none stays none.
LEMMA RowsOfRuns ==
    ASSUME LapseTypes, RequestsFit, NEW r \in PlaceRequests, Opening(r) \/ Working(r) \/ Lists(r) \/ Ending(r)
    PROVE  /\ \A m \in Patrons, l \in Places : placeRow'[m][l] # "none" => placeRow[m][l] # "none"
           /\ UNCHANGED <<placeJob, owes>>
<1>0. placeReq[r].todo \subseteq PlaceEntry /\ \A e \in PlaceEntry : e.who \in Patrons
  BY DEF LapseTypes, PlaceEntry
<1>1. ASSUME NEW e \in placeReq[r].todo, MarksLapse(r, e) \/ Restores(r, e)
      PROVE  /\ \A m \in Patrons, l \in Places : placeRow'[m][l] # "none" => placeRow[m][l] # "none"
             /\ UNCHANGED <<placeJob, owes>>
  <2>1. placeReq[r].place \in Places
    BY <1>1 DEF MarksLapse, Restores, RequestsFit, NoPlaceReq
  <2>2. UNCHANGED placeRow \/ Writes(e.who, Marked(e.who, placeReq[r].place)) \/ Writes(e.who, Restored(e.who, placeReq[r].place))
    BY <1>1 DEF MarksLapse, Restores, people
  <2> QED BY <1>0, <1>1, <2>1, <2>2, WritesMoves, MarkedType DEF MarksLapse, Restores, ledger
<1>2. CASE Opening(r) \/ Lists(r) \/ Ending(r)
  BY <1>2 DEF Opening, Suspend, Activate, PatchActive, Lists, Ending, SuspendEnds, ActivateEnds, Dies, ledger, people
<1>3. ASSUME NEW e \in placeReq[r].todo, SwitchesOff(r, e) \/ SwitchesOn(r, e) \/ Passes(r, e)
      PROVE  UNCHANGED <<placeRow, placeJob, owes>>
  BY <1>3 DEF SwitchesOff, SwitchesOn, Passes, Switches, ledger, people
<1> QED BY <1>1, <1>2, <1>3 DEF Working

LEMMA RowsNext == LapseTypes /\ RequestsFit /\ RowsFit /\ LapseNext => RowsFit'
<1> SUFFICES ASSUME LapseTypes, RequestsFit, RowsFit, LapseNext PROVE RowsFit'
  OBVIOUS
<1>0. StaysPut /\ placeJob \in [Patrons -> PlaceJobs]
  BY TypesNext DEF LapseTypes, PlaceJobs
<1>1. ASSUME NEW r \in PlaceRequests, Opening(r) \/ Working(r) \/ Lists(r) \/ Ending(r) PROVE RowsFit'
  BY <1>0, <1>1, RowsOfRuns DEF RowsFit, StaysPut
<1>2. ASSUME NEW m \in Patrons, NEW kind \in PaymentKinds, NEW l \in Places \cup {"none"}, Pays(m, kind, l),
             UNCHANGED placeRow, owes' \subseteq owes \cup {m}, m \in owes' => kind = "decline",
             kind = "purchase" => <<m, l>> \in placeLeft.home
      PROVE  RowsFit'
  <2>1. placeLeft \in PlaceScenario
    BY DEF LapseTypes
  <2>2. placeJob' = [placeJob EXCEPT ![m] = [kind |-> kind, step |-> "lock", place |-> l]]
    BY <1>2, <2>1, PaysLeft
  <2>3. placeJob'[m] = [kind |-> kind, step |-> "lock", place |-> l] /\ \A p \in Patrons \ {m} : placeJob'[p] = placeJob[p]
    BY <1>0, <2>2
  <2>4. placeJob'[m].kind = kind /\ placeJob'[m].step = "lock" /\ placeJob'[m].place = l
    BY <2>3
  <2>5. \A p \in Patrons \ {m} : p \in owes' => p \in owes
    BY <1>2
  <2>6. kind # "none"
    BY DEF PaymentKinds
  <2> QED BY <1>0, <1>2, <2>3, <2>4, <2>5, <2>6 DEF RowsFit, StaysPut, NoPlaceJob
<1>3. ASSUME NEW m \in Patrons, Declines(m) PROVE RowsFit'
  BY <1>2, <1>3 DEF Declines, PaymentKinds, people
<1>4. ASSUME NEW m \in Patrons, Recovers(m) PROVE RowsFit'
  BY <1>2, <1>4 DEF Recovers, PaymentKinds, people
<1>5. ASSUME NEW m \in Patrons, NEW l \in Places, Purchases(m, l) PROVE RowsFit'
  BY <1>2, <1>5 DEF Purchases, PaymentKinds, people
<1>6. ASSUME NEW m \in Patrons, NEW at \in {"kisi", "complete"},
             placeJob[m].step # "idle", placeJob' = [placeJob EXCEPT ![m].step = at], UNCHANGED <<placeRow, owes>>
      PROVE  RowsFit'
  <2>1. /\ placeJob'[m].kind = placeJob[m].kind /\ placeJob'[m].place = placeJob[m].place /\ placeJob'[m].step = at
        /\ \A p \in Patrons \ {m} : placeJob'[p] = placeJob[p]
    BY <1>0, <1>6 DEF PlaceJobs
  <2> QED BY <1>0, <1>6, <2>1 DEF RowsFit, StaysPut, NoPlaceJob
<1>7. ASSUME NEW m \in Patrons, Locks(m) \/ CallsKisi(m) PROVE RowsFit'
  BY <1>6, <1>7 DEF Locks, CallsKisi
<1>8. ASSUME NEW m \in Patrons, Completes(m) PROVE RowsFit'
  <2> DEFINE rows == [l \in Places |->
                        CASE placeJob[m].kind = "decline" -> IF placeRow[m][l] = "active" THEN "failed" ELSE placeRow[m][l]
                          [] placeJob[m].kind = "recover" -> IF placeRow[m][l] \in {"failed", "lapse"} THEN "active" ELSE placeRow[m][l]
                          [] OTHER -> IF l = placeJob[m].place THEN "active" ELSE placeRow[m][l]]
  <2>1. placeRow' = [placeRow EXCEPT ![m] = rows] /\ placeJob' = [placeJob EXCEPT ![m] = NoPlaceJob] /\ UNCHANGED owes
    BY <1>8 DEF Completes, Writes
  <2>2. placeJob[m].kind \in PaymentKinds
    <3>1. placeJob[m] # NoPlaceJob
      BY <1>8 DEF Completes, NoPlaceJob
    <3> QED BY <1>0, <3>1 DEF RowsFit, PlaceJobs
  <2>3. \A l \in Places : rows[l] # "none" => placeRow[m][l] # "none" \/ (placeJob[m].kind = "purchase" /\ l = placeJob[m].place)
    BY <2>2 DEF PaymentKinds
  <2> HIDE DEF rows
  <2>4. \A p \in Patrons, l \in Places : placeRow'[p][l] # "none" => <<p, l>> \in placeLeft.home
    BY <2>1, <2>3 DEF RowsFit, LapseTypes
  <2> QED BY <1>0, <2>1, <2>4 DEF RowsFit, StaysPut, NoPlaceJob
<1>9. ASSUME NEW m \in Patrons, JobFails(m) PROVE RowsFit'
  BY <1>0, <1>9 DEF JobFails, RowsFit, StaysPut, NoPlaceJob, people
<1>10. ASSUME NEW m \in Patrons, SweepRolls(m) PROVE RowsFit'
  <2>1. placeRow' = placeRow
    BY <1>10 DEF SweepRolls, Writes, LapseTypes
  <2> QED BY <1>0, <1>10, <2>1 DEF SweepRolls, RowsFit, StaysPut, ledger
<1> QED BY <1>1, <1>3, <1>4, <1>5, <1>7, <1>8, <1>9, <1>10, NextCases DEF Paying, Job

-----------------------------------------------------------------------------
(* Who is on the lists, before and after.                                  *)

OnePlaceEach(hs) == \A h, k \in hs : h[1] = k[1] => h[2] = k[2]

LEMMA OneRow ==
    ASSUME RequestsFit, RowsFit, OnePlaceEach(placeLeft.home), NEW m \in Patrons
    PROVE  /\ \A k, l \in Places : placeRow[m][k] # "none" /\ placeRow[m][l] # "none" => k = l
           /\ \A r \in PlaceRequests, l \in Places : OnList(r, m) /\ placeRow[m][l] # "none" => l = placeReq[r].place
<1>1. \A k, l : <<m, k>> \in placeLeft.home /\ <<m, l>> \in placeLeft.home => k = l
  <2>1. \A h, k \in placeLeft.home : h[1] = k[1] => h[2] = k[2]
    BY DEF OnePlaceEach
  <2> QED BY <2>1
<1>2. \A l \in Places : placeRow[m][l] # "none" => <<m, l>> \in placeLeft.home
  BY DEF RowsFit
<1>3. \A r \in PlaceRequests : OnList(r, m) => <<m, placeReq[r].place>> \in placeLeft.home
  BY DEF RequestsFit, OnList
<1> QED BY <1>1, <1>2, <1>3

SameRun(q) == /\ Suspends(q)' = Suspends(q) /\ Activates(q)' = Activates(q)
              /\ placeReq'[q].place = placeReq[q].place
SameList(q) == /\ SameRun(q) /\ placeReq'[q].step = placeReq[q].step
               /\ \A m : /\ InHand(q, m)' = InHand(q, m)
                         /\ Unheld(q, m)' = Unheld(q, m)
                         /\ OnList(q, m)' = OnList(q, m)

LEMMA ListsSame == \A q : placeReq'[q] = placeReq[q] => SameList(q)
BY DEF SameList, SameRun, Suspends, Activates, InHand, Unheld, OnList

LEMMA FewerListed ==
    ASSUME LapseTypes, NEW r \in PlaceRequests, NEW e \in placeReq[r].todo, NextMember(r, e)
    PROVE  /\ \A q \in PlaceRequests \ {r} : SameList(q)
           /\ SameRun(r) /\ placeReq'[r].step = "each"
           /\ \A m : /\ InHand(r, m)' => InHand(r, m)
                     /\ Unheld(r, m)' => Unheld(r, m)
                     /\ OnList(r, m)' => OnList(r, m)
                     /\ InHand(r, m) => InHand(r, m)' \/ (m = e.who /\ e.access = "hand")
                     /\ Unheld(r, m) => Unheld(r, m)' \/ (m = e.who /\ ~e.held)
<1>1. \A q \in PlaceRequests \ {r} : SameList(q)
  BY NextMemberMoves, ListsSame DEF OtherReqs
<1>2. SameRun(r) /\ placeReq'[r].step = "each"
  BY NextMemberMoves DEF SameRun, Suspends, Activates
<1>3. placeReq'[r].todo = placeReq[r].todo \ {e}
  BY NextMemberMoves
<1> QED BY <1>1, <1>2, <1>3 DEF InHand, Unheld, OnList

LEMMA HandListed ==
    ASSUME LapseTypes, NEW r \in PlaceRequests, NEW e \in placeReq[r].todo, NEW at \in {"mark", "restore"},
           placeReq' = [placeReq EXCEPT ![r].step = at, ![r].todo = (@ \ {e}) \cup {[e EXCEPT !.access = "hand"]}]
    PROVE  /\ \A q \in PlaceRequests \ {r} : SameList(q)
           /\ SameRun(r) /\ placeReq'[r].step = at /\ InHand(r, e.who)'
           /\ \A m : /\ InHand(r, m)' => InHand(r, m) \/ m = e.who
                     /\ InHand(r, m) => InHand(r, m)'
                     /\ Unheld(r, m)' = Unheld(r, m)
                     /\ OnList(r, m)' = OnList(r, m)
<1>0. e \in PlaceEntry
  BY DEF LapseTypes
<1> DEFINE taken == [e EXCEPT !.access = "hand"]
<1>1. taken.who = e.who /\ taken.held = e.held /\ taken.access = "hand"
  BY <1>0, HandType
<1>2. \A q \in PlaceRequests \ {r} : SameList(q)
  BY TakesInHand, ListsSame DEF OtherReqs
<1>3. SameRun(r) /\ placeReq'[r].step = at
  BY TakesInHand DEF SameRun, Suspends, Activates
<1>4. placeReq'[r].todo = (placeReq[r].todo \ {e}) \cup {taken}
  BY TakesInHand
<1> HIDE DEF taken
<1>5. InHand(r, e.who)' /\ \A m : /\ InHand(r, m)' => InHand(r, m) \/ m = e.who
                                  /\ InHand(r, m) => InHand(r, m)'
  BY <1>1, <1>4 DEF InHand
<1>6. \A m : Unheld(r, m)' = Unheld(r, m) /\ OnList(r, m)' = OnList(r, m)
  BY <1>1, <1>4 DEF Unheld, OnList
<1> QED BY <1>2, <1>3, <1>5, <1>6

LEMMA ClosedListed ==
    ASSUME LapseTypes, NEW r \in PlaceRequests, Closes(r)
    PROVE  /\ \A q \in PlaceRequests \ {r} : SameList(q)
           /\ ~Suspends(r)' /\ ~Activates(r)' /\ \A m : ~OnList(r, m)'
<1>1. \A q \in PlaceRequests \ {r} : SameList(q)
  BY ClosesMoves, ListsSame DEF OtherReqs
<1> QED BY <1>1, ClosesMoves DEF Suspends, Activates, OnList

LEMMA IdleListed == \A r : placeReq[r] = NoPlaceReq => ~Suspends(r) /\ ~Activates(r) /\ \A m : ~OnList(r, m)
BY DEF NoPlaceReq, Suspends, Activates, OnList

LEMMA OnListOf == \A r, m : InHand(r, m) \/ Unheld(r, m) => OnList(r, m)
BY DEF InHand, Unheld, OnList

LEMMA SuspendListed ==
    ASSUME LapseTypes, NEW r \in PlaceRequests, NEW l \in Places, NEW op \in {"suspended", "cancelled"}, Suspend(r, l, op)
    PROVE  /\ \A q \in PlaceRequests \ {r} : SameList(q)
           /\ ~Suspends(r) /\ ~Activates(r) /\ Suspends(r)' /\ ~Activates(r)' /\ placeReq'[r].place = l
           /\ \A m : ~InHand(r, m)' /\ (OnList(r, m)' => m \in Patrons /\ placeRow[m][l] = "active")
<1> DEFINE listed == {p \in Patrons : placeRow[p][l] = "active" /\ patron[p].access \in {"active", "in_flight"}}
           todo == {Entry(m, FALSE, "active") : m \in listed}
<1>1. \A m \in Patrons : /\ Entry(m, FALSE, "active") \in PlaceEntry /\ Entry(m, FALSE, "active").who = m
                         /\ Entry(m, FALSE, "active").access = "active"
  BY EntryType
<1>2. ASSUME NEW e \in todo PROVE e \in PlaceEntry /\ e.who \in listed /\ e.access = "active"
  <2>1. PICK m \in listed : e = Entry(m, FALSE, "active")
    OBVIOUS
  <2> QED BY <1>1, <2>1
<1>3. todo \in SUBSET PlaceEntry /\ op \in PlaceOps /\ Opens(r, op, "each", l, todo)
  BY <1>2 DEF Suspend, PlaceOps
<1> HIDE DEF todo
<1>4. OtherReqs(r) /\ placeReq'[r].op = op /\ placeReq'[r].place = l /\ placeReq'[r].todo = todo
  BY <1>3, OpensMoves
<1>5. \A m : ~InHand(r, m)' /\ (OnList(r, m)' => m \in Patrons /\ placeRow[m][l] = "active")
  BY <1>2, <1>4 DEF InHand, OnList
<1>6. placeReq[r] = NoPlaceReq
  BY DEF Suspend, Calls
<1> QED BY <1>4, <1>5, <1>6, IdleListed, ListsSame DEF OtherReqs, Suspends, Activates

LEMMA ActivateListed ==
    ASSUME LapseTypes, NEW r \in PlaceRequests, NEW l \in Places, Activate(r, l)
    PROVE  /\ \A q \in PlaceRequests \ {r} : SameList(q)
           /\ ~Suspends(r) /\ ~Activates(r) /\ Activates(r)' /\ ~Suspends(r)' /\ placeReq'[r].place = l
           /\ placeReq'[r].step = "list" /\ \A m : ~OnList(r, m)'
<1>1. Opens(r, "activate", "list", l, {}) /\ "activate" \in PlaceOps /\ placeReq[r] = NoPlaceReq
  BY DEF Activate, PlaceOps, Calls
<1>2. OtherReqs(r) /\ placeReq'[r].op = "activate" /\ placeReq'[r].place = l /\ placeReq'[r].step = "list" /\ placeReq'[r].todo = {}
  BY <1>1, OpensMoves
<1> QED BY <1>1, <1>2, IdleListed, ListsSame DEF OtherReqs, Suspends, Activates, OnList

ListsThem(r) ==
  placeReq' = [placeReq EXCEPT ![r].step = "each",
                               ![r].todo = {Entry(m, Held(m), patron[m].access) : m \in
                                              {p \in Patrons : placeRow[p][placeReq[r].place] = "lapse"}}]

LEMMA MarkedListed ==
    ASSUME LapseTypes, NEW r \in PlaceRequests, ListsThem(r)
    PROVE  /\ \A q \in PlaceRequests \ {r} : SameList(q)
           /\ SameRun(r) /\ \A m : ~InHand(r, m)'
           /\ \A m : Unheld(r, m)' <=> m \in Patrons /\ placeRow[m][placeReq[r].place] = "lapse" /\ m \notin declinedLast
<1> DEFINE marked == {p \in Patrons : placeRow[p][placeReq[r].place] = "lapse"}
           todo == {Entry(m, Held(m), patron[m].access) : m \in marked}
<1>1. \A m \in Patrons : patron[m].access \in {"active", "inactive", "in_flight"} /\ Held(m) \in BOOLEAN
  BY DEF LapseTypes, Held
<1>2. \A m \in Patrons : /\ Entry(m, Held(m), patron[m].access).who = m
                         /\ Entry(m, Held(m), patron[m].access).held = Held(m)
                         /\ Entry(m, Held(m), patron[m].access).access # "hand"
  BY <1>1, EntryType
<1>3. OtherReqs(r) /\ placeReq'[r].op = placeReq[r].op /\ placeReq'[r].place = placeReq[r].place /\ placeReq'[r].todo = todo
  BY DEF LapseTypes, OtherReqs, ListsThem
<1>4. \A m : ~InHand(r, m)'
  BY <1>2, <1>3 DEF InHand
<1>5. ASSUME NEW m, Unheld(r, m)' PROVE m \in marked /\ m \notin declinedLast
  <2>1. PICK e \in todo : e.who = m /\ ~e.held
    BY <1>3, <1>5 DEF Unheld
  <2>2. PICK p \in marked : e = Entry(p, Held(p), patron[p].access)
    BY <2>1
  <2> QED BY <1>2, <2>1, <2>2 DEF Held
<1>6. ASSUME NEW m \in marked, m \notin declinedLast PROVE Unheld(r, m)'
  <2>1. Entry(m, Held(m), patron[m].access) \in todo
    OBVIOUS
  <2>2. Entry(m, Held(m), patron[m].access).who = m /\ ~Entry(m, Held(m), patron[m].access).held
    BY <1>2, <1>6 DEF Held
  <2> QED BY <1>3, <2>1, <2>2 DEF Unheld
<1>7. \A q \in PlaceRequests \ {r} : SameList(q)
  BY <1>3, ListsSame DEF OtherReqs
<1>8. SameRun(r)
  BY <1>3 DEF SameRun, Suspends, Activates
<1> QED BY <1>4, <1>5, <1>6, <1>7, <1>8

-----------------------------------------------------------------------------
(* What a step does to the rows, and the access row that goes with them.   *)

SameRows == UNCHANGED <<patron, placeRow, declinedLast, owes, placeJob>>

LEMMA OpeningRows ==
    ASSUME NEW r \in PlaceRequests, Opening(r) \/ Lists(r) \/ Ending(r)
    PROVE  SameRows
BY DEF SameRows, Opening, Suspend, Activate, PatchActive, Lists, Ending, SuspendEnds, ActivateEnds, Dies, ledger, people

\* What a run in hand does to the patron of the entry.
LEMMA WorkingRows ==
    ASSUME LapseTypes, RequestsFit, NEW r \in PlaceRequests, NEW e \in placeReq[r].todo,
           SwitchesOff(r, e) \/ MarksLapse(r, e) \/ Passes(r, e) \/ SwitchesOn(r, e) \/ Restores(r, e)
    PROVE  /\ e.who \in Patrons /\ UNCHANGED <<owes, placeJob, billing>>
           /\ \A m \in Patrons : \/ patron'[m].access = patron[m].access /\ placeRow'[m] = placeRow[m]
                                 \/ patron'[m].access = Rolled(m, placeRow'[m])
           /\ \A m \in Patrons \ {e.who} : patron'[m] = patron[m] /\ placeRow'[m] = placeRow[m]
           /\ MarksLapse(r, e) \/ Passes(r, e) \/ Restores(r, e) =>
                \A m \in Patrons : patron'[m].enabled = patron[m].enabled
           /\ SwitchesOff(r, e) \/ SwitchesOn(r, e) \/ Passes(r, e) => placeRow' = placeRow /\ declinedLast' = declinedLast
<1>0. placeReq[r].todo \subseteq PlaceEntry /\ \A x \in PlaceEntry : x.who \in Patrons
  BY DEF LapseTypes, PlaceEntry
<1>1. e.who \in Patrons
  BY <1>0
<1>2. CASE SwitchesOff(r, e) \/ SwitchesOn(r, e)
  <2>1. UNCHANGED <<patron, placeRow>> \/ Switches(e.who, FALSE) \/ Switches(e.who, TRUE)
    BY <1>2 DEF SwitchesOff, SwitchesOn
  <2>2. UNCHANGED <<owes, placeJob, billing, declinedLast>>
    BY <1>2 DEF SwitchesOff, SwitchesOn, ledger
  <2>4. /\ placeRow' = placeRow /\ \A m \in Patrons : patron'[m].access = patron[m].access
        /\ \A m \in Patrons \ {e.who} : patron'[m] = patron[m]
    BY <1>1, <2>1, SwitchesMoves
  <2>5. placeReq[r].step = "each" /\ (SwitchesOff(r, e) => Suspends(r)) /\ (SwitchesOn(r, e) => Activates(r) /\ ~e.held /\ e.access # "in_flight")
    BY <1>2 DEF SwitchesOff, SwitchesOn, Suspends, Activates
  <2>6. ~MarksLapse(r, e) /\ ~Restores(r, e) /\ ~Passes(r, e)
    BY <1>2, <2>5 DEF MarksLapse, Restores, Passes, Suspends, Activates, SwitchesOff, SwitchesOn
  <2> QED BY <1>1, <2>2, <2>4, <2>6
<1>3. CASE MarksLapse(r, e) \/ Restores(r, e)
  <2>1. placeReq[r].place \in Places /\ placeReq[r].step \in {"mark", "restore"}
    BY <1>3 DEF MarksLapse, Restores, RequestsFit, NoPlaceReq
  <2>2. UNCHANGED <<patron, placeRow>> \/ Writes(e.who, Marked(e.who, placeReq[r].place)) \/ Writes(e.who, Restored(e.who, placeReq[r].place))
    BY <1>3 DEF MarksLapse, Restores, people
  <2>3. UNCHANGED <<owes, placeJob, billing>>
    BY <1>3 DEF MarksLapse, Restores, ledger
  <2>4. ~SwitchesOff(r, e) /\ ~SwitchesOn(r, e) /\ ~Passes(r, e)
    BY <2>1 DEF SwitchesOff, SwitchesOn, Passes
  <2>5. /\ \A m \in Patrons : \/ patron'[m].access = patron[m].access /\ placeRow'[m] = placeRow[m]
                              \/ patron'[m].access = Rolled(m, placeRow'[m])
        /\ \A m \in Patrons \ {e.who} : patron'[m] = patron[m] /\ placeRow'[m] = placeRow[m]
        /\ \A m \in Patrons : patron'[m].enabled = patron[m].enabled
    BY <1>1, <2>1, <2>2, WritesMoves, MarkedType
  <2> QED BY <1>1, <2>3, <2>4, <2>5
<1>4. CASE Passes(r, e)
  BY <1>1, <1>4 DEF Passes, ledger, people
<1> QED BY <1>2, <1>3, <1>4

JobRows(m) == [l \in Places |->
  CASE placeJob[m].kind = "decline" -> IF placeRow[m][l] = "active" THEN "failed" ELSE placeRow[m][l]
    [] placeJob[m].kind = "recover" -> IF placeRow[m][l] \in {"failed", "lapse"} THEN "active" ELSE placeRow[m][l]
    [] OTHER -> IF l = placeJob[m].place THEN "active" ELSE placeRow[m][l]]

\* What a job completes: the rows of its kind, and the rollup of them.
LEMMA CompletesMoves ==
    ASSUME LapseTypes, RowsFit, NEW m \in Patrons, Completes(m)
    PROVE  /\ placeRow'[m] = JobRows(m) /\ patron'[m].access = Rolled(m, placeRow'[m])
           /\ \A p \in Patrons \ {m} : placeRow'[p] = placeRow[p] /\ patron'[p] = patron[p] /\ placeJob'[p] = placeJob[p]
           /\ \A p \in Patrons : patron'[p].enabled = patron[p].enabled
           /\ placeJob'[m] = NoPlaceJob /\ placeJob[m].kind \in PaymentKinds
           /\ UNCHANGED <<billing, declinedLast, owes, placeReq, placeAlerts, placeHappened, placeLeft>>
<1>1. JobRows(m) \in PlaceRow
  <2>1. \A l \in Places : JobRows(m)[l] \in {"none", "active", "lapse", "failed"}
    BY DEF LapseTypes, JobRows
  <2> QED BY <2>1 DEF PlaceRow, JobRows
<1>2. Writes(m, JobRows(m))
  BY DEF Completes, JobRows
<1>3. placeJob[m] # NoPlaceJob
  BY DEF Completes, NoPlaceJob
<1>4. placeJob[m].kind \in PaymentKinds
  BY <1>3 DEF RowsFit, LapseTypes
<1>5. placeJob'[m] = NoPlaceJob /\ \A p \in Patrons \ {m} : placeJob'[p] = placeJob[p]
  BY DEF Completes, LapseTypes
<1>6. /\ placeRow'[m] = JobRows(m) /\ patron'[m].access = Rolled(m, JobRows(m))
      /\ \A p \in Patrons \ {m} : placeRow'[p] = placeRow[p] /\ patron'[p] = patron[p]
      /\ \A p \in Patrons : patron'[p].enabled = patron[p].enabled
  BY <1>1, <1>2, WritesMoves
<1> QED BY <1>4, <1>5, <1>6 DEF Completes, Uneventful

LEMMA JobStepMoves ==
    ASSUME LapseTypes, NEW m \in Patrons, NEW at \in {"kisi", "complete"}, placeJob' = [placeJob EXCEPT ![m].step = at]
    PROVE  /\ placeJob'[m].kind = placeJob[m].kind /\ placeJob'[m].step = at
           /\ \A p \in Patrons \ {m} : placeJob'[p] = placeJob[p]
BY DEF LapseTypes

LEMMA JobStartMoves ==
    ASSUME LapseTypes, NEW m \in Patrons, Paying(m)
    PROVE  /\ placeJob[m] = NoPlaceJob /\ placeJob'[m].step = "lock" /\ placeJob'[m].kind \in PaymentKinds
           /\ \A p \in Patrons \ {m} : placeJob'[p] = placeJob[p] /\ (p \in owes' <=> p \in owes)
           /\ UNCHANGED <<billing, patron, placeRow, declinedLast, placeReq, placeAlerts, placeHappened>>
<1>1. ASSUME NEW kind \in PaymentKinds, NEW l, Pays(m, kind, l)
      PROVE  /\ placeJob[m] = NoPlaceJob /\ placeJob'[m].step = "lock" /\ placeJob'[m].kind \in PaymentKinds
             /\ \A p \in Patrons \ {m} : placeJob'[p] = placeJob[p]
             /\ UNCHANGED placeHappened
  <2>1. placeJob' = [placeJob EXCEPT ![m] = [kind |-> kind, step |-> "lock", place |-> l]]
    BY <1>1 DEF Pays
  <2> QED BY <1>1, <2>1 DEF Pays, LapseTypes
<1>2. CASE Declines(m)
  BY <1>1, <1>2 DEF Declines, PaymentKinds, people
<1>3. CASE Recovers(m)
  BY <1>1, <1>3 DEF Recovers, PaymentKinds, people
<1>4. ASSUME NEW l \in Places, Purchases(m, l)
      PROVE  /\ placeJob[m] = NoPlaceJob /\ placeJob'[m].step = "lock" /\ placeJob'[m].kind \in PaymentKinds
             /\ \A p \in Patrons \ {m} : placeJob'[p] = placeJob[p] /\ (p \in owes' <=> p \in owes)
             /\ UNCHANGED <<billing, patron, placeRow, declinedLast, placeReq, placeAlerts, placeHappened>>
  BY <1>1, <1>4 DEF Purchases, PaymentKinds, people
<1> QED BY <1>2, <1>3, <1>4 DEF Paying

LEMMA CleanBefore == \A fs : StaysPut /\ Clean(fs)' => Clean(fs)
BY DEF StaysPut, Clean

LEMMA RolledNext == LapseTypes /\ RequestsFit /\ RowsFit /\ RolledUp /\ LapseNext => RolledUp'
<1> SUFFICES ASSUME LapseTypes, RequestsFit, RowsFit, RolledUp, LapseNext, Clean({"job"})',
                    NEW p \in Patrons, placeJob'[p].step \in {"idle", "lock"}
             PROVE  patron'[p].access = Rolled(p, placeRow'[p])
  BY DEF RolledUp, Rolled
<1>0. Clean({"job"})
  BY TypesNext, CleanBefore
<1>a. ASSUME placeJob[p].step \in {"idle", "lock"}, patron'[p].access = patron[p].access, placeRow'[p] = placeRow[p]
      PROVE  patron'[p].access = Rolled(p, placeRow'[p])
  BY <1>0, <1>a DEF RolledUp, Rolled
<1>1. ASSUME NEW r \in PlaceRequests, Opening(r) \/ Lists(r) \/ Ending(r) PROVE patron'[p].access = Rolled(p, placeRow'[p])
  BY <1>1, <1>a, OpeningRows DEF SameRows
<1>2. ASSUME NEW r \in PlaceRequests, Working(r) PROVE patron'[p].access = Rolled(p, placeRow'[p])
  BY <1>2, <1>a, WorkingRows DEF Working
<1>3. ASSUME NEW m \in Patrons, Paying(m) PROVE patron'[p].access = Rolled(p, placeRow'[p])
  BY <1>3, <1>a, JobStartMoves DEF NoPlaceJob
<1>4. ASSUME NEW m \in Patrons, Locks(m) PROVE patron'[p].access = Rolled(p, placeRow'[p])
  <2>1. m # p
    BY <1>4, JobStepMoves DEF Locks
  <2>2. placeJob'[p] = placeJob[p] /\ patron'[p] = patron[p] /\ placeRow' = placeRow
    BY <1>4, <2>1, JobStepMoves DEF Locks, LapseTypes
  <2> QED BY <1>a, <2>2
<1>5. ASSUME NEW m \in Patrons, CallsKisi(m) PROVE patron'[p].access = Rolled(p, placeRow'[p])
  <2>1. m # p
    BY <1>5, JobStepMoves DEF CallsKisi
  <2>2. placeJob'[p] = placeJob[p] /\ patron'[p] = patron[p] /\ placeRow' = placeRow
    BY <1>5, <2>1, JobStepMoves DEF CallsKisi, LapseTypes
  <2> QED BY <1>a, <2>2
<1>6. ASSUME NEW m \in Patrons, Completes(m) PROVE patron'[p].access = Rolled(p, placeRow'[p])
  BY <1>6, <1>a, CompletesMoves
<1>7. ASSUME NEW m \in Patrons, JobFails(m) PROVE FALSE
  BY <1>7 DEF JobFails, Mishap, Clean
<1>8. ASSUME NEW m \in Patrons, SweepRolls(m) PROVE patron'[p].access = Rolled(p, placeRow'[p])
  <2>1. placeRow[m] \in PlaceRow /\ Writes(m, placeRow[m]) /\ UNCHANGED placeJob
    BY <1>8 DEF SweepRolls, LapseTypes, PlaceRow, ledger
  <2> QED BY <1>a, <2>1, WritesMoves
<1> QED BY <1>1, <1>2, <1>3, <1>4, <1>5, <1>6, <1>7, <1>8, NextCases DEF Job

-----------------------------------------------------------------------------
(* Nobody is on in Kisi whom a lapse marked.                               *)

LapseBase == LapseTypes /\ RequestsFit /\ RowsFit /\ OnePlaceEach(placeLeft.home)

\* What holds of a patron still does, when the step is of no concern to them.
LEMMA ShutStays ==
    ASSUME NEW m \in Patrons, Shut(m), patron'[m].enabled => patron[m].enabled,
           Lapsed(m)' => Lapsed(m),
           \A q \in PlaceRequests : /\ Suspends(q)' /\ InHand(q, m)' => Suspends(q) /\ InHand(q, m)
                                    /\ Activates(q) /\ InHand(q, m) => Activates(q)' /\ InHand(q, m)',
           placeJob[m].kind = "recover" /\ placeJob[m].step = "complete" =>
             placeJob'[m].kind = "recover" /\ placeJob'[m].step = "complete"
    PROVE  Shut(m)'
BY DEF Shut

LEMMA ShutNext == LapseBase /\ ShutWhileLapsed /\ LapseNext => ShutWhileLapsed'
<1> SUFFICES ASSUME LapseBase, ShutWhileLapsed, LapseNext, Clean({"db", "crash", "overtaken"})', NEW m \in Patrons
             PROVE  Shut(m)'
  BY DEF ShutWhileLapsed
<1>0. Shut(m) /\ LapseTypes /\ RequestsFit /\ RowsFit
  BY TypesNext, CleanBefore DEF ShutWhileLapsed, LapseBase
<1>a. \A f \in {"db", "crash"} : ~Mishap(f)
  BY DEF Mishap, Clean
<1>b. \A q \in PlaceRequests : ~(Suspends(q) /\ Activates(q))
  BY DEF Suspends, Activates
<1>1. ASSUME NEW r \in PlaceRequests, Opening(r) PROVE Shut(m)'
  <2>1. SameRows
    BY <1>1, OpeningRows
  <2>2. \A q \in PlaceRequests \ {r} : SameList(q)
    BY <1>0, <1>1, SuspendListed, ActivateListed, ListsSame DEF Opening, PatchActive
  <2>3. \/ SameList(r)
        \/ ~Activates(r) /\ ~InHand(r, m)'
    BY <1>0, <1>1, SuspendListed, ActivateListed, ListsSame, OnListOf DEF Opening, PatchActive, OnList, InHand
  <2> QED BY <1>0, <2>1, <2>2, <2>3, ShutStays DEF SameRows, SameList, SameRun, Lapsed
<1>2. ASSUME NEW r \in PlaceRequests, Lists(r) PROVE Shut(m)'
  <2>1. SameRows
    BY <1>2, OpeningRows
  <2>2. ~InHand(r, m)
    BY <1>0, <1>2 DEF Lists, RequestsFit, InHand
  <2>3. (\A q \in PlaceRequests \ {r} : SameList(q)) /\ ~InHand(r, m)'
    <3>1. CASE Closes(r)
      BY <1>0, <3>1, ClosedListed, OnListOf DEF OnList, InHand
    <3>2. CASE ListsThem(r)
      BY <1>0, <3>2, MarkedListed
    <3> QED BY <1>2, <3>1, <3>2 DEF Lists, ListsThem
  <2> QED BY <1>0, <2>1, <2>2, <2>3, ShutStays DEF SameRows, SameList, SameRun, Lapsed
<1>3. ASSUME NEW r \in PlaceRequests, Ending(r) PROVE Shut(m)'
  <2>1. SameRows
    BY <1>3, OpeningRows
  <2>2. Closes(r) /\ (SuspendEnds(r) \/ ActivateEnds(r))
    BY <1>a, <1>3 DEF Ending, SuspendEnds, ActivateEnds, Dies
  <2>3. ~InHand(r, m)
    BY <2>2 DEF SuspendEnds, ActivateEnds, InHand
  <2>4. (\A q \in PlaceRequests \ {r} : SameList(q)) /\ ~Suspends(r)' /\ ~Activates(r)'
    BY <1>0, <2>2, ClosedListed
  <2> QED BY <1>0, <2>1, <2>3, <2>4, ShutStays DEF SameRows, SameList, SameRun, Lapsed
<1>4. ASSUME NEW r \in PlaceRequests, NEW e \in placeReq[r].todo, SwitchesOff(r, e) PROVE Shut(m)'
  <2>1. e.who \in Patrons /\ UNCHANGED <<placeRow, placeJob>>
    BY <1>0, <1>4, WorkingRows
  <2>2. CASE NextMember(r, e) /\ UNCHANGED patron
    <3>1. Suspends(r)
      BY <1>4 DEF SwitchesOff, Suspends
    <3> QED BY <1>0, <1>b, <2>1, <2>2, <3>1, FewerListed, ShutStays DEF SameList, SameRun, Lapsed
  <2>3. CASE Switches(e.who, FALSE) /\ placeReq' = [placeReq EXCEPT ![r].step = "mark", ![r].todo = (@ \ {e}) \cup {[e EXCEPT !.access = "hand"]}]
    <3>1. /\ \A q \in PlaceRequests \ {r} : SameList(q)
          /\ SameRun(r) /\ (InHand(r, m) => InHand(r, m)') /\ (InHand(r, m)' => InHand(r, m) \/ m = e.who)
      BY <1>0, <2>3, HandListed
    <3>2. patron'[e.who].enabled = FALSE /\ (m # e.who => patron'[m] = patron[m])
      BY <1>0, <2>1, <2>3, SwitchesMoves
    <3>3. CASE m = e.who
      BY <3>2, <3>3 DEF Shut
    <3>4. CASE m # e.who
      BY <1>0, <2>1, <3>1, <3>2, <3>4, ShutStays DEF SameList, SameRun, Lapsed
    <3> QED BY <3>3, <3>4
  <2> QED BY <1>4, <2>2, <2>3 DEF SwitchesOff
<1>5. ASSUME NEW r \in PlaceRequests, NEW e \in placeReq[r].todo, MarksLapse(r, e) PROVE Shut(m)'
  <2>1. /\ e.who \in Patrons /\ UNCHANGED placeJob /\ patron'[m].enabled = patron[m].enabled
        /\ m # e.who => placeRow'[m] = placeRow[m]
    BY <1>0, <1>5, WorkingRows
  <2>2. Suspends(r) /\ NextMember(r, e)
    BY <1>0, <1>5 DEF MarksLapse, RequestsFit
  <2>3. /\ \A q \in PlaceRequests \ {r} : SameList(q)
        /\ SameRun(r) /\ (InHand(r, m)' => InHand(r, m))
    BY <1>0, <2>2, FewerListed
  <2>4. CASE m = e.who
    <3>1. InHand(r, m)
      BY <1>5, <2>4 DEF MarksLapse, InHand
    <3>2. ~patron'[m].enabled
      BY <1>0, <2>1, <2>2, <3>1 DEF Shut
    <3> QED BY <3>2 DEF Shut
  <2>5. CASE m # e.who
    BY <1>0, <1>b, <2>1, <2>2, <2>3, <2>5, ShutStays DEF SameList, SameRun, Lapsed
  <2> QED BY <2>4, <2>5
<1>6. ASSUME NEW r \in PlaceRequests, NEW e \in placeReq[r].todo, Passes(r, e) PROVE Shut(m)'
  <2>1. UNCHANGED <<placeRow, placeJob>> /\ patron'[m].enabled = patron[m].enabled /\ NextMember(r, e)
    BY <1>0, <1>6, WorkingRows DEF Passes
  <2>2. e.access # "hand"
    BY <1>0, <1>6 DEF Passes, RequestsFit, Activates
  <2> QED BY <1>0, <2>1, <2>2, FewerListed, ShutStays DEF SameList, SameRun, Lapsed
<1>7. ASSUME NEW r \in PlaceRequests, NEW e \in placeReq[r].todo, SwitchesOn(r, e) PROVE Shut(m)'
  <2>1. e.who \in Patrons /\ UNCHANGED <<placeRow, placeJob>> /\ (m # e.who => patron'[m] = patron[m]) /\ Activates(r)
    BY <1>0, <1>7, WorkingRows DEF SwitchesOn, Activates
  <2>2. CASE NextMember(r, e) /\ UNCHANGED patron
    <3>1. e.access # "hand"
      BY <1>7 DEF SwitchesOn
    <3> QED BY <1>0, <2>1, <2>2, <3>1, FewerListed, ShutStays DEF SameList, SameRun, Lapsed
  <2>3. CASE /\ placeReq' = [placeReq EXCEPT ![r].step = "restore", ![r].todo = (@ \ {e}) \cup {[e EXCEPT !.access = "hand"]}]
             /\ placeHappened' = IF \E q \in PlaceRequests \ {r} : OnList(q, e.who) THEN placeHappened \cup {"overtaken"} ELSE placeHappened
    <3>1. /\ \A q \in PlaceRequests \ {r} : SameList(q)
          /\ SameRun(r) /\ InHand(r, e.who)'
          /\ (InHand(r, m) => InHand(r, m)') /\ (InHand(r, m)' => InHand(r, m) \/ m = e.who)
      BY <1>0, <2>3, HandListed
    <3>2. \A q \in PlaceRequests \ {r} : ~OnList(q, e.who)
      BY <2>3 DEF Clean
    <3>3. CASE m = e.who
      <4>1. Activates(r)' /\ ~Suspends(r)' /\ \A q \in PlaceRequests \ {r} : ~InHand(q, m)'
        BY <2>1, <3>1, <3>2, <3>3, <1>b, OnListOf DEF SameList, SameRun
      <4> QED BY <3>1, <3>3, <4>1 DEF Shut
    <3>4. CASE m # e.who
      BY <1>0, <2>1, <3>1, <3>4, ShutStays DEF SameList, SameRun, Lapsed
    <3> QED BY <3>3, <3>4
  <2> QED BY <1>7, <2>2, <2>3 DEF SwitchesOn
<1>8. ASSUME NEW r \in PlaceRequests, NEW e \in placeReq[r].todo, Restores(r, e) PROVE Shut(m)'
  <2>1. /\ e.who \in Patrons /\ UNCHANGED placeJob /\ patron'[m].enabled = patron[m].enabled
        /\ m # e.who => placeRow'[m] = placeRow[m]
    BY <1>0, <1>8, WorkingRows
  <2>2. Activates(r) /\ NextMember(r, e) /\ placeReq[r].place \in Places
    BY <1>0, <1>8 DEF Restores, RequestsFit, NoPlaceReq
  <2>3. /\ \A q \in PlaceRequests \ {r} : SameList(q)
        /\ SameRun(r) /\ (InHand(r, m)' => InHand(r, m)) /\ (InHand(r, m) => InHand(r, m)' \/ m = e.who)
    BY <1>0, <2>2, FewerListed
  <2>4. CASE m = e.who
    <3>1. placeRow'[m] = Restored(m, placeReq[r].place)
      BY <1>0, <1>a, <1>8, <2>1, <2>2, <2>4, MarkedType, WritesMoves DEF Restores
    <3>2. \A l \in Places : placeRow[m][l] # "none" => l = placeReq[r].place
      BY <1>0, <1>8, <2>4, OneRow DEF LapseBase, OnList
    <3>3. ~Lapsed(m)'
      BY <1>0, <2>2, <3>1, <3>2, MarkedType DEF Lapsed
    <3>4. \A q \in PlaceRequests : Suspends(q)' /\ InHand(q, m)' => Suspends(q) /\ InHand(q, m)
      BY <2>3 DEF SameList, SameRun
    <3> QED BY <1>0, <2>1, <3>3, <3>4 DEF Shut
  <2>5. CASE m # e.who
    BY <1>0, <2>1, <2>2, <2>3, <2>5, ShutStays DEF SameList, SameRun, Lapsed
  <2> QED BY <2>4, <2>5
<1>9. ASSUME NEW p \in Patrons, Paying(p) PROVE Shut(m)'
  <2>1. \A q \in PlaceRequests : SameList(q)
    BY <1>0, <1>9, JobStartMoves, ListsSame
  <2>2. placeJob[m].kind = "recover" /\ placeJob[m].step = "complete" => placeJob'[m] = placeJob[m]
    BY <1>0, <1>9, JobStartMoves DEF NoPlaceJob
  <2> QED BY <1>0, <1>9, <2>1, <2>2, JobStartMoves, ShutStays DEF SameList, SameRun, Lapsed
<1>10. ASSUME NEW p \in Patrons, Locks(p) PROVE Shut(m)'
  <2>1. (\A q \in PlaceRequests : SameList(q)) /\ placeRow' = placeRow
    BY <1>10, ListsSame DEF Locks
  <2>2. patron'[m].enabled = patron[m].enabled
    BY <1>0, <1>10 DEF Locks, LapseTypes
  <2>3. placeJob[m].step = "complete" => placeJob'[m] = placeJob[m]
    BY <1>0, <1>10, JobStepMoves DEF Locks
  <2> QED BY <1>0, <2>1, <2>2, <2>3, ShutStays DEF SameList, SameRun, Lapsed
<1>11. ASSUME NEW p \in Patrons, CallsKisi(p) PROVE Shut(m)'
  <2>1. (\A q \in PlaceRequests : SameList(q)) /\ placeRow' = placeRow
    BY <1>11, ListsSame DEF CallsKisi
  <2>2. placeJob' = [placeJob EXCEPT ![p].step = "complete"] /\ placeJob[p].step = "kisi"
    BY <1>11 DEF CallsKisi
  <2>3. /\ placeJob'[p].kind = placeJob[p].kind /\ placeJob'[p].step = "complete"
        /\ (m # p => placeJob'[m] = placeJob[m])
    BY <1>0, <2>2, JobStepMoves
  <2>4. /\ m # p => patron'[m].enabled = patron[m].enabled
        /\ patron'[p].enabled => patron[p].enabled \/ placeJob[p].kind = "recover"
    BY <1>0, <1>11 DEF CallsKisi, LapseTypes
  <2>5. CASE m = p /\ placeJob[p].kind = "recover"
    <3>1. \A q \in PlaceRequests : ~OnList(q, m)
      BY <1>11, <2>5 DEF CallsKisi, Clean
    <3> QED BY <2>1, <2>3, <2>5, <3>1, OnListOf DEF Shut, SameList
  <2>6. CASE m # p \/ placeJob[p].kind # "recover"
    BY <1>0, <2>1, <2>2, <2>3, <2>4, <2>6, ShutStays DEF SameList, SameRun, Lapsed
  <2> QED BY <2>5, <2>6
<1>12. ASSUME NEW p \in Patrons, Completes(p) PROVE Shut(m)'
  <2>1. \A q \in PlaceRequests : SameList(q)
    BY <1>0, <1>12, CompletesMoves, ListsSame
  <2>2. CASE m # p
    BY <1>0, <1>12, <2>1, <2>2, CompletesMoves, ShutStays DEF SameList, SameRun, Lapsed
  <2>3. CASE m = p /\ placeJob[p].kind = "recover"
    <3>1. placeRow'[m] = JobRows(m) /\ patron'[m].enabled = patron[m].enabled
      BY <1>0, <1>12, <2>3, CompletesMoves
    <3>2. ~Lapsed(m)'
      BY <2>3, <3>1 DEF Lapsed, JobRows
    <3> QED BY <1>0, <2>1, <3>1, <3>2 DEF Shut, SameList, SameRun
  <2>4. CASE m = p /\ placeJob[p].kind # "recover"
    <3>1. placeRow'[m] = JobRows(m) /\ patron'[m].enabled = patron[m].enabled
      BY <1>0, <1>12, <2>4, CompletesMoves
    <3>2. Lapsed(m)' => Lapsed(m)
      BY <2>4, <3>1 DEF Lapsed, JobRows
    <3> QED BY <1>0, <2>1, <2>4, <3>1, <3>2, ShutStays DEF SameList, SameRun
  <2> QED BY <2>2, <2>3, <2>4
<1>13. ASSUME NEW p \in Patrons, JobFails(p) PROVE Shut(m)'
  <2>1. (\A q \in PlaceRequests : SameList(q)) /\ placeRow' = placeRow /\ patron' = patron
    BY <1>13, ListsSame DEF JobFails, people
  <2>2. placeJob[m].step = "complete" => placeJob'[m] = placeJob[m]
    BY <1>0, <1>13 DEF JobFails, LapseTypes
  <2> QED BY <1>0, <2>1, <2>2, ShutStays DEF SameList, SameRun, Lapsed
<1>14. ASSUME NEW p \in Patrons, SweepRolls(p) PROVE Shut(m)'
  <2>1. (\A q \in PlaceRequests : SameList(q)) /\ UNCHANGED placeJob
    BY <1>14, ListsSame DEF SweepRolls, ledger
  <2>2. placeRow[p] \in PlaceRow /\ Writes(p, placeRow[p])
    BY <1>0, <1>14 DEF SweepRolls, LapseTypes, PlaceRow
  <2>3. placeRow'[m] = placeRow[m] /\ patron'[m].enabled = patron[m].enabled
    BY <1>0, <2>2, WritesMoves
  <2> QED BY <1>0, <2>1, <2>3, ShutStays DEF SameList, SameRun, Lapsed
<1> QED BY <1>1, <1>2, <1>3, <1>4, <1>5, <1>6, <1>7, <1>8, <1>9, <1>10, <1>11, <1>12, <1>13, <1>14, NextCases DEF Working, Job

-----------------------------------------------------------------------------
(* Nobody is out at an active place unaccounted for.                       *)

Covers(r, m, l) ==
  /\ placeReq[r].place = l
  /\ Suspends(r) \/ (Activates(r) /\ (placeReq[r].step = "list" \/ Unheld(r, m)))

LEMMA AccountedBy ==
    \A m, l : Accounted(m, l) <=> \/ m \in declinedLast
                                  \/ \E a \in placeAlerts : a.place = l /\ a.who \in {m, Everyone}
                                  \/ \E r \in PlaceRequests : Covers(r, m, l)
BY DEF Accounted, Covers

LEMMA CoversSame == \A r, m, l : SameList(r) /\ Covers(r, m, l) => Covers(r, m, l)'
BY DEF Covers, SameList, SameRun

\* A patron is accounted for while the log, the alerts and the runs stay.
LEMMA AccountedStays ==
    ASSUME NEW m, NEW l, Accounted(m, l), m \in declinedLast => m \in declinedLast',
           \A a \in placeAlerts : a.place = l /\ a.who \in {m, Everyone} => a \in placeAlerts',
           \A q \in PlaceRequests : Covers(q, m, l) => Covers(q, m, l)'
    PROVE  Accounted(m, l)'
<1>1. /\ Accounted(m, l) <=> \/ m \in declinedLast
                             \/ \E a \in placeAlerts : a.place = l /\ a.who \in {m, Everyone}
                             \/ \E r \in PlaceRequests : Covers(r, m, l)
      /\ Accounted(m, l)' <=> \/ m \in declinedLast'
                              \/ \E a \in placeAlerts' : a.place = l /\ a.who \in {m, Everyone}
                              \/ \E r \in PlaceRequests : Covers(r, m, l)'
  BY DEF Accounted, Covers
<1> QED BY <1>1

LEMMA AlertAccounts ==
    ASSUME NEW m, NEW l, NEW who \in {m, Everyone}, [who |-> who, place |-> l] \in placeAlerts'
    PROVE  Accounted(m, l)'
<1> DEFINE alert == [who |-> who, place |-> l]
<1>1. alert \in placeAlerts' /\ alert.place = l /\ alert.who \in {m, Everyone}
  OBVIOUS
<1> QED BY <1>1 DEF Accounted

LEMMA CoversStays ==
    ASSUME NEW r \in PlaceRequests, NEW m, NEW l, \A q \in PlaceRequests \ {r} : SameList(q),
           Covers(r, m, l) => Covers(r, m, l)'
    PROVE  \A q \in PlaceRequests : Covers(q, m, l) => Covers(q, m, l)'
BY CoversSame

LEMMA OutNext == LapseBase /\ OutIsAccounted /\ LapseNext => OutIsAccounted'
<1> SUFFICES ASSUME LapseBase, OutIsAccounted, LapseNext, "patch" \notin placeLeft'.ops, Clean({"crash", "read"})',
                    NEW m \in Patrons, NEW l \in Places, placeRow'[m][l] = "lapse", billing'[l] = "active"
             PROVE  Accounted(m, l)'
  BY DEF OutIsAccounted
<1>0. LapseTypes /\ RequestsFit /\ RowsFit /\ "patch" \notin placeLeft.ops
  BY TypesNext DEF LapseBase, StaysPut
<1>a. \A f \in {"crash", "read"} : ~Mishap(f)
  BY DEF Mishap, Clean
<1>b. placeRow[m][l] = "lapse" /\ billing[l] = "active" => Accounted(m, l)
  BY <1>0, TypesNext, CleanBefore DEF OutIsAccounted, LapseBase
<1>c. \A q : ~(Suspends(q) /\ Activates(q))
  BY DEF Suspends, Activates
<1>1. ASSUME NEW r \in PlaceRequests, NEW k \in Places, NEW op \in {"suspended", "cancelled"}, Suspend(r, k, op)
      PROVE  Accounted(m, l)'
  <2>1. UNCHANGED <<placeRow, billing, declinedLast, placeAlerts>>
    BY <1>1 DEF Suspend, ledger, people
  <2>2. \A q \in PlaceRequests : Covers(q, m, l) => Covers(q, m, l)'
    BY <1>0, <1>1, SuspendListed, CoversSame DEF Covers
  <2> QED BY <1>b, <2>1, <2>2, AccountedStays
<1>2. ASSUME NEW r \in PlaceRequests, NEW k \in Places, Activate(r, k) PROVE Accounted(m, l)'
  <2>1. /\ UNCHANGED <<placeRow, declinedLast, placeAlerts>> /\ billing' = [billing EXCEPT ![k] = "active"]
    BY <1>2 DEF Activate, people
  <2>2. \A q \in PlaceRequests : Covers(q, m, l) => Covers(q, m, l)'
    BY <1>0, <1>2, ActivateListed, CoversSame DEF Covers
  <2>3. CASE l = k
    <3>1. Covers(r, m, l)'
      BY <1>0, <1>2, <2>3, ActivateListed DEF Covers
    <3> QED BY <3>1 DEF Accounted, Covers
  <2>4. CASE l # k
    <3>1. billing[l] = "active"
      BY <1>0, <2>1, <2>4 DEF LapseTypes
    <3> QED BY <1>b, <2>1, <2>2, <3>1, AccountedStays
  <2> QED BY <2>3, <2>4
<1>3. ASSUME NEW r \in PlaceRequests, NEW k \in Places, PatchActive(r, k) PROVE FALSE
  BY <1>0, <1>3 DEF PatchActive, Calls
<1>4. ASSUME NEW r \in PlaceRequests, Lists(r) PROVE Accounted(m, l)'
  <2>1. SameRows /\ UNCHANGED billing
    BY <1>4, OpeningRows DEF Lists, ledger
  <2>2. Accounted(m, l) /\ placeRow[m][l] = "lapse" /\ ~Suspends(r)
    BY <1>0, <1>4, <1>b, <1>c, <2>1 DEF SameRows, Lists, RequestsFit
  <2>3. CASE l # placeReq[r].place
    <3>1. \A q \in PlaceRequests \ {r} : SameList(q)
      BY <1>0, <1>4, ClosedListed, MarkedListed DEF Lists, ListsThem
    <3>2. \A q \in PlaceRequests : Covers(q, m, l) => Covers(q, m, l)'
      BY <2>3, <3>1, CoversSame DEF Covers
    <3>3. \A a \in placeAlerts : a.place = l => a \in placeAlerts'
      BY <1>4, <2>3 DEF Lists
    <3> QED BY <2>1, <2>2, <3>2, <3>3, AccountedStays DEF SameRows
  <2>4. CASE l = placeReq[r].place
    <3>1. CASE ListsThem(r)
      <4>1. CASE m \in declinedLast
        BY <2>1, <4>1 DEF Accounted, SameRows
      <4>2. CASE m \notin declinedLast
        <5>1. Unheld(r, m)' /\ SameRun(r)
          BY <1>0, <2>2, <2>4, <3>1, <4>2, MarkedListed
        <5>2. Covers(r, m, l)'
          BY <1>0, <1>4, <2>4, <5>1 DEF Covers, SameRun, Lists, RequestsFit
        <5> QED BY <5>2 DEF Accounted, Covers
      <4> QED BY <4>1, <4>2
    <3>2. CASE placeAlerts' = placeAlerts \cup {[who |-> Everyone, place |-> placeReq[r].place]}
      BY <2>4, <3>2, AlertAccounts
    <3>3. {p \in Patrons : placeRow[p][placeReq[r].place] = "lapse"} # {}
      BY <2>2, <2>4
    <3> QED BY <1>4, <1>a, <3>1, <3>2, <3>3 DEF Lists, ListsThem
  <2> QED BY <2>3, <2>4
<1>5. ASSUME NEW r \in PlaceRequests, Ending(r) PROVE Accounted(m, l)'
  <2>1. SameRows /\ Closes(r) /\ UNCHANGED placeAlerts
    BY <1>5, <1>a, OpeningRows DEF Ending, SuspendEnds, ActivateEnds, Dies
  <2>2. \A q \in PlaceRequests \ {r} : SameList(q)
    BY <1>0, <2>1, ClosedListed
  <2>3. CASE SuspendEnds(r)
    <3>1. billing' = [billing EXCEPT ![placeReq[r].place] = placeReq[r].op] /\ placeReq[r].op # "active"
      BY <2>3 DEF SuspendEnds
    <3>2. placeReq[r].place # l /\ billing[l] = "active"
      BY <1>0, <3>1 DEF LapseTypes
    <3>3. \A q \in PlaceRequests : Covers(q, m, l) => Covers(q, m, l)'
      BY <2>2, <3>2, CoversSame DEF Covers
    <3> QED BY <1>b, <2>1, <3>2, <3>3, AccountedStays DEF SameRows
  <2>4. CASE ActivateEnds(r)
    <3>1. billing' = billing /\ placeReq[r].step = "each" /\ ~Unheld(r, m) /\ Activates(r)
      BY <2>4 DEF ActivateEnds, ledger, Unheld, Activates
    <3>2. \A q \in PlaceRequests : Covers(q, m, l) => Covers(q, m, l)'
      BY <1>c, <2>2, <3>1, CoversSame DEF Covers
    <3> QED BY <1>b, <2>1, <3>1, <3>2, AccountedStays DEF SameRows
  <2> QED BY <1>5, <1>a, <2>3, <2>4 DEF Ending, Dies
<1>6. ASSUME NEW r \in PlaceRequests, NEW e \in placeReq[r].todo, SwitchesOff(r, e) PROVE Accounted(m, l)'
  <2>1. UNCHANGED <<placeRow, billing, declinedLast, placeAlerts>>
    BY <1>0, <1>6, WorkingRows DEF SwitchesOff
  <2>2. (\A q \in PlaceRequests \ {r} : SameList(q)) /\ SameRun(r) /\ Suspends(r)
    BY <1>0, <1>6, FewerListed, HandListed DEF SwitchesOff, Suspends
  <2>3. \A q \in PlaceRequests : Covers(q, m, l) => Covers(q, m, l)'
    BY <2>2, CoversSame DEF Covers, SameRun
  <2> QED BY <1>b, <2>1, <2>3, AccountedStays
<1>7. ASSUME NEW r \in PlaceRequests, NEW e \in placeReq[r].todo, MarksLapse(r, e) PROVE Accounted(m, l)'
  <2>1. /\ e.who \in Patrons /\ UNCHANGED <<billing, placeAlerts>>
        /\ m # e.who => placeRow'[m] = placeRow[m]
    BY <1>0, <1>7, WorkingRows DEF MarksLapse
  <2>2. Suspends(r) /\ NextMember(r, e) /\ placeReq[r].place \in Places
    BY <1>0, <1>7 DEF MarksLapse, RequestsFit, NoPlaceReq
  <2>3. (\A q \in PlaceRequests \ {r} : SameList(q)) /\ SameRun(r)
    BY <1>0, <2>2, FewerListed
  <2>4. \A q \in PlaceRequests : Covers(q, m, l) => Covers(q, m, l)'
    BY <2>2, <2>3, CoversSame DEF Covers, SameRun
  <2>5. CASE m = e.who
    <3>1. placeRow[m][l] # "none"
      <4>1. placeRow'[m] = placeRow[m] \/ placeRow'[m] = Marked(m, placeReq[r].place)
        BY <1>0, <1>7, <2>1, <2>2, <2>5, MarkedType, WritesMoves DEF MarksLapse, people
      <4> QED BY <1>0, <2>2, <4>1, MarkedType
    <3>2. l = placeReq[r].place
      BY <1>0, <1>7, <2>5, <3>1, OneRow DEF LapseBase, OnList
    <3>3. Covers(r, m, l)'
      BY <2>2, <2>3, <3>2 DEF Covers, SameRun
    <3> QED BY <3>3 DEF Accounted, Covers
  <2>6. CASE m # e.who
    <3>1. m \in declinedLast => m \in declinedLast'
      BY <1>7, <2>6 DEF MarksLapse, people
    <3> QED BY <1>b, <2>1, <2>4, <2>6, <3>1, AccountedStays
  <2> QED BY <2>5, <2>6
<1>8. ASSUME NEW r \in PlaceRequests, NEW e \in placeReq[r].todo, Passes(r, e) PROVE Accounted(m, l)'
  <2>1. UNCHANGED <<placeRow, billing, declinedLast>> /\ NextMember(r, e) /\ placeReq[r].step = "each" /\ Activates(r)
    BY <1>0, <1>8, WorkingRows DEF Passes, Activates
  <2>2. placeAlerts \subseteq placeAlerts' /\ (~e.held => [who |-> e.who, place |-> placeReq[r].place] \in placeAlerts')
    BY <1>8 DEF Passes
  <2>3. /\ \A q \in PlaceRequests \ {r} : SameList(q)
        /\ SameRun(r) /\ (Unheld(r, m) => Unheld(r, m)' \/ (m = e.who /\ ~e.held))
    BY <1>0, <2>1, FewerListed
  <2>4. CASE m = e.who /\ ~e.held /\ l = placeReq[r].place
    BY <2>2, <2>4, AlertAccounts
  <2>5. CASE ~(m = e.who /\ ~e.held /\ l = placeReq[r].place)
    <3>1. \A q \in PlaceRequests : Covers(q, m, l) => Covers(q, m, l)'
      <4>1. Covers(r, m, l) => Covers(r, m, l)'
        BY <1>c, <2>1, <2>3, <2>5 DEF Covers, SameRun
      <4> QED BY <2>3, <4>1, CoversStays
    <3> QED BY <1>b, <2>1, <2>2, <3>1, AccountedStays
  <2> QED BY <2>4, <2>5
<1>9. ASSUME NEW r \in PlaceRequests, NEW e \in placeReq[r].todo, SwitchesOn(r, e) PROVE Accounted(m, l)'
  <2>1. UNCHANGED <<placeRow, billing, declinedLast>> /\ placeReq[r].step = "each" /\ Activates(r)
    BY <1>0, <1>9, WorkingRows DEF SwitchesOn, Activates
  <2>2. CASE NextMember(r, e) /\ placeAlerts' = placeAlerts \cup {[who |-> e.who, place |-> placeReq[r].place]}
    <3>1. /\ \A q \in PlaceRequests \ {r} : SameList(q)
          /\ SameRun(r) /\ (Unheld(r, m) => Unheld(r, m)' \/ (m = e.who /\ ~e.held))
      BY <1>0, <2>2, FewerListed
    <3>2. CASE m = e.who /\ l = placeReq[r].place
      BY <2>2, <3>2, AlertAccounts
    <3>3. CASE ~(m = e.who /\ l = placeReq[r].place)
      <4>1. \A q \in PlaceRequests : Covers(q, m, l) => Covers(q, m, l)'
        <5>1. Covers(r, m, l) => Covers(r, m, l)'
          BY <1>c, <2>1, <3>1, <3>3 DEF Covers, SameRun
        <5> QED BY <3>1, <5>1, CoversStays
      <4> QED BY <1>b, <2>1, <2>2, <4>1, AccountedStays
    <3> QED BY <3>2, <3>3
  <2>3. CASE /\ placeReq' = [placeReq EXCEPT ![r].step = "restore", ![r].todo = (@ \ {e}) \cup {[e EXCEPT !.access = "hand"]}]
             /\ UNCHANGED placeAlerts
    <3>1. (\A q \in PlaceRequests \ {r} : SameList(q)) /\ SameRun(r) /\ Unheld(r, m)' = Unheld(r, m)
      BY <1>0, <2>3, HandListed
    <3>2. \A q \in PlaceRequests : Covers(q, m, l) => Covers(q, m, l)'
      BY <1>c, <2>1, <3>1, CoversSame DEF Covers, SameRun
    <3> QED BY <1>b, <2>1, <2>3, <3>2, AccountedStays
  <2> QED BY <1>9, <2>2, <2>3 DEF SwitchesOn
<1>10. ASSUME NEW r \in PlaceRequests, NEW e \in placeReq[r].todo, Restores(r, e) PROVE Accounted(m, l)'
  <2> DEFINE alert == [who |-> e.who, place |-> placeReq[r].place]
  <2>1. /\ e.who \in Patrons /\ UNCHANGED <<billing, declinedLast>>
        /\ m # e.who => placeRow'[m] = placeRow[m]
    BY <1>0, <1>10, WorkingRows DEF Restores
  <2>2. Activates(r) /\ NextMember(r, e) /\ placeReq[r].place \in Places /\ placeReq[r].step = "restore"
    BY <1>0, <1>10 DEF Restores, RequestsFit, NoPlaceReq
  <2>3. /\ \A q \in PlaceRequests \ {r} : SameList(q)
        /\ SameRun(r) /\ (Unheld(r, m) => Unheld(r, m)' \/ (m = e.who /\ ~e.held))
    BY <1>0, <2>2, FewerListed
  <2>4. CASE placeAlerts' = placeAlerts \cup {alert} /\ m = e.who /\ l = placeReq[r].place
    BY <2>4, AlertAccounts
  <2>5. CASE ~(m = e.who /\ l = placeReq[r].place)
    <3>1. \A q \in PlaceRequests : Covers(q, m, l) => Covers(q, m, l)'
      BY <1>c, <2>2, <2>3, <2>5, CoversSame DEF Covers, SameRun
    <3>2. placeRow[m][l] = "lapse"
      <4>1. placeRow' = placeRow \/ Writes(e.who, Restored(e.who, placeReq[r].place))
        BY <1>10 DEF Restores
      <4>2. m = e.who /\ Writes(e.who, Restored(e.who, placeReq[r].place)) => placeRow'[m] = Restored(m, placeReq[r].place)
        BY <1>0, <2>1, <2>2, MarkedType, WritesMoves
      <4> QED BY <1>0, <2>1, <2>2, <2>5, <4>1, <4>2, MarkedType
    <3>3. Everyone \notin Patrons
      BY LocationLapseAssumption
    <3>4. \A a \in placeAlerts : a.place = l /\ a.who \in {m, Everyone} => a \in placeAlerts'
      <4>1. placeAlerts' = placeAlerts \ {alert} \/ placeAlerts \subseteq placeAlerts'
        BY <1>10 DEF Restores
      <4>2. alert.who = e.who /\ alert.place = placeReq[r].place
        OBVIOUS
      <4> QED BY <2>1, <2>5, <3>3, <4>1, <4>2
    <3> QED BY <1>b, <2>1, <3>1, <3>2, <3>4, AccountedStays
  <2>6. CASE Writes(e.who, Restored(e.who, placeReq[r].place)) /\ m = e.who /\ l = placeReq[r].place
    <3>1. placeRow'[m] = Restored(m, l)
      BY <1>0, <2>1, <2>6, MarkedType, WritesMoves
    <3> QED BY <1>0, <3>1, MarkedType
  <2> QED BY <1>10, <2>4, <2>5, <2>6 DEF Restores
<1>11. ASSUME NEW p \in Patrons, Paying(p) PROVE Accounted(m, l)'
  <2>1. \A q \in PlaceRequests : SameList(q)
    BY <1>0, <1>11, JobStartMoves, ListsSame
  <2> QED BY <1>0, <1>11, <1>b, <2>1, JobStartMoves, CoversSame, AccountedStays
<1>12. ASSUME NEW p \in Patrons, Job(p) PROVE Accounted(m, l)'
  <2>1. UNCHANGED <<billing, placeReq, placeAlerts>> /\ declinedLast \subseteq declinedLast'
    BY <1>12 DEF Job, Locks, CallsKisi, Completes, JobFails, SweepRolls, people, ledger
  <2>2. placeRow[m][l] = "lapse"
    <3>1. CASE Completes(p)
      <4>1. m # p => placeRow'[m] = placeRow[m]
        BY <1>0, <3>1, CompletesMoves
      <4>2. m = p => placeRow'[m] = JobRows(m)
        BY <1>0, <3>1, CompletesMoves
      <4>3. JobRows(m)[l] = "lapse" => placeRow[m][l] = "lapse"
        BY DEF JobRows
      <4> QED BY <4>1, <4>2, <4>3
    <3>2. CASE SweepRolls(p)
      BY <1>0, <3>2 DEF SweepRolls, Writes, LapseTypes
    <3>3. CASE Locks(p) \/ CallsKisi(p) \/ JobFails(p)
      BY <3>3 DEF Locks, CallsKisi, JobFails, people
    <3> QED BY <1>12, <3>1, <3>2, <3>3 DEF Job
  <2>3. \A q \in PlaceRequests : SameList(q)
    BY <2>1, ListsSame
  <2> QED BY <1>b, <2>1, <2>2, <2>3, CoversSame, AccountedStays
<1> QED BY <1>1, <1>2, <1>3, <1>4, <1>5, <1>6, <1>7, <1>8, <1>9, <1>10, <1>11, <1>12, NextCases DEF Opening, Working

-----------------------------------------------------------------------------
(* No run turns on whose payment failed.                                   *)

LEMMA KeptOutStays ==
    ASSUME NEW m \in Patrons, KeptOut(m), placeJob'[m] = placeJob[m], patron'[m].enabled => patron[m].enabled,
           \A l \in Places : placeRow'[m][l] # "none" => placeRow'[m][l] = placeRow[m][l],
           m \in declinedLast => m \in declinedLast',
           \A q \in PlaceRequests : /\ Activates(q)' /\ Unheld(q, m)' => Activates(q) /\ Unheld(q, m)
                                    /\ Suspends(q)' /\ OnList(q, m)' => Suspends(q) /\ OnList(q, m)
    PROVE  KeptOut(m)'
BY DEF KeptOut, DeclineDone, Lapsed

LEMMA DeclinedNext == LapseBase /\ DeclinedIsHeld /\ LapseNext => DeclinedIsHeld'
<1> SUFFICES ASSUME LapseBase, DeclinedIsHeld, LapseNext, Clean({"overtaken", "job"})', NEW m \in Patrons, m \in owes'
             PROVE  KeptOut(m)'
  BY DEF DeclinedIsHeld
<1>0. LapseTypes /\ RequestsFit /\ RowsFit
  BY DEF LapseBase
<1>a. m \in owes => KeptOut(m)
  BY <1>0, TypesNext, CleanBefore DEF DeclinedIsHeld
<1>b. \A q : ~(Suspends(q) /\ Activates(q))
  BY DEF Suspends, Activates
<1>c. placeJob \in [Patrons -> PlaceJobs]
  BY <1>0 DEF LapseTypes, PlaceJobs
<1>1. ASSUME NEW r \in PlaceRequests, NEW k \in Places, NEW op \in {"suspended", "cancelled"}, Suspend(r, k, op)
      PROVE  KeptOut(m)'
  <2>1. UNCHANGED <<patron, placeRow, declinedLast, owes, placeJob>>
    BY <1>1 DEF Suspend, ledger, people
  <2>2. /\ \A q \in PlaceRequests \ {r} : SameList(q)
        /\ ~Activates(r)' /\ (OnList(r, m)' => placeRow[m][k] = "active")
    BY <1>0, <1>1, SuspendListed
  <2>3. CASE ~OnList(r, m)'
    BY <1>a, <2>1, <2>2, <2>3, KeptOutStays DEF SameList, SameRun
  <2>4. CASE placeRow[m][k] = "active"
    <3>1. placeJob[m] # NoPlaceJob
      BY <1>a, <2>1, <2>4 DEF KeptOut
    <3>2. ~Lapsed(m)
      BY <1>0, <2>4, OneRow DEF Lapsed, LapseBase
    <3> QED BY <1>a, <2>1, <2>2, <3>1, <3>2 DEF KeptOut, DeclineDone, Lapsed, SameList, SameRun
  <2> QED BY <2>2, <2>3, <2>4
<1>2. ASSUME NEW r \in PlaceRequests, NEW k \in Places, Activate(r, k) \/ PatchActive(r, k) PROVE KeptOut(m)'
  <2>1. UNCHANGED <<patron, placeRow, declinedLast, owes, placeJob>>
    BY <1>2 DEF Activate, PatchActive, people
  <2>2. /\ \A q \in PlaceRequests \ {r} : SameList(q)
        /\ SameList(r) \/ ~OnList(r, m)'
    BY <1>0, <1>2, ActivateListed, ListsSame DEF PatchActive
  <2>3. ~OnList(r, m)' => ~Unheld(r, m)'
    BY DEF OnList, Unheld
  <2> QED BY <1>a, <2>1, <2>2, <2>3, KeptOutStays DEF SameList, SameRun
<1>3. ASSUME NEW r \in PlaceRequests, Lists(r) \/ Ending(r) PROVE KeptOut(m)'
  <2>1. SameRows
    BY <1>3, OpeningRows
  <2>2. CASE Closes(r)
    <3>1. (\A q \in PlaceRequests \ {r} : SameList(q)) /\ ~Suspends(r)' /\ ~Activates(r)'
      BY <1>0, <2>2, ClosedListed
    <3> QED BY <1>a, <2>1, <3>1, KeptOutStays DEF SameRows, SameList, SameRun
  <2>3. CASE ListsThem(r) /\ Lists(r)
    <3>1. /\ \A q \in PlaceRequests \ {r} : SameList(q)
          /\ SameRun(r) /\ (Unheld(r, m)' => placeRow[m][placeReq[r].place] = "lapse" /\ m \notin declinedLast)
      BY <1>0, <2>3, MarkedListed
    <3>2. Activates(r) /\ placeReq[r].place \in Places
      BY <1>0, <2>3 DEF Lists, RequestsFit, NoPlaceReq
    <3>3. CASE ~Unheld(r, m)'
      BY <1>a, <1>b, <2>1, <3>1, <3>2, <3>3, KeptOutStays DEF SameRows, SameList, SameRun
    <3>4. CASE Unheld(r, m)'
      <4>1. Lapsed(m) /\ m \notin declinedLast
        BY <3>1, <3>2, <3>4 DEF Lapsed
      <4>2. ~DeclineDone(m)
        BY <1>a, <2>1, <4>1 DEF KeptOut, SameRows
      <4> QED BY <2>1, <4>2 DEF KeptOut, DeclineDone, SameRows
    <3> QED BY <3>3, <3>4
  <2> QED BY <1>3, <2>2, <2>3 DEF Lists, ListsThem, Ending, SuspendEnds, ActivateEnds, Dies
<1>4. ASSUME NEW r \in PlaceRequests, NEW e \in placeReq[r].todo, SwitchesOff(r, e) PROVE KeptOut(m)'
  <2>1. e.who \in Patrons /\ UNCHANGED <<placeRow, declinedLast, owes, placeJob>>
    BY <1>0, <1>4, WorkingRows
  <2>2. /\ \A q \in PlaceRequests \ {r} : SameList(q)
        /\ SameRun(r) /\ (Unheld(r, m)' => Unheld(r, m)) /\ (OnList(r, m)' => OnList(r, m))
    BY <1>0, <1>4, FewerListed, HandListed DEF SwitchesOff
  <2>3. patron'[m].enabled => patron[m].enabled
    BY <1>0, <1>4, <2>1, SwitchesMoves DEF SwitchesOff
  <2> QED BY <1>a, <2>1, <2>2, <2>3, KeptOutStays DEF SameList, SameRun
<1>5. ASSUME NEW r \in PlaceRequests, NEW e \in placeReq[r].todo, MarksLapse(r, e) PROVE KeptOut(m)'
  <2>1. /\ e.who \in Patrons /\ UNCHANGED <<owes, placeJob>> /\ patron'[m].enabled = patron[m].enabled
        /\ m # e.who => placeRow'[m] = placeRow[m]
    BY <1>0, <1>5, WorkingRows
  <2>2. Suspends(r) /\ NextMember(r, e) /\ placeReq[r].place \in Places
    BY <1>0, <1>5 DEF MarksLapse, RequestsFit, NoPlaceReq
  <2>3. /\ \A q \in PlaceRequests \ {r} : SameList(q)
        /\ SameRun(r) /\ (Unheld(r, m)' => Unheld(r, m)) /\ (OnList(r, m)' => OnList(r, m))
    BY <1>0, <2>2, FewerListed
  <2>4. CASE UNCHANGED <<placeRow, declinedLast>>
    BY <1>a, <2>1, <2>3, <2>4, KeptOutStays DEF SameList, SameRun
  <2>5. CASE m # e.who /\ declinedLast' = declinedLast \ {e.who}
    BY <1>a, <2>1, <2>3, <2>5, KeptOutStays DEF SameList, SameRun
  <2>6. CASE /\ m = e.who /\ Writes(e.who, Marked(e.who, placeReq[r].place))
             /\ placeHappened' = IF placeJob[e.who] # NoPlaceJob THEN placeHappened \cup {"overtaken"} ELSE placeHappened
    <3>1. placeJob[m] = NoPlaceJob /\ OnList(r, m)
      BY <2>6 DEF Clean, OnList
    <3>2. /\ ~patron[m].enabled /\ ~Lapsed(m) /\ (\A l \in Places : placeRow[m][l] # "active")
          /\ \A q \in PlaceRequests : Activates(q) => ~Unheld(q, m)
      BY <1>a, <2>1, <2>2, <3>1 DEF KeptOut, DeclineDone
    <3>3. placeRow'[m] = Marked(m, placeReq[r].place)
      BY <1>0, <2>1, <2>2, <2>6, MarkedType, WritesMoves
    <3>4. \A l \in Places : placeRow'[m][l] = placeRow[m][l]
      BY <1>0, <2>2, <3>2, <3>3, MarkedType
    <3>5. ~Lapsed(m)'
      BY <3>2, <3>4 DEF Lapsed
    <3> QED BY <2>1, <2>3, <3>2, <3>4, <3>5 DEF KeptOut, SameList, SameRun
  <2> QED BY <1>5, <2>4, <2>5, <2>6 DEF MarksLapse, people
<1>6. ASSUME NEW r \in PlaceRequests, NEW e \in placeReq[r].todo, Passes(r, e) PROVE KeptOut(m)'
  <2>1. /\ UNCHANGED <<placeRow, declinedLast, owes, placeJob>> /\ patron'[m].enabled = patron[m].enabled
        /\ NextMember(r, e)
    BY <1>0, <1>6, WorkingRows DEF Passes
  <2> QED BY <1>0, <1>a, <2>1, FewerListed, KeptOutStays DEF SameList, SameRun
<1>7. ASSUME NEW r \in PlaceRequests, NEW e \in placeReq[r].todo, SwitchesOn(r, e) PROVE KeptOut(m)'
  <2>1. /\ e.who \in Patrons /\ UNCHANGED <<placeRow, declinedLast, owes, placeJob>> /\ Activates(r)
        /\ m # e.who => patron'[m] = patron[m]
    BY <1>0, <1>7, WorkingRows DEF SwitchesOn, Activates
  <2>2. /\ \A q \in PlaceRequests \ {r} : SameList(q)
        /\ SameRun(r) /\ (Unheld(r, m)' => Unheld(r, m)) /\ (OnList(r, m)' => OnList(r, m))
    BY <1>0, <1>7, FewerListed, HandListed DEF SwitchesOn
  <2>3. CASE m # e.who
    BY <1>a, <2>1, <2>2, <2>3, KeptOutStays DEF SameList, SameRun
  <2>4. CASE m = e.who
    <3>1. Unheld(r, m)
      BY <1>7, <2>4 DEF SwitchesOn, Unheld
    <3>2. ~DeclineDone(m)
      BY <1>a, <2>1, <3>1 DEF KeptOut
    <3> QED BY <2>1, <3>2 DEF KeptOut, DeclineDone
  <2> QED BY <2>3, <2>4
<1>8. ASSUME NEW r \in PlaceRequests, NEW e \in placeReq[r].todo, Restores(r, e) PROVE KeptOut(m)'
  <2>1. /\ e.who \in Patrons /\ UNCHANGED <<owes, placeJob, declinedLast>> /\ patron'[m].enabled = patron[m].enabled
        /\ m # e.who => placeRow'[m] = placeRow[m]
    BY <1>0, <1>8, WorkingRows DEF Restores
  <2>2. Activates(r) /\ NextMember(r, e)
    BY <1>0, <1>8 DEF Restores, RequestsFit
  <2>3. /\ \A q \in PlaceRequests \ {r} : SameList(q)
        /\ SameRun(r) /\ (Unheld(r, m)' => Unheld(r, m)) /\ (OnList(r, m)' => OnList(r, m))
    BY <1>0, <2>2, FewerListed
  <2>4. CASE m # e.who
    BY <1>a, <2>1, <2>3, <2>4, KeptOutStays DEF SameList, SameRun
  <2>5. CASE m = e.who
    <3>1. Unheld(r, m)
      BY <1>0, <1>8, <2>2, <2>5 DEF Restores, Unheld, RequestsFit
    <3>2. ~DeclineDone(m)
      BY <1>a, <2>1, <2>2, <3>1 DEF KeptOut
    <3> QED BY <2>1, <3>2 DEF KeptOut, DeclineDone
  <2> QED BY <2>4, <2>5
<1>9. ASSUME NEW p \in Patrons, Paying(p) PROVE KeptOut(m)'
  <2>1. \A q \in PlaceRequests : SameList(q)
    BY <1>0, <1>9, JobStartMoves, ListsSame
  <2>2. CASE m = p
    <3>1. ~DeclineDone(m)' /\ placeJob'[m] # NoPlaceJob
      BY <1>0, <1>9, <2>2, JobStartMoves DEF DeclineDone, NoPlaceJob
    <3> QED BY <3>1 DEF KeptOut
  <2>3. CASE m # p
    BY <1>0, <1>9, <1>a, <2>1, <2>3, JobStartMoves, KeptOutStays DEF SameList, SameRun
  <2> QED BY <2>2, <2>3
<1>10. ASSUME NEW p \in Patrons, Locks(p) PROVE KeptOut(m)'
  <2>1. /\ UNCHANGED <<placeRow, declinedLast, owes, placeReq>> /\ (m # p => patron'[m] = patron[m])
    BY <1>0, <1>10 DEF Locks, LapseTypes
  <2>2. placeJob'[p].step = "kisi" /\ (m # p => placeJob'[m] = placeJob[m])
    BY <1>0, <1>10, JobStepMoves DEF Locks
  <2>3. CASE m = p
    BY <2>2, <2>3 DEF KeptOut, DeclineDone, NoPlaceJob
  <2>4. CASE m # p
    BY <1>a, <2>1, <2>2, <2>4, ListsSame, KeptOutStays DEF SameList, SameRun
  <2> QED BY <2>3, <2>4
<1>11. ASSUME NEW p \in Patrons, CallsKisi(p) PROVE KeptOut(m)'
  <2>1. UNCHANGED <<placeRow, owes, placeReq>> /\ declinedLast \subseteq declinedLast'
    BY <1>11 DEF CallsKisi
  <2>2. placeJob' = [placeJob EXCEPT ![p].step = "complete"] /\ placeJob[p].step = "kisi"
    BY <1>11 DEF CallsKisi
  <2>3. /\ placeJob'[p].step = "complete" /\ placeJob'[p].kind = placeJob[p].kind
        /\ m # p => placeJob'[m] = placeJob[m]
    BY <1>0, <2>2, JobStepMoves
  <2>4. \A q \in PlaceRequests : SameList(q)
    BY <2>1, ListsSame
  <2>5. CASE m = p
    <3>1. placeJob[m].kind = "decline"
      <4>1. placeJob[m] # NoPlaceJob
        BY <2>2, <2>5 DEF NoPlaceJob
      <4> QED BY <1>0, <2>1, <4>1 DEF RowsFit
    <3>2. ~patron'[m].enabled /\ m \in declinedLast'
      BY <1>0, <1>11, <2>5, <3>1 DEF CallsKisi, LapseTypes
    <3>3. \A q \in PlaceRequests : ~OnList(q, m)
      BY <1>11, <2>5 DEF CallsKisi, Clean
    <3>4. placeJob'[m] # NoPlaceJob
      BY <2>3, <2>5 DEF NoPlaceJob
    <3> QED BY <2>4, <3>2, <3>3, <3>4, OnListOf DEF KeptOut, SameList
  <2>6. CASE m # p
    <3>1. patron'[m] = patron[m]
      BY <1>0, <1>11, <2>6 DEF CallsKisi, LapseTypes
    <3> QED BY <1>a, <2>1, <2>3, <2>4, <2>6, <3>1, KeptOutStays DEF SameList, SameRun
  <2> QED BY <2>5, <2>6
<1>12. ASSUME NEW p \in Patrons, Completes(p) PROVE KeptOut(m)'
  <2>1. (\A q \in PlaceRequests : SameList(q)) /\ UNCHANGED <<declinedLast, owes>> /\ patron'[m].enabled = patron[m].enabled
    BY <1>0, <1>12, CompletesMoves, ListsSame
  <2>2. CASE m # p
    BY <1>0, <1>12, <1>a, <2>1, <2>2, CompletesMoves, KeptOutStays DEF SameList, SameRun
  <2>3. CASE m = p
    <3>1. placeJob[m].kind = "decline" /\ placeJob[m].step = "complete"
      <4>1. placeJob[m].step = "complete"
        BY <1>12, <2>3 DEF Completes
      <4>2. placeJob[m] # NoPlaceJob
        BY <4>1 DEF NoPlaceJob
      <4> QED BY <1>0, <2>1, <4>1, <4>2 DEF RowsFit
    <3>2. placeRow'[m] = JobRows(m) /\ placeJob'[m] = NoPlaceJob
      BY <1>0, <1>12, <2>3, CompletesMoves
    <3>3. /\ \A l \in Places : placeRow'[m][l] # "active"
          /\ Lapsed(m)' => Lapsed(m)
      BY <3>1, <3>2 DEF JobRows, Lapsed
    <3> QED BY <1>a, <2>1, <3>1, <3>3 DEF KeptOut, DeclineDone, SameList, SameRun
  <2> QED BY <2>2, <2>3
<1>13. ASSUME NEW p \in Patrons, JobFails(p) PROVE FALSE
  BY <1>13 DEF JobFails, Mishap, Clean
<1>14. ASSUME NEW p \in Patrons, SweepRolls(p) PROVE KeptOut(m)'
  <2>1. UNCHANGED <<placeJob, owes, placeReq, declinedLast>>
    BY <1>14 DEF SweepRolls, ledger
  <2>2. placeRow[p] \in PlaceRow /\ Writes(p, placeRow[p])
    BY <1>0, <1>14 DEF SweepRolls, LapseTypes, PlaceRow
  <2>3. placeRow'[m] = placeRow[m] /\ patron'[m].enabled = patron[m].enabled
    BY <1>0, <2>2, WritesMoves
  <2> QED BY <1>a, <2>1, <2>3, ListsSame, KeptOutStays DEF SameList, SameRun
<1> QED BY <1>1, <1>2, <1>3, <1>4, <1>5, <1>6, <1>7, <1>8, <1>9, <1>10, <1>11, <1>12, <1>13, <1>14, NextCases DEF Opening, Working, Job

-----------------------------------------------------------------------------
(* The theorem.                                                            *)

LapseIInv == LapseInv /\ OnePlaceEach(placeLeft.home)

LEMMA LapseStarts ==
    ASSUME \A sc \in PlaceScenarios : OnePlaceEach(sc.home)
    PROVE  LapseInit => LapseIInv
<1> SUFFICES ASSUME LapseInit PROVE LapseIInv
  OBVIOUS
<1>1. placeLeft \in PlaceScenario /\ OnePlaceEach(placeLeft.home)
  BY LocationLapseAssumption DEF LapseInit
<1>2. \A m \in Patrons, l \in Places :
        placeRow[m][l] = IF <<m, l>> \in placeLeft.home THEN "active" ELSE "none"
  BY DEF LapseInit
<1>3. \A m \in Patrons : patron[m].access = Rolled(m, placeRow[m]) /\ placeJob[m] = NoPlaceJob
  BY DEF LapseInit
<1>4. \A r \in PlaceRequests : placeReq[r] = NoPlaceReq
  BY DEF LapseInit
<1>5. LapseTypes
  <2>1. placeRow \in [Patrons -> PlaceRow]
    BY DEF LapseInit, PlaceRow
  <2>2. patron \in [Patrons -> People]
    BY RolledType DEF LapseInit, People
  <2>3. placeJob \in [Patrons -> PlaceJobs]
    BY DEF LapseInit, NoPlaceJob, PlaceJobs
  <2>4. placeReq \in [PlaceRequests -> Requests]
    BY NoReqType DEF LapseInit
  <2> QED BY <1>1, <2>1, <2>2, <2>3, <2>4 DEF LapseInit, LapseTypes, PlaceRow, People, PlaceJobs, Requests
<1>6. \A m \in Patrons, l \in Places : placeRow[m][l] # "lapse"
  BY <1>2
<1>7. RequestsFit
  BY <1>4 DEF RequestsFit, NoPlaceReq
<1>8. RowsFit
  BY <1>2, <1>3 DEF RowsFit, NoPlaceJob
<1>9. RolledUp
  BY <1>3 DEF RolledUp
<1>10. ShutWhileLapsed
  BY <1>4, <1>6, IdleListed DEF ShutWhileLapsed, Shut, Lapsed
<1>11. OutIsAccounted
  BY <1>6 DEF OutIsAccounted
<1>12. DeclinedIsHeld
  BY DEF DeclinedIsHeld, LapseInit
<1> QED BY <1>1, <1>5, <1>7, <1>8, <1>9, <1>10, <1>11, <1>12 DEF LapseIInv, LapseInv

LEMMA LapseStutters == LapseIInv /\ UNCHANGED placeVars => LapseIInv'
<1> SUFFICES ASSUME LapseIInv, UNCHANGED placeVars PROVE LapseIInv'
  OBVIOUS
<1>1. UNCHANGED <<billing, patron, placeRow, declinedLast, owes, placeJob, placeReq, placeAlerts, placeLeft, placeHappened>>
  BY DEF placeVars
<1>2. /\ \A q \in PlaceRequests : SameList(q)
      /\ \A m : Lapsed(m)' = Lapsed(m) /\ DeclineDone(m)' = DeclineDone(m)
      /\ \A fs : Clean(fs)' = Clean(fs)
  BY <1>1, ListsSame DEF Lapsed, DeclineDone, Clean
<1>3. LapseTypes'
  BY <1>1 DEF LapseIInv, LapseInv, LapseTypes
<1>4. RequestsFit' /\ RowsFit'
  BY <1>1 DEF LapseIInv, LapseInv, RequestsFit, RowsFit, Suspends, Activates
<1>5. RolledUp'
  BY <1>1, <1>2 DEF LapseIInv, LapseInv, RolledUp, Rolled
<1>6. ShutWhileLapsed'
  BY <1>1, <1>2 DEF LapseIInv, LapseInv, ShutWhileLapsed, Shut, SameList, SameRun
<1>7. OutIsAccounted'
  BY <1>1, <1>2, CoversSame, AccountedStays DEF LapseIInv, LapseInv, OutIsAccounted
<1>8. DeclinedIsHeld'
  BY <1>1, <1>2 DEF LapseIInv, LapseInv, DeclinedIsHeld, KeptOut, SameList, SameRun
<1> QED BY <1>1, <1>3, <1>4, <1>5, <1>6, <1>7, <1>8 DEF LapseIInv, LapseInv

LEMMA LapseSteps == LapseIInv /\ [LapseNext]_placeVars => LapseIInv'
<1> SUFFICES ASSUME LapseIInv, LapseNext PROVE LapseIInv'
  BY LapseStutters
<1>1. LapseBase /\ LapseTypes /\ RequestsFit /\ RowsFit
  BY DEF LapseIInv, LapseInv, LapseBase
<1>2. LapseTypes' /\ OnePlaceEach(placeLeft'.home)
  BY <1>1, TypesNext DEF LapseIInv, StaysPut
<1>3. RequestsFit' /\ RowsFit'
  BY <1>1, RequestsNext, RowsNext
<1>4. RolledUp'
  BY <1>1, RolledNext DEF LapseIInv, LapseInv
<1>5. ShutWhileLapsed' /\ OutIsAccounted' /\ DeclinedIsHeld'
  BY <1>1, ShutNext, OutNext, DeclinedNext DEF LapseIInv, LapseInv
<1> QED BY <1>2, <1>3, <1>4, <1>5 DEF LapseIInv, LapseInv

LEMMA LapseHolds == LapseIInv => PlacesHold
<1> SUFFICES ASSUME LapseIInv PROVE PlacesHold
  OBVIOUS
<1>1. \A m \in Patrons : AllQuiet(m) => placeJob[m] = NoPlaceJob /\ \A r \in PlaceRequests : ~Suspends(r) /\ ~Activates(r)
  BY IdleListed DEF AllQuiet
<1>2. PlaceTypeOK
  BY <1>1 DEF LapseIInv, LapseInv, LapseTypes, RolledUp, NoPlaceJob, PlaceTypeOK, Clean
<1>3. LapsedIsShut
  BY <1>1 DEF LapseIInv, LapseInv, ShutWhileLapsed, Shut, Lapsed, Clean, NoPlaceJob, LapsedIsShut
<1>4. StillOutIsAlerted
  BY <1>1 DEF LapseIInv, LapseInv, OutIsAccounted, Accounted, Clean, StillOutIsAlerted
<1>5. DeclinedStaysOut
  BY <1>1 DEF LapseIInv, LapseInv, DeclinedIsHeld, KeptOut, DeclineDone, Clean, DeclinedStaysOut
<1> QED BY <1>2, <1>3, <1>4, <1>5 DEF PlacesHold

(* Where every patron has a row at one place only, whatever the requests,  *)
(* payments and faults that cross: a lapse shuts out whom it marks, an     *)
(* activation brings back whom it may or says whom it did not, and turns   *)
(* nobody on whose payment failed (core/location-lapse.js).  With two      *)
(* places it is not so: Kisi's flag is one for all of them.                *)
THEOREM PlacesAreKept ==
    ASSUME \A sc \in PlaceScenarios : OnePlaceEach(sc.home)
    PROVE  LapseSpec => []PlacesHold
<1>1. LapseInit => LapseIInv
  BY LapseStarts
<1>2. LapseIInv /\ [LapseNext]_placeVars => LapseIInv'
  BY LapseSteps
<1>3. LapseIInv => PlacesHold
  BY LapseHolds
<1> QED BY <1>1, <1>2, <1>3, PTL DEF LapseSpec

-----------------------------------------------------------------------------
USE LinkAssumption

(* The smaller of two numbers. *)
LEMMA MinOfTwo ==
  ASSUME NEW a \in Nat, NEW b \in Nat
  PROVE  /\ Min({a, b}) \in {a, b}
         /\ Min({a, b}) <= a /\ Min({a, b}) <= b
<1>1. CASE a <= b
  <2>1. a \in {a, b} /\ \A y \in {a, b} : a =< y
    BY <1>1
  <2> QED BY <2>1 DEF Min
<1>2. CASE b <= a
  <2>1. b \in {a, b} /\ \A y \in {a, b} : b =< y
    BY <1>2
  <2> QED BY <2>1 DEF Min
<1> QED BY <1>1, <1>2

(* An age grows by one up to its cap. *)
LEMMA Grown ==
  ASSUME NEW cap \in Nat, NEW a \in 0 .. cap
  PROVE  /\ Min({a + 1, cap}) \in 0 .. cap
         /\ a <= Min({a + 1, cap}) /\ Min({a + 1, cap}) <= a + 1
         /\ a < cap => Min({a + 1, cap}) = a + 1
BY MinOfTwo

LEMMA Numbers == Horizon \in Nat /\ Lag < Horizon /\ 0 < Horizon /\ Ttl - 1 + 2 * Lag < Horizon
BY DEF Horizon

(* The table answers with a gym or nobody. *)
LEMMA LookedType ==
  ASSUME NEW k
  PROVE  /\ Looked(k) \in MaybeGym
         /\ Looked(k) # NoGym => Looked(k) \in Answers(k) /\ Looked(k) \in Gyms
BY DEF Looked, Answers, MaybeGym

----------------------------------------------------------------------------
(* Typing. *)

LEMMA LinkTypeInit == LinkInit => LinkTypeOK
<1> SUFFICES ASSUME LinkInit PROVE LinkTypeOK
  OBVIOUS
<1>1. gyms \in [Gyms -> [status : Statuses, site : MaybeSite]]
  BY DEF LinkInit, Statuses, MaybeSite
<1>2. NoAnswer \in [gym : MaybeGym, age : 0 .. Ttl]
  BY DEF NoAnswer, MaybeGym
<1>3. hooks \in [Handlers ->
                  [stage : {"idle", "hint", "hintRead", "site", "siteRead", "decide"},
                   hint : MaybeGym, site : MaybeSite, hintGym : MaybeGym,
                   siteGym : MaybeGym, waited : 0 .. Lag, settled : BOOLEAN]]
  BY DEF LinkInit, Idle, MaybeGym, MaybeSite
<1>4. last \in [Keys -> [Gyms -> 0 .. Horizon]] /\ calm \in 0 .. Horizon
  BY Numbers DEF LinkInit
<1> QED BY <1>1, <1>2, <1>3, <1>4 DEF LinkInit, LinkTypeOK

(* What an edit leaves to the history. *)
LEMMA NotedType ==
  ASSUME LinkTypeOK, Noted
  PROVE  last' \in [Keys -> [Gyms -> 0 .. Horizon]] /\ calm' \in 0 .. Horizon
BY Numbers DEF LinkTypeOK, Noted

HookTypes ==
  [stage : {"idle", "hint", "hintRead", "site", "siteRead", "decide"},
   hint : MaybeGym, site : MaybeSite, hintGym : MaybeGym,
   siteGym : MaybeGym, waited : 0 .. Lag, settled : BOOLEAN]

CacheTypes == [gym : MaybeGym, age : 0 .. Ttl]

RowTypes == [status : Statuses, site : MaybeSite]

(* What the owner writes in a row: a site it had, one that is free, or none. *)
LEMMA OwnerEditsARow ==
  ASSUME LinkTypeOK, OwnerEdits
  PROVE  \E g \in Gyms, row \in RowTypes :
           /\ Edit(g, row) /\ row.status # "new"
           /\ row.site \in {NoSite, gyms[g].site} \/ Free(row.site, g)
<1> DEFINE OwnerWrites(g, row) == /\ Edit(g, row) /\ row.status # "new"
                                  /\ row.site \in {NoSite, gyms[g].site} \/ Free(row.site, g)
<1> SUFFICES \E g \in Gyms, row \in RowTypes : OwnerWrites(g, row)
  OBVIOUS
<1>0. PICK g \in Gyms :
        \/ \E s \in MaybeSite : Create(g, s)
        \/ \E s \in Sites : SaveProfile(g, s)
        \/ \E st \in {"active", "off"}, s \in MaybeSite : Patch(g, st, s)
        \/ Archive(g) \/ Restore(g) \/ Delete(g)
  BY DEF OwnerEdits
<1>1. gyms[g] \in RowTypes /\ NoSite \in MaybeSite /\ Sites \subseteq MaybeSite
  BY DEF LinkTypeOK, MaybeSite, RowTypes
<1>2. \A st \in {"active", "off", "gone"}, s \in MaybeSite :
         [status |-> st, site |-> s] \in RowTypes
  BY DEF RowTypes, Statuses
<1>3. \A st \in {"active", "off"} : [gyms[g] EXCEPT !.status = st] \in RowTypes
                                    /\ [gyms[g] EXCEPT !.status = st].status = st
                                    /\ [gyms[g] EXCEPT !.status = st].site = gyms[g].site
  BY <1>1 DEF RowTypes, Statuses
<1>4. ASSUME NEW s \in MaybeSite, Create(g, s) PROVE OwnerWrites(g, [status |-> "active", site |-> s])
  BY <1>4 DEF Create
<1>5. ASSUME NEW s \in Sites, SaveProfile(g, s)
      PROVE  [gyms[g] EXCEPT !.site = s] \in RowTypes /\ OwnerWrites(g, [gyms[g] EXCEPT !.site = s])
  BY <1>1, <1>5 DEF SaveProfile, Links, RowTypes
<1>6. ASSUME NEW st \in {"active", "off"}, NEW s \in MaybeSite, Patch(g, st, s)
      PROVE  OwnerWrites(g, [status |-> st, site |-> s])
  BY <1>6 DEF Patch
<1>7. Archive(g) => OwnerWrites(g, [gyms[g] EXCEPT !.status = "off"])
  BY <1>3 DEF Archive
<1>8. Restore(g) => OwnerWrites(g, [gyms[g] EXCEPT !.status = "active"])
  BY <1>3 DEF Restore
<1>9. Delete(g) => OwnerWrites(g, [status |-> "gone", site |-> NoSite])
  BY DEF Delete
<1> HIDE DEF OwnerWrites
<1> QED BY <1>0, <1>1, <1>2, <1>3, <1>4, <1>5, <1>6, <1>7, <1>8, <1>9

LEMMA EditType ==
  ASSUME NEW g \in Gyms, NEW row \in RowTypes, LinkTypeOK, Edit(g, row)
  PROVE  LinkTypeOK'
BY NotedType DEF LinkTypeOK, Edit, RowTypes

LEMMA RegisterType ==
  ASSUME NEW r \in regs, LinkTypeOK, Register(r[1], r[2])
  PROVE  LinkTypeOK'
<1>1. r[1] \in Gyms /\ r[2] \in MaybeSite
  BY DEF LinkTypeOK, MaybeSite
<1>2. gyms' \in [Gyms -> RowTypes]
  BY <1>1 DEF LinkTypeOK, Register, RowTypes
<1> QED BY <1>2, NotedType DEF LinkTypeOK, Register, RowTypes

LEMMA HookStepType ==
  ASSUME NEW w \in Handlers, LinkTypeOK,
         hooks'[w] \in HookTypes, hooks' = [hooks EXCEPT ![w] = hooks'[w]],
         regs' \subseteq Gyms \X Sites, cache' \in [Keys -> CacheTypes],
         events' \in 0 .. MaxEvents, blips' \in 0 .. MaxBlips,
         UNCHANGED <<gyms, home, last, calm, edits>>
  PROVE  LinkTypeOK'
BY DEF LinkTypeOK, HookTypes, CacheTypes

LEMMA StoresType ==
  ASSUME NEW k, NEW g \in MaybeGym, LinkTypeOK
  PROVE  Stores(k, g) \in [Keys -> CacheTypes]
<1>1. cache \in [Keys -> CacheTypes] /\ [gym |-> g, age |-> 0] \in CacheTypes
  BY DEF LinkTypeOK, CacheTypes
<1> QED BY <1>1 DEF Stores

LEMMA LinkTypeNext == LinkTypeOK /\ [LinkNext]_linkVars => LinkTypeOK'
<1> SUFFICES ASSUME LinkTypeOK, [LinkNext]_linkVars PROVE LinkTypeOK'
  OBVIOUS
<1> USE DEF HookTypes
<1>a. /\ \A w \in Handlers : hooks[w] \in HookTypes
      /\ \A k \in Keys : cache[k].gym \in MaybeGym
      /\ cache \in [Keys -> CacheTypes]
      /\ Gyms \subseteq Keys /\ Sites \subseteq Keys
  BY DEF LinkTypeOK, CacheTypes, Keys
<1>1. CASE OwnerEdits
  BY <1>1, OwnerEditsARow, EditType
<1>2. ASSUME NEW w \in Handlers, NEW g \in Gyms, NEW names \in BOOLEAN, NEW carries \in BOOLEAN,
             Arrive(w, g, names, carries)
      PROVE  LinkTypeOK'
  <2>1. hooks'[w] \in HookTypes
    <3>1. \E h \in MaybeGym, s \in MaybeSite, b \in BOOLEAN :
            hooks'[w] = [stage |-> "hint", hint |-> h, site |-> s, hintGym |-> NoGym,
                         siteGym |-> NoGym, waited |-> 0, settled |-> b]
      <4>1. home[g] \in MaybeSite /\ g \in MaybeGym /\ NoSite \in MaybeSite /\ NoGym \in MaybeGym
        BY DEF LinkTypeOK, MaybeSite, MaybeGym
      <4>2. hooks'[w] = [Idle EXCEPT !.stage = "hint", !.hint = IF names THEN g ELSE NoGym,
                                     !.site = IF carries THEN home[g] ELSE NoSite,
                                     !.settled = calm = Horizon]
        BY <1>2 DEF Arrive, LinkTypeOK
      <4>3. hooks'[w] = [stage |-> "hint", hint |-> IF names THEN g ELSE NoGym,
                         site |-> IF carries THEN home[g] ELSE NoSite, hintGym |-> NoGym,
                         siteGym |-> NoGym, waited |-> 0, settled |-> calm = Horizon]
        BY <4>2 DEF Idle
      <4>4. (calm = Horizon) \in BOOLEAN
        OBVIOUS
      <4> QED BY <4>1, <4>3, <4>4
    <3> QED BY <3>1 DEF MaybeGym
  <2>2. regs' \subseteq Gyms \X Sites /\ events' \in 0 .. MaxEvents
    BY <1>2 DEF Arrive, LinkTypeOK
  <2> QED BY <1>2, <1>a, <2>1, <2>2, HookStepType DEF Arrive, LinkTypeOK
<1>3. ASSUME NEW w \in Handlers, AskHint(w) PROVE LinkTypeOK'
  <2>1. hooks[w].hint # NoGym => hooks[w].hint \in Keys
    BY <1>a DEF MaybeGym
  <2>2. hooks'[w] \in HookTypes
    BY <1>3, <1>a, <2>1, LookedType DEF AskHint, LinkTypeOK
  <2> QED BY <1>3, <1>a, <2>2, HookStepType DEF AskHint, LinkTypeOK
<1>4. ASSUME NEW w \in Handlers, HearHint(w) PROVE LinkTypeOK'
  <2>1. hooks'[w] \in HookTypes /\ cache' \in [Keys -> CacheTypes]
    BY <1>4, <1>a, StoresType DEF HearHint, LinkTypeOK
  <2> QED BY <1>4, <2>1, HookStepType DEF HearHint, LinkTypeOK
<1>5. ASSUME NEW w \in Handlers, AskSite(w) PROVE LinkTypeOK'
  <2>1. hooks[w].site # NoSite => hooks[w].site \in Keys
    BY <1>a DEF MaybeSite
  <2>2. hooks'[w] \in HookTypes
    BY <1>5, <1>a, <2>1, LookedType DEF AskSite, LinkTypeOK
  <2> QED BY <1>5, <1>a, <2>2, HookStepType DEF AskSite, LinkTypeOK
<1>6. ASSUME NEW w \in Handlers, HearSite(w) PROVE LinkTypeOK'
  <2>1. hooks'[w] \in HookTypes /\ cache' \in [Keys -> CacheTypes]
    BY <1>6, <1>a, StoresType DEF HearSite, LinkTypeOK
  <2> QED BY <1>6, <2>1, HookStepType DEF HearSite, LinkTypeOK
<1>7. ASSUME NEW w \in Handlers, Blip(w) PROVE LinkTypeOK'
  <2>1. hooks'[w] \in HookTypes
    <3>1. CASE hooks'[w] = [hooks[w] EXCEPT !.stage = "site", !.hintGym = NoGym, !.settled = FALSE]
      BY <1>a, <3>1 DEF MaybeGym
    <3>2. CASE hooks'[w] = [hooks[w] EXCEPT !.stage = "decide", !.siteGym = NoGym, !.settled = FALSE]
      BY <1>a, <3>2 DEF MaybeGym
    <3> QED BY <1>7, <3>1, <3>2 DEF Blip, LinkTypeOK
  <2>2. hooks' = [hooks EXCEPT ![w] = hooks'[w]] /\ blips' \in 0 .. MaxBlips
    BY <1>7 DEF Blip, LinkTypeOK
  <2> QED BY <1>7, <1>a, <2>1, <2>2, HookStepType DEF Blip, LinkTypeOK
<1>8. ASSUME NEW w \in Handlers, Decide(w) PROVE LinkTypeOK'
  <2>1. hooks'[w] \in HookTypes
    BY <1>8 DEF Decide, LinkTypeOK, Idle, MaybeGym, MaybeSite
  <2> QED BY <1>8, <1>a, <2>1, HookStepType DEF Decide, LinkTypeOK
<1>9. ASSUME NEW r \in regs, Register(r[1], r[2]) PROVE LinkTypeOK'
  BY <1>9, RegisterType
<1>10. CASE LinkTick
  <2>1. hooks' \in [Handlers -> HookTypes]
    <3>1. ASSUME NEW w \in Handlers, hooks[w].stage # "idle"
          PROVE  [hooks[w] EXCEPT !.waited = @ + 1] \in HookTypes
      <4>1. hooks[w] \in HookTypes /\ hooks[w].waited < Lag
        BY <1>10, <1>a, <3>1 DEF LinkTick
      <4>2. hooks[w].waited + 1 \in 0 .. Lag
        BY <4>1
      <4> QED BY <4>1, <4>2
    <3> QED BY <1>10, <1>a, <3>1 DEF LinkTick
  <2>2. cache' \in [Keys -> CacheTypes]
    <3>1. ASSUME NEW k \in Keys
          PROVE  NoAnswer \in CacheTypes /\ [cache[k] EXCEPT !.age = Min({@ + 1, Ttl})] \in CacheTypes
      <4>1. cache[k] \in CacheTypes
        BY <1>a
      <4>2. Min({cache[k].age + 1, Ttl}) \in 0 .. Ttl
        BY <4>1, Grown DEF CacheTypes
      <4> QED BY <4>1, <4>2 DEF CacheTypes, NoAnswer, MaybeGym
    <3> QED BY <1>10, <3>1 DEF LinkTick
  <2>3. last' \in [Keys -> [Gyms -> 0 .. Horizon]] /\ calm' \in 0 .. Horizon
    <3>1. ASSUME NEW k \in Keys, NEW g \in Gyms
          PROVE  Min({last[k][g] + 1, Horizon}) \in 0 .. Horizon
      <4>1. last[k][g] \in 0 .. Horizon
        BY DEF LinkTypeOK
      <4> QED BY <4>1, Grown, Numbers
    <3>2. calm' \in 0 .. Horizon
      BY <1>10, Grown, Numbers DEF LinkTick, LinkTypeOK
    <3>3. last' \in [Keys -> [Gyms -> 0 .. Horizon]]
      BY <1>10, <3>1, Numbers DEF LinkTick
    <3> QED BY <3>2, <3>3
  <2> QED BY <1>10, <2>1, <2>2, <2>3 DEF LinkTick, LinkTypeOK, CacheTypes
<1>11. CASE UNCHANGED linkVars
  BY <1>11 DEF linkVars, LinkTypeOK
<1> QED BY <1>1, <1>2, <1>3, <1>4, <1>5, <1>6, <1>7, <1>8, <1>9, <1>10, <1>11 DEF LinkNext, HookSteps

THEOREM TypeCorrect == LinkSpec => []LinkTypeOK
BY LinkTypeInit, LinkTypeNext, PTL DEF LinkSpec

----------------------------------------------------------------------------
(* The table and its history. *)

LEMMA SitesNext == LinkTypeOK /\ OneGymPerSite /\ [LinkNext]_linkVars => OneGymPerSite'
<1> SUFFICES ASSUME LinkTypeOK, OneGymPerSite, [LinkNext]_linkVars PROVE OneGymPerSite'
  OBVIOUS
<1>1. CASE gyms' = gyms
  BY <1>1 DEF OneGymPerSite
<1>2. ASSUME NEW g \in Gyms, NEW row \in RowTypes, gyms' = [gyms EXCEPT ![g] = row], row.status # "new",
             row.site \in {NoSite, gyms[g].site} \/ Free(row.site, g)
      PROVE  OneGymPerSite'
  <2>1. gyms'[g] = row /\ \A h \in Gyms \ {g} : gyms'[h] = gyms[h]
    BY <1>2 DEF LinkTypeOK
  <2>2. \A h \in Gyms \ {g} : gyms[h].site = row.site => row.site = NoSite
    BY <1>2 DEF OneGymPerSite, Free
  <2> QED BY <1>2, <2>1, <2>2 DEF OneGymPerSite
<1>3. CASE OwnerEdits
  BY <1>2, <1>3, OwnerEditsARow DEF Edit
<1>4. ASSUME NEW r \in regs, Register(r[1], r[2]) PROVE OneGymPerSite'
  <2>1. r[1] \in Gyms /\ r[2] \in MaybeSite
    BY DEF LinkTypeOK, MaybeSite
  <2>2. CASE Unlinked(r[1], r[2])
    <3>1. [gyms[r[1]] EXCEPT !.site = r[2]] \in RowTypes
      BY <2>1 DEF LinkTypeOK, RowTypes
    <3>2. gyms' = [gyms EXCEPT ![r[1]] = [gyms[r[1]] EXCEPT !.site = r[2]]]
      BY <1>4, <2>2 DEF Register
    <3>3. /\ [gyms[r[1]] EXCEPT !.site = r[2]].status = gyms[r[1]].status
          /\ [gyms[r[1]] EXCEPT !.site = r[2]].site = r[2]
      BY <2>1 DEF LinkTypeOK
    <3>4. gyms[r[1]].status # "new" /\ Free(r[2], r[1])
      BY <2>2 DEF Unlinked, Exists
    <3> QED BY <1>2, <2>1, <3>1, <3>2, <3>3, <3>4
  <2> QED BY <1>1, <1>4, <2>2 DEF Register
<1> QED BY <1>1, <1>3, <1>4 DEF LinkNext, HookSteps, Arrive, AskHint, HearHint, AskSite, HearSite, Blip,
             Decide, LinkTick, linkVars

\* A step of time, a step that may change the table, or one that does neither.
LEMMA StepKinds == LinkTypeOK /\ [LinkNext]_linkVars => LinkTick \/ Noted \/ UNCHANGED <<gyms, last, calm>>
<1> SUFFICES ASSUME LinkTypeOK, [LinkNext]_linkVars PROVE LinkTick \/ Noted \/ UNCHANGED <<gyms, last, calm>>
  OBVIOUS
<1>1. CASE OwnerEdits
  BY <1>1, OwnerEditsARow DEF Edit
<1> QED BY <1>1 DEF LinkNext, HookSteps, Arrive, AskHint, HearHint, AskSite, HearSite, Blip, Decide,
             Register, linkVars

\* What an edit does to the ages.
LEMMA NotedAges ==
  ASSUME LinkTypeOK, Noted
  PROVE  /\ \A k \in Keys, g \in Gyms : last'[k][g] <= last[k][g]
         /\ calm' = 0 \/ (calm' = calm /\ gyms' = gyms)
BY DEF Noted, LinkTypeOK

LEMMA TickAges ==
  ASSUME LinkTypeOK, LinkTick
  PROVE  /\ \A k \in Keys, g \in Gyms : last'[k][g] <= last[k][g] + 1
         /\ calm' <= calm + 1 /\ (calm = Horizon => calm' = Horizon)
<1>1. ASSUME NEW k \in Keys, NEW g \in Gyms PROVE last'[k][g] <= last[k][g] + 1
  <2>1. last[k][g] \in 0 .. Horizon
    BY DEF LinkTypeOK
  <2>2. last'[k][g] = IF g \in Answers(k) THEN 0 ELSE Min({last[k][g] + 1, Horizon})
    BY DEF LinkTick
  <2> QED BY <2>1, <2>2, Grown, Numbers
<1>2. calm \in 0 .. Horizon
  BY DEF LinkTypeOK
<1>3. calm' = Min({calm + 1, Horizon})
  BY DEF LinkTick
<1> QED BY <1>1, <1>2, <1>3, Grown, Numbers

LEMMA HistoryNext == LinkTypeOK /\ HistoryIsTrue /\ [LinkNext]_linkVars => HistoryIsTrue'
<1> SUFFICES ASSUME LinkTypeOK, HistoryIsTrue, [LinkNext]_linkVars, NEW k \in Keys, NEW g \in Gyms
             PROVE  (IF g \in Answers(k) THEN last[k][g] = 0 ELSE calm <= last[k][g])'
  BY DEF HistoryIsTrue
<1>0. last[k][g] \in 0 .. Horizon /\ calm \in 0 .. Horizon
  BY DEF LinkTypeOK
<1>1. gyms' = gyms => Answers(k)' = Answers(k)
  BY DEF Answers
<1>2. CASE LinkTick
  <2>1. /\ last'[k][g] = IF g \in Answers(k) THEN 0 ELSE Min({last[k][g] + 1, Horizon})
        /\ calm' = Min({calm + 1, Horizon})
        /\ gyms' = gyms
    BY <1>2 DEF LinkTick
  <2>2. CASE g \in Answers(k)
    BY <1>1, <2>1, <2>2
  <2>3. CASE g \notin Answers(k)
    <3>1. calm <= last[k][g]
      BY <2>3 DEF HistoryIsTrue
    <3>2. last'[k][g] = last[k][g] + 1 \/ last'[k][g] = Horizon
      <4>1. last[k][g] + 1 \in Nat /\ Horizon \in Nat
        BY <1>0, Numbers
      <4>2. Min({last[k][g] + 1, Horizon}) \in {last[k][g] + 1, Horizon}
        BY <4>1, MinOfTwo
      <4> QED BY <2>1, <2>3, <4>2
    <3>3. calm' <= calm + 1 /\ calm' <= Horizon /\ calm' \in Nat
      <4>1. Min({calm + 1, Horizon}) \in 0 .. Horizon /\ Min({calm + 1, Horizon}) <= calm + 1
        BY <1>0, Grown, Numbers
      <4> QED BY <2>1, <4>1, Numbers
    <3>4. calm' <= last'[k][g]
      BY <1>0, <3>1, <3>2, <3>3, Numbers
    <3> QED BY <1>1, <2>1, <2>3, <3>4
  <2> QED BY <2>2, <2>3
<1>3. CASE Noted
  <2>1. last'[k][g] = IF g \in Answers(k)' THEN 0 ELSE last[k][g]
    BY <1>3 DEF Noted
  <2>2. g \notin Answers(k)' => calm' <= last[k][g]
    BY <1>0, <1>1, <1>3, NotedAges DEF HistoryIsTrue
  <2> QED BY <2>1, <2>2
<1>4. CASE UNCHANGED <<gyms, last, calm>>
  BY <1>1, <1>4 DEF HistoryIsTrue
<1> QED BY <1>2, <1>3, <1>4, StepKinds

\* A key has one gym at most, so what the table answers is what it gives.
LEMMA OneAnswer ==
  ASSUME LinkTypeOK, OneGymPerSite, NEW k \in Keys, NEW g \in Answers(k)
  PROVE  Looked(k) = g
<1>1. \A x, y \in Answers(k) : x = y
  <2> SUFFICES ASSUME NEW x \in Answers(k), NEW y \in Answers(k) PROVE x = y
    OBVIOUS
  <2>1. /\ x \in Gyms /\ y \in Gyms
        /\ k \in {x, gyms[x].site} /\ k \in {y, gyms[y].site}
        /\ gyms[x].site \in MaybeSite /\ gyms[y].site \in MaybeSite
    BY DEF Answers, LinkTypeOK
  <2>2. CASE k \in Gyms
    BY <2>1, <2>2 DEF MaybeSite
  <2>3. CASE k \in Sites
    <3>1. k = gyms[x].site /\ k = gyms[y].site
      BY <2>1, <2>3
    <3> QED BY <2>1, <2>3, <3>1 DEF OneGymPerSite
  <2> QED BY <2>2, <2>3 DEF Keys
<1> QED BY <1>1 DEF Looked

LEMMA FreshAnswer ==
  ASSUME HistoryIsTrue, NEW k \in Keys, Looked(k) # NoGym
  PROVE  last[k][Looked(k)] = 0
BY LookedType DEF HistoryIsTrue

\* What is kept was true not long ago, and is true if nothing changed since.
LEMMA KeptAnswer ==
  ASSUME LinkTypeOK, OneGymPerSite, HistoryIsTrue, CacheIsRecent, NEW k \in Keys, Kept(k)
  PROVE  /\ cache[k].gym \in Gyms
         /\ last[k][cache[k].gym] <= Ttl - 1 + Lag
         /\ calm = Horizon => cache[k].gym = Looked(k)
<1>1. cache[k].gym \in Gyms /\ cache[k].age \in 0 .. Ttl /\ cache[k].age < Ttl
  BY DEF LinkTypeOK, Kept, MaybeGym
<1>2. last[k][cache[k].gym] \in 0 .. Horizon
  BY <1>1 DEF LinkTypeOK
<1>3. last[k][cache[k].gym] <= Ttl - 1 + Lag
  BY <1>1, <1>2 DEF CacheIsRecent
<1>4. calm = Horizon => cache[k].gym \in Answers(k)
  BY <1>1, <1>2, <1>3, Numbers DEF HistoryIsTrue, Horizon
<1> QED BY <1>1, <1>3, <1>4, OneAnswer

----------------------------------------------------------------------------
(* What is kept, and what the webhooks hold. *)

LEMMA StoredAnswer ==
  ASSUME LinkTypeOK, NEW k \in Keys, NEW g \in MaybeGym, cache' = Stores(k, g),
         UNCHANGED last, CacheIsRecent, g # NoGym => last[k][g] <= Lag
  PROVE  CacheIsRecent'
<1> SUFFICES ASSUME NEW x \in Keys, Kept(x)'
             PROVE  last[x][cache'[x].gym] <= cache'[x].age + Lag
  BY DEF CacheIsRecent
<1>1. CASE cache'[x] = cache[x]
  BY <1>1 DEF CacheIsRecent, Kept
<1>2. CASE x = k /\ g # NoGym /\ cache'[x] = [gym |-> g, age |-> 0]
  BY <1>2
<1> QED BY <1>1, <1>2 DEF Stores, LinkTypeOK

LEMMA CacheNext ==
  ASSUME LinkTypeOK, LinkTypeOK', CacheIsRecent, \A w \in Handlers : AnswersAreRecent(hooks[w]),
         [LinkNext]_linkVars
  PROVE  CacheIsRecent'
<1>0. \A k \in Keys : /\ cache[k].gym \in MaybeGym /\ cache[k].age \in 0 .. Ttl
                      /\ \A g \in Gyms : last[k][g] \in 0 .. Horizon /\ last'[k][g] \in 0 .. Horizon
  BY DEF LinkTypeOK
<1>k. Gyms \subseteq Keys /\ Sites \subseteq Keys
  BY DEF Keys
<1>1. ASSUME UNCHANGED cache, Noted \/ UNCHANGED last PROVE CacheIsRecent'
  <2> SUFFICES ASSUME NEW k \in Keys, Kept(k)
               PROVE  last'[k][cache[k].gym] <= cache[k].age + Lag
    BY <1>1 DEF CacheIsRecent, Kept
  <2>1. cache[k].gym \in Gyms
    BY <1>0 DEF Kept, MaybeGym
  <2>2. last'[k][cache[k].gym] <= last[k][cache[k].gym]
    BY <1>0, <1>1, <2>1, NotedAges
  <2>3. last[k][cache[k].gym] <= cache[k].age + Lag
    BY DEF CacheIsRecent
  <2> QED BY <1>0, <2>1, <2>2, <2>3
<1>2. ASSUME NEW w \in Handlers, HearHint(w) PROVE CacheIsRecent'
  <2>1. hooks[w].hintGym # NoGym => last[hooks[w].hint][hooks[w].hintGym] <= Lag
    BY <1>0, <1>2, <1>k DEF HearHint, AnswersAreRecent, AgeAtMost, LinkTypeOK, MaybeGym
  <2>2. hooks[w].hint # NoGym => hooks[w].hint \in Keys
    BY <1>k DEF LinkTypeOK, MaybeGym
  <2>3. CASE hooks[w].hintGym = NoGym
    BY <1>1, <1>2, <2>3 DEF HearHint, Stores
  <2>4. CASE hooks[w].hintGym # NoGym
    <3>1. hooks[w].hint \in Keys /\ hooks[w].hintGym \in MaybeGym
      BY <2>2, <2>4 DEF AnswersAreRecent, LinkTypeOK
    <3> QED BY <1>2, <2>1, <2>4, <3>1, StoredAnswer DEF HearHint
  <2> QED BY <2>3, <2>4
<1>3. ASSUME NEW w \in Handlers, HearSite(w) PROVE CacheIsRecent'
  <2>1. hooks[w].siteGym # NoGym => last[hooks[w].site][hooks[w].siteGym] <= Lag
    BY <1>0, <1>3, <1>k DEF HearSite, AnswersAreRecent, AgeAtMost, LinkTypeOK, MaybeGym, MaybeSite
  <2>2. hooks[w].site # NoSite => hooks[w].site \in Keys
    BY <1>k DEF LinkTypeOK, MaybeSite
  <2>3. CASE hooks[w].siteGym = NoGym
    BY <1>1, <1>3, <2>3 DEF HearSite, Stores
  <2>4. CASE hooks[w].siteGym # NoGym
    <3>1. hooks[w].site \in Keys /\ hooks[w].siteGym \in MaybeGym
      BY <2>2, <2>4 DEF AnswersAreRecent, LinkTypeOK
    <3> QED BY <1>3, <2>1, <2>4, <3>1, StoredAnswer DEF HearSite
  <2> QED BY <2>3, <2>4
<1>4. CASE LinkTick
  <2> SUFFICES ASSUME NEW k \in Keys, Kept(k)'
               PROVE  last'[k][cache'[k].gym] <= cache'[k].age + Lag
    BY DEF CacheIsRecent
  <2>1. /\ cache[k].gym # NoGym
        /\ cache'[k] = [cache[k] EXCEPT !.age = Min({cache[k].age + 1, Ttl})]
    BY <1>4 DEF LinkTick, Kept, NoAnswer
  <2>2. /\ cache'[k].gym = cache[k].gym
        /\ cache'[k].age = Min({cache[k].age + 1, Ttl})
    BY <2>1 DEF LinkTypeOK
  <2>3. cache[k].age < Ttl /\ cache'[k].age = cache[k].age + 1
    <3>1. cache[k].age \in 0 .. Ttl /\ Min({cache[k].age + 1, Ttl}) < Ttl
      BY <1>0, <2>2 DEF Kept
    <3>2. cache[k].age <= Min({cache[k].age + 1, Ttl}) /\ Min({cache[k].age + 1, Ttl}) \in 0 .. Ttl
      BY <3>1, Grown
    <3>3. cache[k].age < Ttl
      BY <3>1, <3>2
    <3> QED BY <2>2, <3>1, <3>3, Grown
  <2>4. cache[k].gym \in Gyms /\ last[k][cache[k].gym] <= cache[k].age + Lag
    BY <1>0, <2>1, <2>3 DEF CacheIsRecent, Kept, MaybeGym
  <2>5. last'[k][cache[k].gym] <= last[k][cache[k].gym] + 1
    BY <1>4, <2>4, TickAges
  <2> QED BY <1>0, <2>2, <2>3, <2>4, <2>5
<1>5. CASE OwnerEdits
  BY <1>1, <1>5, OwnerEditsARow DEF Edit
<1> QED BY <1>1, <1>2, <1>3, <1>4, <1>5 DEF LinkNext, HookSteps, Arrive, AskHint, AskSite, Blip,
             Decide, Register, linkVars

\* A webhook the step leaves alone.
LEMMA HookStays ==
  ASSUME NEW w \in Handlers, LinkTypeOK, LinkTypeOK', hooks'[w] = hooks[w],
         AnswersAreRecent(hooks[w]), AnswersAreRight(hooks[w]),
         Noted \/ UNCHANGED <<gyms, last, calm>>
  PROVE  AnswersAreRecent(hooks[w])' /\ AnswersAreRight(hooks[w])'
<1>1. /\ hooks[w].hint \in MaybeGym /\ hooks[w].site \in MaybeSite
      /\ hooks[w].hintGym \in MaybeGym /\ hooks[w].siteGym \in MaybeGym /\ hooks[w].waited \in 0 .. Lag
      /\ \A k \in Keys, g \in Gyms : last[k][g] \in 0 .. Horizon /\ last'[k][g] \in 0 .. Horizon
      /\ calm \in 0 .. Horizon
      /\ Gyms \subseteq Keys /\ Sites \subseteq Keys
  BY DEF LinkTypeOK, Keys
<1>2. \A k \in Keys, g \in Gyms : last'[k][g] <= last[k][g]
  BY <1>1, NotedAges
<1>3. calm' = 0 \/ (calm' = calm /\ gyms' = gyms)
  BY NotedAges
<1>4. AnswersAreRecent(hooks[w])'
  <2>1. hooks[w].hintGym # NoGym =>
          last'[hooks[w].hint][hooks[w].hintGym] <= AgeAtMost(hooks[w].stage = "hintRead") + hooks[w].waited
    BY <1>1, <1>2 DEF AnswersAreRecent, AgeAtMost, MaybeGym
  <2>2. hooks[w].siteGym # NoGym =>
          last'[hooks[w].site][hooks[w].siteGym] <= AgeAtMost(hooks[w].stage = "siteRead") + hooks[w].waited
    BY <1>1, <1>2 DEF AnswersAreRecent, AgeAtMost, MaybeGym, MaybeSite
  <2> QED BY <2>1, <2>2 DEF AnswersAreRecent
<1>5. AnswersAreRight(hooks[w])'
  <2>1. CASE calm' = 0
    BY <1>1, <2>1, Numbers DEF AnswersAreRight
  <2>2. CASE calm' = calm /\ gyms' = gyms
    <3>1. \A k : Looked(k)' = Looked(k)
      BY <2>2 DEF Looked, Answers
    <3> QED BY <2>2, <3>1 DEF AnswersAreRight
  <2> QED BY <1>3, <2>1, <2>2
<1> QED BY <1>4, <1>5

\* Waiting makes what a webhook holds no older than it.
LEMMA HookWaits ==
  ASSUME NEW w \in Handlers, LinkTypeOK, LinkTypeOK', LinkTick,
         AnswersAreRecent(hooks[w]), AnswersAreRight(hooks[w])
  PROVE  AnswersAreRecent(hooks[w])' /\ AnswersAreRight(hooks[w])'
<1>1. /\ hooks[w].hint \in MaybeGym /\ hooks[w].site \in MaybeSite
      /\ hooks[w].hintGym \in MaybeGym /\ hooks[w].siteGym \in MaybeGym /\ hooks[w].waited \in 0 .. Lag
      /\ \A k \in Keys, g \in Gyms : last[k][g] \in 0 .. Horizon /\ last'[k][g] \in 0 .. Horizon
      /\ calm \in 0 .. Horizon /\ calm' \in 0 .. Horizon
      /\ Gyms \subseteq Keys /\ Sites \subseteq Keys
  BY DEF LinkTypeOK, Keys
<1>2. \A k \in Keys, g \in Gyms : last'[k][g] <= last[k][g] + 1
  BY TickAges
<1>3. \A k : Looked(k)' = Looked(k)
  BY DEF LinkTick, Looked, Answers
<1>4. CASE hooks[w].stage # "idle"
  <2>1. hooks[w] \in HookTypes
    BY DEF LinkTypeOK, HookTypes
  <2>2. hooks'[w] = [hooks[w] EXCEPT !.waited = @ + 1] /\ hooks[w].waited < Lag
    BY <1>4 DEF LinkTick
  <2>3. /\ hooks'[w].stage = hooks[w].stage
        /\ hooks'[w].hint = hooks[w].hint /\ hooks'[w].hintGym = hooks[w].hintGym
        /\ hooks'[w].site = hooks[w].site /\ hooks'[w].siteGym = hooks[w].siteGym
        /\ hooks'[w].settled = hooks[w].settled
        /\ hooks'[w].waited = hooks[w].waited + 1
    BY <2>1, <2>2 DEF HookTypes
  <2>4. hooks[w].hintGym # NoGym =>
          last'[hooks[w].hint][hooks[w].hintGym] <= AgeAtMost(hooks[w].stage = "hintRead") + hooks[w].waited + 1
    BY <1>1, <1>2 DEF AnswersAreRecent, AgeAtMost, MaybeGym
  <2>5. hooks[w].siteGym # NoGym =>
          last'[hooks[w].site][hooks[w].siteGym] <= AgeAtMost(hooks[w].stage = "siteRead") + hooks[w].waited + 1
    BY <1>1, <1>2 DEF AnswersAreRecent, AgeAtMost, MaybeGym, MaybeSite
  <2>6. AnswersAreRecent(hooks[w])'
    <3>1. \A b : AgeAtMost(b)' = AgeAtMost(b) /\ (AgeAtMost(b) \in Int)
      BY DEF AgeAtMost
    <3>2. /\ hooks'[w].hintGym # NoGym => hooks[w].hint # NoGym
          /\ hooks'[w].siteGym # NoGym => hooks[w].site # NoSite
      BY <2>3 DEF AnswersAreRecent
    <3>3. hooks'[w].stage # "idle"
      BY <1>4, <2>3
    <3>4. /\ hooks'[w].hintGym # NoGym =>
               last'[hooks'[w].hint][hooks'[w].hintGym] <= AgeAtMost(hooks'[w].stage = "hintRead") + hooks'[w].waited
          /\ hooks'[w].siteGym # NoGym =>
               last'[hooks'[w].site][hooks'[w].siteGym] <= AgeAtMost(hooks'[w].stage = "siteRead") + hooks'[w].waited
      BY <1>1, <2>3, <2>4, <2>5, <3>1
    <3> QED BY <2>3, <3>2, <3>3, <3>4 DEF AnswersAreRecent, AgeAtMost
  <2>7. hooks[w].settled => calm' = Horizon \/ calm' <= hooks[w].waited + 1
    BY <1>1, TickAges DEF AnswersAreRight
  <2>8. hooks[w].settled /\ calm' = Horizon => calm = Horizon
    BY <1>1, <2>2, TickAges, Numbers DEF AnswersAreRight
  <2>9. AnswersAreRight(hooks[w])'
    BY <1>3, <2>3, <2>7, <2>8 DEF AnswersAreRight
  <2> QED BY <2>6, <2>9
<1>5. CASE hooks[w].stage = "idle"
  <2>1. hooks'[w] = Idle
    BY <1>5 DEF LinkTick, AnswersAreRecent
  <2> QED BY <2>1 DEF AnswersAreRecent, AnswersAreRight, Idle
<1> QED BY <1>4, <1>5

\* A webhook's own step, which leaves the table and its history alone.
LEMMA HookMoves ==
  ASSUME NEW w \in Handlers, LinkTypeOK, LinkTypeOK', UNCHANGED <<gyms, last, calm>>,
         \A x \in Handlers \ {w} : hooks'[x] = hooks[x],
         \A x \in Handlers : AnswersAreRecent(hooks[x]) /\ AnswersAreRight(hooks[x]),
         AnswersAreRecent(hooks'[w]), AnswersAreRight(hooks'[w])
  PROVE  \A x \in Handlers : AnswersAreRecent(hooks[x])' /\ AnswersAreRight(hooks[x])'
<1>1. ASSUME NEW x \in Handlers \ {w} PROVE AnswersAreRecent(hooks[x])' /\ AnswersAreRight(hooks[x])'
  BY HookStays
<1>2. \A k : Looked(k)' = Looked(k)
  BY DEF Looked, Answers
<1>3. AnswersAreRecent(hooks[w])' /\ AnswersAreRight(hooks[w])'
  BY <1>2 DEF AnswersAreRecent, AnswersAreRight, AgeAtMost
<1> QED BY <1>1, <1>3

LEMMA HooksNext ==
  ASSUME LinkInv, LinkTypeOK', [LinkNext]_linkVars
  PROVE  \A w \in Handlers : AnswersAreRecent(hooks[w])' /\ AnswersAreRight(hooks[w])'
<1> DEFINE Promised == \A w \in Handlers : AnswersAreRecent(hooks[w])' /\ AnswersAreRight(hooks[w])'
<1>a. /\ LinkTypeOK /\ OneGymPerSite /\ HistoryIsTrue /\ CacheIsRecent
      /\ \A w \in Handlers : AnswersAreRecent(hooks[w]) /\ AnswersAreRight(hooks[w])
  BY DEF LinkInv
<1>b. \A w \in Handlers : hooks[w] \in HookTypes
  BY <1>a DEF LinkTypeOK, HookTypes
<1>c. Gyms \subseteq Keys /\ Sites \subseteq Keys /\ calm \in 0 .. Horizon
  BY <1>a DEF Keys, LinkTypeOK
<1>1. ASSUME hooks' = hooks, Noted \/ UNCHANGED <<gyms, last, calm>> PROVE Promised
  BY <1>1, <1>a, HookStays
<1>2. ASSUME LinkTick PROVE Promised
  BY <1>2, <1>a, HookWaits
<1>3. ASSUME NEW w \in Handlers, NEW g \in Gyms, NEW names \in BOOLEAN, NEW carries \in BOOLEAN,
             Arrive(w, g, names, carries)
      PROVE  Promised
  <2>1. /\ hooks'[w].stage = "hint" /\ hooks'[w].hintGym = NoGym /\ hooks'[w].siteGym = NoGym
        /\ hooks'[w].settled => calm = Horizon
    <3>1. hooks'[w] = [Idle EXCEPT !.stage = "hint", !.hint = IF names THEN g ELSE NoGym,
                                   !.site = IF carries THEN home[g] ELSE NoSite, !.settled = calm = Horizon]
      BY <1>3, <1>a DEF Arrive, LinkTypeOK
    <3> QED BY <3>1 DEF Idle
  <2>2. AnswersAreRecent(hooks'[w]) /\ AnswersAreRight(hooks'[w])
    BY <2>1 DEF AnswersAreRecent, AnswersAreRight
  <2> QED BY <1>3, <1>a, <2>2, HookMoves DEF Arrive, LinkTypeOK
<1>4. ASSUME NEW w \in Handlers, AskHint(w) PROVE Promised
  <2> DEFINE k == hooks[w].hint
  <2>1. /\ \A x \in Handlers \ {w} : hooks'[x] = hooks[x]
        /\ UNCHANGED <<gyms, last, calm>>
        /\ hooks[w].stage = "hint"
    BY <1>4, <1>a DEF AskHint, LinkTypeOK
  <2>2. k # NoGym => k \in Keys
    BY <1>b, <1>c DEF HookTypes, MaybeGym
  <2>3. /\ hooks'[w].hint = k /\ hooks'[w].site = hooks[w].site /\ hooks'[w].siteGym = hooks[w].siteGym
        /\ hooks'[w].waited = hooks[w].waited /\ hooks'[w].settled = hooks[w].settled
        /\ \/ k = NoGym /\ hooks'[w].stage = "site" /\ hooks'[w].hintGym = hooks[w].hintGym
           \/ k # NoGym /\ Kept(k) /\ hooks'[w].stage = "site" /\ hooks'[w].hintGym = cache[k].gym
           \/ k # NoGym /\ hooks'[w].stage = "hintRead" /\ hooks'[w].hintGym = Looked(k)
    BY <1>4, <1>a, <1>b DEF AskHint, LinkTypeOK, HookTypes
  <2>4. AnswersAreRecent(hooks'[w])
    <3>1. hooks'[w].hintGym # NoGym =>
            hooks'[w].hint # NoGym
            /\ last[hooks'[w].hint][hooks'[w].hintGym] <= AgeAtMost(hooks'[w].stage = "hintRead") + hooks'[w].waited
      <4>1. k = NoGym => hooks[w].hintGym = NoGym
        BY <1>a DEF AnswersAreRecent
      <4>2. k # NoGym /\ Kept(k) => last[k][cache[k].gym] <= Ttl - 1 + Lag /\ last[k][cache[k].gym] \in Int
        BY <1>a, <2>2, KeptAnswer DEF LinkTypeOK
      <4>3. k # NoGym /\ Looked(k) # NoGym => last[k][Looked(k)] = 0
        BY <1>a, <2>2, FreshAnswer
      <4>4. hooks[w].waited \in Nat
        BY <1>b DEF HookTypes
      <4> QED BY <2>3, <4>1, <4>2, <4>3, <4>4 DEF AgeAtMost
    <3>2. hooks'[w].siteGym # NoGym =>
            hooks'[w].site # NoSite
            /\ last[hooks'[w].site][hooks'[w].siteGym] <= AgeAtMost(hooks'[w].stage = "siteRead") + hooks'[w].waited
      BY <1>a, <2>1, <2>3 DEF AnswersAreRecent, AgeAtMost
    <3> QED BY <2>3, <3>1, <3>2 DEF AnswersAreRecent
  <2>5. AnswersAreRight(hooks'[w])
    <3>1. calm = Horizon /\ k # NoGym => hooks'[w].hintGym = Looked(k)
      BY <1>a, <2>2, <2>3, KeptAnswer
    <3>2. hooks[w].settled => calm = Horizon \/ calm <= hooks[w].waited
      BY <1>a DEF AnswersAreRight
    <3> QED BY <2>3, <3>1, <3>2 DEF AnswersAreRight
  <2> QED BY <1>a, <2>1, <2>4, <2>5, HookMoves
<1>5. ASSUME NEW w \in Handlers, HearHint(w) PROVE Promised
  <2>1. /\ \A x \in Handlers \ {w} : hooks'[x] = hooks[x]
        /\ UNCHANGED <<gyms, last, calm>>
        /\ hooks[w].stage = "hintRead" /\ hooks'[w] = [hooks[w] EXCEPT !.stage = "site"]
    BY <1>5, <1>a DEF HearHint, LinkTypeOK
  <2>2. /\ hooks'[w].hint = hooks[w].hint /\ hooks'[w].site = hooks[w].site
        /\ hooks'[w].hintGym = hooks[w].hintGym /\ hooks'[w].siteGym = hooks[w].siteGym
        /\ hooks'[w].waited = hooks[w].waited /\ hooks'[w].settled = hooks[w].settled
        /\ hooks'[w].stage = "site"
    BY <1>b, <2>1 DEF HookTypes
  <2>3. AnswersAreRecent(hooks'[w])
    <3>1. hooks[w].hintGym # NoGym =>
            hooks[w].hint # NoGym /\ last[hooks[w].hint][hooks[w].hintGym] <= Ttl - 1 + Lag + hooks[w].waited
      <4>1. hooks[w].hintGym # NoGym =>
              /\ hooks[w].hint # NoGym /\ hooks[w].hint \in Keys /\ hooks[w].hintGym \in Gyms
              /\ last[hooks[w].hint][hooks[w].hintGym] <= hooks[w].waited
        BY <1>a, <1>b, <1>c, <2>1 DEF AnswersAreRecent, AgeAtMost, HookTypes, MaybeGym
      <4>2. /\ \A k \in Keys, g \in Gyms : last[k][g] \in Nat
            /\ hooks[w].waited \in Nat
        BY <1>a, <1>b, Numbers DEF LinkTypeOK, HookTypes
      <4> QED BY <4>1, <4>2, Numbers
    <3>2. hooks[w].siteGym # NoGym =>
            hooks[w].site # NoSite /\ last[hooks[w].site][hooks[w].siteGym] <= Ttl - 1 + Lag + hooks[w].waited
      BY <1>a, <2>1 DEF AnswersAreRecent, AgeAtMost
    <3> QED BY <2>2, <3>1, <3>2 DEF AnswersAreRecent, AgeAtMost
  <2>4. AnswersAreRight(hooks'[w])
    BY <1>a, <2>1, <2>2 DEF AnswersAreRight
  <2> QED BY <1>a, <2>1, <2>3, <2>4, HookMoves
<1>6. ASSUME NEW w \in Handlers, AskSite(w) PROVE Promised
  <2> DEFINE k == hooks[w].site
  <2>1. /\ \A x \in Handlers \ {w} : hooks'[x] = hooks[x]
        /\ UNCHANGED <<gyms, last, calm>>
        /\ hooks[w].stage = "site"
    BY <1>6, <1>a DEF AskSite, LinkTypeOK
  <2>2. k # NoSite => k \in Keys
    BY <1>b, <1>c DEF HookTypes, MaybeSite
  <2>3. /\ hooks'[w].site = k /\ hooks'[w].hint = hooks[w].hint /\ hooks'[w].hintGym = hooks[w].hintGym
        /\ hooks'[w].waited = hooks[w].waited /\ hooks'[w].settled = hooks[w].settled
        /\ \/ k = NoSite /\ hooks'[w].stage = "decide" /\ hooks'[w].siteGym = hooks[w].siteGym
           \/ k # NoSite /\ Kept(k) /\ hooks'[w].stage = "decide" /\ hooks'[w].siteGym = cache[k].gym
           \/ k # NoSite /\ hooks'[w].stage = "siteRead" /\ hooks'[w].siteGym = Looked(k)
    BY <1>6, <1>a, <1>b DEF AskSite, LinkTypeOK, HookTypes
  <2>4. AnswersAreRecent(hooks'[w])
    <3>1. hooks'[w].siteGym # NoGym =>
            hooks'[w].site # NoSite
            /\ last[hooks'[w].site][hooks'[w].siteGym] <= AgeAtMost(hooks'[w].stage = "siteRead") + hooks'[w].waited
      <4>1. k = NoSite => hooks[w].siteGym = NoGym
        BY <1>a DEF AnswersAreRecent
      <4>2. k # NoSite /\ Kept(k) => last[k][cache[k].gym] <= Ttl - 1 + Lag /\ last[k][cache[k].gym] \in Int
        BY <1>a, <2>2, KeptAnswer DEF LinkTypeOK
      <4>3. k # NoSite /\ Looked(k) # NoGym => last[k][Looked(k)] = 0
        BY <1>a, <2>2, FreshAnswer
      <4>4. hooks[w].waited \in Nat
        BY <1>b DEF HookTypes
      <4> QED BY <2>3, <4>1, <4>2, <4>3, <4>4 DEF AgeAtMost
    <3>2. hooks'[w].hintGym # NoGym =>
            hooks'[w].hint # NoGym
            /\ last[hooks'[w].hint][hooks'[w].hintGym] <= AgeAtMost(hooks'[w].stage = "hintRead") + hooks'[w].waited
      BY <1>a, <2>1, <2>3 DEF AnswersAreRecent, AgeAtMost
    <3> QED BY <2>3, <3>1, <3>2 DEF AnswersAreRecent
  <2>5. AnswersAreRight(hooks'[w])
    <3>1. calm = Horizon /\ k # NoSite => hooks'[w].siteGym = Looked(k)
      BY <1>a, <2>2, <2>3, KeptAnswer
    <3>2. hooks[w].settled =>
            /\ calm = Horizon \/ calm <= hooks[w].waited
            /\ calm = Horizon /\ hooks[w].hint # NoGym => hooks[w].hintGym = Looked(hooks[w].hint)
      BY <1>a, <2>1 DEF AnswersAreRight
    <3> QED BY <2>3, <3>1, <3>2 DEF AnswersAreRight
  <2> QED BY <1>a, <2>1, <2>4, <2>5, HookMoves
<1>7. ASSUME NEW w \in Handlers, HearSite(w) PROVE Promised
  <2>1. /\ \A x \in Handlers \ {w} : hooks'[x] = hooks[x]
        /\ UNCHANGED <<gyms, last, calm>>
        /\ hooks[w].stage = "siteRead" /\ hooks'[w] = [hooks[w] EXCEPT !.stage = "decide"]
    BY <1>7, <1>a DEF HearSite, LinkTypeOK
  <2>2. /\ hooks'[w].hint = hooks[w].hint /\ hooks'[w].site = hooks[w].site
        /\ hooks'[w].hintGym = hooks[w].hintGym /\ hooks'[w].siteGym = hooks[w].siteGym
        /\ hooks'[w].waited = hooks[w].waited /\ hooks'[w].settled = hooks[w].settled
        /\ hooks'[w].stage = "decide"
    BY <1>b, <2>1 DEF HookTypes
  <2>3. AnswersAreRecent(hooks'[w])
    <3>1. hooks[w].siteGym # NoGym =>
            hooks[w].site # NoSite /\ last[hooks[w].site][hooks[w].siteGym] <= Ttl - 1 + Lag + hooks[w].waited
      <4>1. hooks[w].siteGym # NoGym =>
              /\ hooks[w].site # NoSite /\ hooks[w].site \in Keys /\ hooks[w].siteGym \in Gyms
              /\ last[hooks[w].site][hooks[w].siteGym] <= hooks[w].waited
        BY <1>a, <1>b, <1>c, <2>1 DEF AnswersAreRecent, AgeAtMost, HookTypes, MaybeGym, MaybeSite
      <4>2. /\ \A k \in Keys, g \in Gyms : last[k][g] \in Nat
            /\ hooks[w].waited \in Nat
        BY <1>a, <1>b, Numbers DEF LinkTypeOK, HookTypes
      <4> QED BY <4>1, <4>2, Numbers
    <3>2. hooks[w].hintGym # NoGym =>
            hooks[w].hint # NoGym /\ last[hooks[w].hint][hooks[w].hintGym] <= Ttl - 1 + Lag + hooks[w].waited
      BY <1>a, <2>1 DEF AnswersAreRecent, AgeAtMost
    <3> QED BY <2>2, <3>1, <3>2 DEF AnswersAreRecent, AgeAtMost
  <2>4. AnswersAreRight(hooks'[w])
    BY <1>a, <2>1, <2>2 DEF AnswersAreRight
  <2> QED BY <1>a, <2>1, <2>3, <2>4, HookMoves
<1>8. ASSUME NEW w \in Handlers, Blip(w) PROVE Promised
  <2>1. /\ \A x \in Handlers \ {w} : hooks'[x] = hooks[x]
        /\ UNCHANGED <<gyms, last, calm>>
    BY <1>8, <1>a DEF Blip, LinkTypeOK
  <2>2. /\ hooks'[w].hint = hooks[w].hint /\ hooks'[w].site = hooks[w].site
        /\ hooks'[w].waited = hooks[w].waited /\ hooks'[w].settled = FALSE
        /\ \/ /\ hooks[w].stage = "hintRead" /\ hooks'[w].stage = "site"
              /\ hooks'[w].hintGym = NoGym /\ hooks'[w].siteGym = hooks[w].siteGym
           \/ /\ hooks[w].stage = "siteRead" /\ hooks'[w].stage = "decide"
              /\ hooks'[w].siteGym = NoGym /\ hooks'[w].hintGym = hooks[w].hintGym
    BY <1>8, <1>a, <1>b DEF Blip, LinkTypeOK, HookTypes
  <2>3. AnswersAreRecent(hooks'[w])
    BY <1>a, <2>2 DEF AnswersAreRecent, AgeAtMost
  <2>4. AnswersAreRight(hooks'[w])
    BY <2>2 DEF AnswersAreRight
  <2> QED BY <1>a, <2>1, <2>3, <2>4, HookMoves
<1>9. ASSUME NEW w \in Handlers, Decide(w) PROVE Promised
  <2>1. /\ \A x \in Handlers \ {w} : hooks'[x] = hooks[x]
        /\ UNCHANGED <<gyms, last, calm>> /\ hooks'[w] = Idle
    BY <1>9, <1>a DEF Decide, LinkTypeOK
  <2>2. AnswersAreRecent(hooks'[w]) /\ AnswersAreRight(hooks'[w])
    BY <2>1 DEF AnswersAreRecent, AnswersAreRight, Idle
  <2> QED BY <1>a, <2>1, <2>2, HookMoves
<1>10. ASSUME OwnerEdits PROVE Promised
  BY <1>1, <1>10, <1>a, OwnerEditsARow DEF Edit
<1> HIDE DEF Promised
<1>11. Promised
  <2>1. CASE HookSteps
    BY <2>1, <1>3, <1>4, <1>5, <1>6, <1>7, <1>8, <1>9 DEF HookSteps
  <2>2. CASE \E r \in regs : Register(r[1], r[2])
    BY <2>2, <1>1 DEF Register
  <2>3. CASE UNCHANGED linkVars
    BY <2>3, <1>1 DEF linkVars
  <2> QED BY <2>1, <2>2, <2>3, <1>2, <1>10 DEF LinkNext
<1> QED BY <1>11 DEF Promised

----------------------------------------------------------------------------
(* The invariant, and the three promises of a step. *)

LEMMA LinkInvInit == LinkInit => LinkInv
<1> SUFFICES ASSUME LinkInit PROVE LinkInv
  OBVIOUS
<1>1. LinkTypeOK
  BY LinkTypeInit
<1>2. OneGymPerSite
  <2>1. \A g \in Gyms : gyms[g].status = "new" => gyms[g].site = NoSite
    BY DEF LinkInit
  <2> QED BY <2>1 DEF LinkInit, OneGymPerSite, Free
<1>3. HistoryIsTrue
  BY Numbers DEF LinkInit, HistoryIsTrue
<1>4. CacheIsRecent
  BY DEF LinkInit, CacheIsRecent, Kept, NoAnswer
<1>5. \A w \in Handlers : AnswersAreRecent(hooks[w]) /\ AnswersAreRight(hooks[w])
  <2>1. \A w \in Handlers : hooks[w] = Idle
    BY DEF LinkInit
  <2>2. AnswersAreRecent(Idle) /\ AnswersAreRight(Idle)
    BY DEF AnswersAreRecent, AnswersAreRight, Idle, LinkInit
  <2> QED BY <2>1, <2>2
<1> QED BY <1>1, <1>2, <1>3, <1>4, <1>5 DEF LinkInv

LEMMA LinkInvNext == LinkInv /\ [LinkNext]_linkVars => LinkInv'
<1> SUFFICES ASSUME LinkInv, [LinkNext]_linkVars PROVE LinkInv'
  OBVIOUS
<1>1. /\ LinkTypeOK /\ OneGymPerSite /\ HistoryIsTrue /\ CacheIsRecent
      /\ \A w \in Handlers : AnswersAreRecent(hooks[w])
  BY DEF LinkInv
<1>2. LinkTypeOK' /\ OneGymPerSite' /\ HistoryIsTrue'
  BY <1>1, LinkTypeNext, SitesNext, HistoryNext
<1>3. CacheIsRecent'
  BY <1>1, <1>2, CacheNext
<1>4. \A w \in Handlers : AnswersAreRecent(hooks[w])' /\ AnswersAreRight(hooks[w])'
  BY <1>2, HooksNext
<1> QED BY <1>2, <1>3, <1>4 DEF LinkInv

\* A webhook that is decided holds answers of less than the horizon.
LEMMA DecidedOnRecent ==
  ASSUME LinkInv, NEW w \in Handlers, Ends(w), Verdict(hooks[w]) # NoGym
  PROVE  \E k \in {hooks[w].hint, hooks[w].site} \cap Keys :
           last[k][Verdict(hooks[w])] < Horizon
<1>1. LinkTypeOK /\ AnswersAreRecent(hooks[w]) /\ hooks[w].stage = "decide"
  BY DEF LinkInv, Ends
<1>2. /\ hooks[w].hint \in MaybeGym /\ hooks[w].site \in MaybeSite
      /\ hooks[w].hintGym \in MaybeGym /\ hooks[w].siteGym \in MaybeGym /\ hooks[w].waited \in 0 .. Lag
      /\ \A k \in Keys, g \in Gyms : last[k][g] \in 0 .. Horizon
      /\ Gyms \subseteq Keys /\ Sites \subseteq Keys
  BY <1>1 DEF LinkTypeOK, Keys
<1>3. hooks[w].hintGym # NoGym => hooks[w].hint \in Keys /\ last[hooks[w].hint][hooks[w].hintGym] < Horizon
  <2> SUFFICES ASSUME hooks[w].hintGym # NoGym
               PROVE  hooks[w].hint \in Keys /\ last[hooks[w].hint][hooks[w].hintGym] < Horizon
    OBVIOUS
  <2>1. hooks[w].hint \in Keys /\ hooks[w].hintGym \in Gyms
    BY <1>1, <1>2 DEF AnswersAreRecent, MaybeGym
  <2>2. last[hooks[w].hint][hooks[w].hintGym] <= Ttl - 1 + Lag + hooks[w].waited
    BY <1>1 DEF AnswersAreRecent, AgeAtMost
  <2> QED BY <1>2, <2>1, <2>2, Numbers
<1>4. hooks[w].siteGym # NoGym => hooks[w].site \in Keys /\ last[hooks[w].site][hooks[w].siteGym] < Horizon
  <2> SUFFICES ASSUME hooks[w].siteGym # NoGym
               PROVE  hooks[w].site \in Keys /\ last[hooks[w].site][hooks[w].siteGym] < Horizon
    OBVIOUS
  <2>1. hooks[w].site \in Keys /\ hooks[w].siteGym \in Gyms
    BY <1>1, <1>2 DEF AnswersAreRecent, MaybeGym, MaybeSite
  <2>2. last[hooks[w].site][hooks[w].siteGym] <= Ttl - 1 + Lag + hooks[w].waited
    BY <1>1 DEF AnswersAreRecent, AgeAtMost
  <2> QED BY <1>2, <2>1, <2>2, Numbers
<1> QED BY <1>3, <1>4 DEF Verdict

\* And, with the table left alone, the answers it would get now.
LEMMA DecidedAsRecorded ==
  ASSUME LinkInv, NEW w \in Handlers, Ends(w), hooks[w].settled, calm = Horizon
  PROVE  Verdict(hooks[w]) = Rightful(hooks[w])
<1>1. /\ LinkTypeOK /\ AnswersAreRecent(hooks[w]) /\ AnswersAreRight(hooks[w])
      /\ hooks[w].stage = "decide"
  BY DEF LinkInv, Ends
<1>2. hooks[w] \in HookTypes
  BY <1>1 DEF LinkTypeOK, HookTypes
<1>3. hooks[w].hintGym = IF hooks[w].hint = NoGym THEN NoGym ELSE Looked(hooks[w].hint)
  BY <1>1 DEF AnswersAreRecent, AnswersAreRight
<1>4. hooks[w].siteGym = IF hooks[w].site = NoSite THEN NoGym ELSE Looked(hooks[w].site)
  BY <1>1 DEF AnswersAreRecent, AnswersAreRight
<1> QED BY <1>2, <1>3, <1>4 DEF Verdict, Rightful, HookTypes

\* Of all that changes a row, only the owner's edit gives a linked gym another site.
LEMMA OnlyPatchMoves ==
  ASSUME LinkTypeOK, OneGymPerSite, [LinkNext]_linkVars, NEW g \in Gyms,
         gyms[g].site # NoSite, gyms'[g].site \notin {gyms[g].site, NoSite}
  PROVE  \E st \in {"active", "off"} : Patch(g, st, gyms'[g].site)
<1>1. gyms \in [Gyms -> RowTypes]
  BY DEF LinkTypeOK, RowTypes
<1>2. ASSUME NEW h \in Gyms, NEW row, Edit(h, row) PROVE h = g /\ gyms'[g] = row
  BY <1>1, <1>2 DEF Edit
<1>3. CASE OwnerEdits
  <2> PICK h \in Gyms : \/ \E s \in MaybeSite : Create(h, s)
                        \/ \E s \in Sites : SaveProfile(h, s)
                        \/ \E st \in {"active", "off"}, s \in MaybeSite : Patch(h, st, s)
                        \/ Archive(h) \/ Restore(h) \/ Delete(h)
    BY <1>3 DEF OwnerEdits
  <2>1. ASSUME NEW s \in MaybeSite, Create(h, s) PROVE FALSE
    BY <1>2, <2>1 DEF Create, OneGymPerSite
  <2>2. ASSUME NEW s \in Sites, SaveProfile(h, s) PROVE FALSE
    <3>1. h = g /\ gyms'[g] = [gyms[g] EXCEPT !.site = s] /\ gyms[g].site \in {NoSite, s}
      BY <1>2, <2>2 DEF SaveProfile, Links
    <3> QED BY <1>1, <3>1 DEF RowTypes
  <2>3. ASSUME NEW st \in {"active", "off"}, NEW s \in MaybeSite, Patch(h, st, s)
        PROVE  Patch(g, st, gyms'[g].site)
    <3>1. h = g /\ gyms'[g] = [status |-> st, site |-> s]
      BY <1>2, <2>3 DEF Patch
    <3>2. h = g /\ gyms'[g].site = s
      BY <3>1
    <3> QED BY <2>3, <3>2
  <2>4. ASSUME Archive(h) \/ Restore(h) PROVE FALSE
    <3>1. PICK st : Edit(h, [gyms[h] EXCEPT !.status = st])
      BY <2>4 DEF Archive, Restore
    <3>2. h = g /\ gyms'[g] = [gyms[g] EXCEPT !.status = st]
      BY <1>2, <3>1
    <3> QED BY <1>1, <3>2 DEF RowTypes
  <2>5. ASSUME Delete(h) PROVE FALSE
    <3>1. gyms'[g] = [status |-> "gone", site |-> NoSite]
      BY <1>2, <2>5 DEF Delete
    <3> QED BY <3>1
  <2> QED BY <2>1, <2>2, <2>3, <2>4, <2>5
<1>4. ASSUME NEW r \in regs, Register(r[1], r[2]) PROVE FALSE
  <2>1. r[1] \in Gyms
    BY DEF LinkTypeOK
  <2>2. gyms' = gyms \/ (gyms' = [gyms EXCEPT ![r[1]].site = r[2]] /\ gyms[r[1]].site = NoSite)
    BY <1>4 DEF Register, Unlinked
  <2> QED BY <1>1, <2>1, <2>2
<1>5. gyms' # gyms
  OBVIOUS
<1> QED BY <1>3, <1>4, <1>5 DEF LinkNext, HookSteps, Arrive, AskHint, HearHint, AskSite, HearSite, Blip,
             Decide, LinkTick, linkVars

(* Whatever edits, registrations and webhooks cross, and whatever the map  *)
(* keeps: no kept answer is older than it may be; an event is queued only  *)
(* for a gym the table gave less than the horizon ago, and rightly when    *)
(* the table is left alone; and only the owner moves a link.               *)
THEOREM LinkHoldsAlways == LinkSpec => LinkHolds
<1>1. LinkInv => LinkTypeOK /\ CacheIsRecent
  BY DEF LinkInv
<1>2. LinkInv /\ [LinkNext]_linkVars =>
        [\A w \in Handlers : Ends(w) /\ Verdict(hooks[w]) # NoGym =>
           \E k \in {hooks[w].hint, hooks[w].site} \cap Keys :
             last[k][Verdict(hooks[w])] < Horizon]_linkVars
  BY DecidedOnRecent
<1>3. LinkInv /\ [LinkNext]_linkVars =>
        [\A w \in Handlers : Ends(w) /\ hooks[w].settled /\ calm = Horizon =>
           Verdict(hooks[w]) = Rightful(hooks[w])]_linkVars
  BY DecidedAsRecorded
<1>4. LinkInv /\ [LinkNext]_linkVars =>
        [\A g \in Gyms :
           gyms[g].site # NoSite /\ gyms'[g].site \notin {gyms[g].site, NoSite} =>
             \E st \in {"active", "off"} : Patch(g, st, gyms'[g].site)]_linkVars
  BY OnlyPatchMoves DEF LinkInv
<1> QED BY LinkInvInit, LinkInvNext, <1>1, <1>2, <1>3, <1>4, PTL
        DEF LinkSpec, LinkHolds, EventsGoRight, RoutedOnRecent, RoutedAsRecorded, LinkKept

-----------------------------------------------------------------------------
(* GymSecret: the secret that was shown, and the failures that are told.   *)

USE SecretAssumption

(* No failure is counted but of a webhook, and none twice.                 *)
Pushing == {w \in Watchers : watchers[w] = "push"}

CountedOnce ==
  /\ \A a \in 0 .. Window - 1 : fails[a] <= received
  /\ IsFiniteSet(Pushing) /\ fails[0] + Cardinality(Pushing) <= received

(* The cool-down key lives as long as the mail is recent.                  *)
CoolAfterArm == cool = IF armed < Cooldown THEN Cooldown - armed ELSE 0

(* Once the cool-down is over, a window that holds enough failures is      *)
(* somebody's to tell, or it owes that to failures from before: none has   *)
(* come since.                                                             *)
QuietIsAnswered ==
  Spike /\ ~silent /\ armed >= Cooldown =>
    \/ \E w \in Watchers : watchers[w] \in {"look", "arm"}
    \/ \A a \in 0 .. Window - 1 : a < armed - Cooldown => fails[a] = 0

SecretInv == SecretTypeOK /\ ShownIsKept /\ CountedOnce /\ CoolAfterArm /\ QuietIsAnswered

(* A number is counted down to zero.                                       *)
LEMMA CountedDown ==
  ASSUME NEW a \in Nat
  PROVE  Max({a - 1, 0}) = IF a = 0 THEN 0 ELSE a - 1
<1>1. CASE a = 0
  <2>1. 0 \in {a - 1, 0} /\ \A y \in {a - 1, 0} : 0 >= y
    BY <1>1
  <2>2. \A x \in {a - 1, 0} : (\A y \in {a - 1, 0} : x >= y) => x = 0
    BY <1>1
  <2> QED BY <1>1, <2>1, <2>2 DEF Max
<1>2. CASE a # 0
  <2>1. a - 1 \in {a - 1, 0} /\ \A y \in {a - 1, 0} : a - 1 >= y
    BY <1>2
  <2>2. \A x \in {a - 1, 0} : (\A y \in {a - 1, 0} : x >= y) => x = a - 1
    BY <1>2
  <2> QED BY <1>2, <2>1, <2>2 DEF Max
<1> QED BY <1>1, <1>2

(* The failures that Recent counts are finitely many.                      *)
Counted(f) == {x \in (0 .. Window - 1) \X (1 .. MaxHooks) : x[2] <= f[x[1]]}

LEMMA RecentIs == Recent = Cardinality(Counted(fails)) /\ Recent' = Cardinality(Counted(fails'))
BY DEF Recent, Counted

LEMMA CountedFinite ==
  ASSUME NEW f
  PROVE  IsFiniteSet(Counted(f)) /\ Cardinality(Counted(f)) \in Nat
<1>1. IsFiniteSet(0 .. Window - 1) /\ IsFiniteSet(1 .. MaxHooks)
  BY FS_Interval
<1>2. IsFiniteSet((0 .. Window - 1) \X (1 .. MaxHooks))
  BY <1>1, FS_Product
<1>3. Counted(f) \in SUBSET ((0 .. Window - 1) \X (1 .. MaxHooks))
  BY DEF Counted
<1>4. IsFiniteSet(Counted(f))
  BY <1>2, <1>3, FS_Subset
<1> QED BY <1>4, FS_CardinalityType

LEMMA RecentNat == Recent \in Nat /\ Recent' \in Nat
BY CountedFinite, RecentIs

(* A window without a failure has none to tell.                            *)
LEMMA NoneRecent ==
  ASSUME SecretTypeOK, \A a \in 0 .. Window - 1 : fails[a] = 0
  PROVE  ~Spike
<1>1. Counted(fails) = {}
  BY DEF Counted
<1>2. Recent = 0
  BY <1>1, RecentIs, FS_EmptySet
<1> QED BY <1>2 DEF Spike

(* As time passes failures leave the window and none comes.                *)
LEMMA RecentFalls ==
  ASSUME SecretTypeOK, SecretTick
  PROVE  Recent' <= Recent
<1> DEFINE younger == [x \in Counted(fails') |-> <<x[1] - 1, x[2]>>]
<1>1. \A x \in Counted(fails') : <<x[1] - 1, x[2]>> \in Counted(fails)
  <2> SUFFICES ASSUME NEW x \in Counted(fails')
               PROVE  <<x[1] - 1, x[2]>> \in Counted(fails)
    OBVIOUS
  <2>1. x[1] \in 0 .. Window - 1 /\ x[2] \in 1 .. MaxHooks /\ x[2] <= fails'[x[1]]
    BY DEF Counted
  <2>2. fails'[x[1]] = IF x[1] = 0 THEN 0 ELSE fails[x[1] - 1]
    BY <2>1 DEF SecretTick, SecretTypeOK
  <2>3. x[1] # 0
    BY <2>1, <2>2
  <2>4. x[1] - 1 \in 0 .. Window - 1 /\ x[2] <= fails[x[1] - 1]
    BY <2>1, <2>2, <2>3
  <2> QED BY <2>1, <2>4 DEF Counted
<1>2. \A x \in Counted(fails') : x = <<x[1], x[2]>> /\ x[1] \in Int
  BY DEF Counted
<1>3. \A x, y \in Counted(fails') : younger[x] = younger[y] => x = y
  BY <1>2
<1>4. younger \in [Counted(fails') -> Counted(fails)]
  BY <1>1
<1>5. younger \in Injection(Counted(fails'), Counted(fails))
  BY <1>3, <1>4 DEF Injection, IsInjective
<1> HIDE DEF younger
<1>6. Cardinality(Counted(fails')) <= Cardinality(Counted(fails))
  BY <1>5, CountedFinite, FS_Injection
<1> QED BY <1>6, RecentIs

(* The alarm.                                                              *)

LEMMA SecretTypes == SecretTypeOK => received \in Nat /\ cool \in Nat /\ armed \in Nat /\ Long \in Nat
BY DEF SecretTypeOK, Long

LEMMA SecretInitInv == SecretInit => SecretInv
<1> SUFFICES ASSUME SecretInit PROVE SecretInv
  OBVIOUS
<1>1. SecretTypeOK
  <2>1. stored \in MaybeSecret /\ inWix \in MaybeSecret /\ shown \subseteq Secrets /\ replaced \subseteq Secrets
    BY DEF SecretInit, MaybeSecret
  <2>2. fails \in [0 .. Window - 1 -> 0 .. MaxHooks]
    BY DEF SecretInit
  <2>3. /\ pages \in [Pages -> {"closed", "mint", "reread"}]
        /\ watchers \in [Watchers -> {"idle", "push", "look", "arm", "mail"}]
    BY DEF SecretInit
  <2>4. /\ minted \in 0 .. MaxSecrets /\ cool \in 0 .. Cooldown /\ armed \in 0 .. Long
        /\ received \in 0 .. MaxHooks /\ mishaps \in 0 .. MaxMishaps
    <3>1. minted = 0 /\ cool = 0 /\ armed = Long /\ received = 0 /\ mishaps = 0
      BY DEF SecretInit
    <3> QED BY <3>1 DEF Long
  <2>5. silent \in BOOLEAN
    BY DEF SecretInit
  <2> QED BY <2>1, <2>2, <2>3, <2>4, <2>5 DEF SecretTypeOK
<1>2. ShownIsKept
  <2>1. shown = {}
    BY DEF SecretInit
  <2> QED BY <2>1 DEF ShownIsKept
<1>3. Pushing = {}
  BY DEF SecretInit, Pushing
<1>4. CountedOnce
  BY <1>3, FS_EmptySet DEF SecretInit, CountedOnce
<1>5. CoolAfterArm
  BY DEF SecretInit, CoolAfterArm, Long
<1>6. QuietIsAnswered
  BY <1>1, NoneRecent DEF SecretInit, QuietIsAnswered
<1> QED BY <1>1, <1>2, <1>4, <1>5, <1>6 DEF SecretInv

(* What the pages, the wizard, the owner and the operator do.              *)
SecretMoves ==
  \/ \E p \in Pages : OpenPage(p) \/ Mint(p) \/ Reread(p)
  \/ MintQuietly \/ Replace
  \/ \E s \in Secrets : Paste(s)

LEMMA SecretMovesInv == SecretInv /\ SecretMoves => SecretInv'
<1> SUFFICES ASSUME SecretInv, SecretMoves PROVE SecretInv'
  OBVIOUS
<1>t. SecretTypeOK /\ ShownIsKept /\ CountedOnce /\ CoolAfterArm /\ QuietIsAnswered
  BY DEF SecretInv
<1>a. UNCHANGED <<alarmVars, received, mishaps>>
  BY DEF SecretMoves, OpenPage, Mint, Reread, MintQuietly, Replace, Paste
<1>1. /\ stored' \in MaybeSecret /\ minted' \in 0 .. MaxSecrets /\ inWix' \in MaybeSecret
      /\ pages' \in [Pages -> {"closed", "mint", "reread"}]
      /\ shown' \subseteq Secrets /\ replaced' \subseteq Secrets /\ ShownIsKept'
  <2>m. minted < MaxSecrets => minted + 1 \in 0 .. MaxSecrets /\ minted + 1 \in Secrets
    BY <1>t DEF SecretTypeOK, Secrets
  <2>n. None \notin Secrets
    BY DEF Secrets, None
  <2>1. CASE \E p \in Pages : OpenPage(p)
    BY <1>t, <2>1 DEF OpenPage, Shows, SecretTypeOK, ShownIsKept, MaybeSecret
  <2>2. CASE \E p \in Pages : Mint(p)
    <3> PICK p \in Pages : Mint(p)
      BY <2>2
    <3>1. CASE MayMint
      <4>1. stored' = minted + 1 /\ shown' = shown \cup ({minted + 1} \ {None}) /\ replaced' = replaced /\ stored = None
        BY <3>1 DEF Mint, Shows, MayMint
      <4> QED BY <1>t, <2>m, <2>n, <3>1, <4>1 DEF Mint, SecretTypeOK, ShownIsKept, MaybeSecret
    <3>2. CASE ~MayMint
      BY <1>t, <2>m, <3>2 DEF Mint, SecretTypeOK, ShownIsKept
    <3> QED BY <3>1, <3>2
  <2>3. CASE \E p \in Pages : Reread(p)
    BY <1>t, <2>3 DEF Reread, Shows, SecretTypeOK, ShownIsKept, MaybeSecret
  <2>4. CASE MintQuietly
    BY <1>t, <2>m, <2>n, <2>4 DEF MintQuietly, MayMint, SecretTypeOK, ShownIsKept, MaybeSecret
  <2>5. CASE Replace
    <3>1. /\ stored' = minted + 1 /\ shown' = shown \cup ({minted + 1} \ {None})
          /\ replaced' = replaced \cup ({stored} \ {None})
      BY <2>5 DEF Replace, Shows
    <3> QED BY <1>t, <2>m, <2>n, <2>5, <3>1 DEF Replace, SecretTypeOK, ShownIsKept, MaybeSecret
  <2>6. CASE \E s \in Secrets : Paste(s)
    BY <1>t, <2>6 DEF Paste, SecretTypeOK, ShownIsKept, MaybeSecret
  <2> QED BY <2>1, <2>2, <2>3, <2>4, <2>5, <2>6 DEF SecretMoves
<1>2. SecretTypeOK'
  BY <1>t, <1>1, <1>a DEF SecretTypeOK, alarmVars
<1>3. (CountedOnce /\ CoolAfterArm /\ QuietIsAnswered)'
  BY <1>t, <1>a DEF alarmVars, CountedOnce, Pushing, CoolAfterArm, QuietIsAnswered, Spike, Recent
<1> QED BY <1>1, <1>2, <1>3 DEF SecretInv

(* A run of the monitor leaves its place among those about to push.        *)
LEMMA PushersMove ==
  ASSUME SecretTypeOK, CountedOnce, NEW w \in Watchers, NEW s,
         watchers' = [watchers EXCEPT ![w] = s], s # "push"
  PROVE  /\ Pushing' = Pushing \ {w}
         /\ IsFiniteSet(Pushing') /\ Cardinality(Pushing') \in Nat
         /\ Cardinality(Pushing') = IF watchers[w] = "push" THEN Cardinality(Pushing) - 1 ELSE Cardinality(Pushing)
         /\ Cardinality(Pushing) \in Nat
<1>1. Pushing' = Pushing \ {w}
  BY DEF Pushing, SecretTypeOK
<1>2. IsFiniteSet(Pushing)
  BY DEF CountedOnce
<1>3. w \in Pushing <=> watchers[w] = "push"
  BY DEF Pushing
<1> QED BY <1>1, <1>2, <1>3, FS_RemoveElement, FS_CardinalityType

LEMMA WebhookInv == SecretInv /\ (\E reads \in BOOLEAN : Webhook(reads)) => SecretInv'
<1> SUFFICES ASSUME SecretInv, NEW reads \in BOOLEAN, Webhook(reads) PROVE SecretInv'
  OBVIOUS
<1>t. SecretTypeOK /\ ShownIsKept /\ CountedOnce /\ CoolAfterArm /\ QuietIsAnswered
  BY DEF SecretInv
<1>a. /\ UNCHANGED <<secretVars, fails, cool, armed, silent>>
      /\ received' = received + 1 /\ received' \in 0 .. MaxHooks /\ mishaps' \in 0 .. MaxMishaps
  BY <1>t DEF Webhook, SecretTypeOK
<1>b. /\ Cardinality(Pushing) \in Nat
      /\ fails[0] \in Nat /\ \A a \in 0 .. Window - 1 : fails[a] \in Nat
  BY <1>t, FS_CardinalityType DEF CountedOnce, SecretTypeOK
<1>1. watchers' \in [Watchers -> {"idle", "push", "look", "arm", "mail"}]
  BY <1>t DEF Webhook, SecretTypeOK
<1>2. SecretTypeOK' /\ ShownIsKept'
  BY <1>t, <1>a, <1>1 DEF SecretTypeOK, ShownIsKept, secretVars
<1>3. IsFiniteSet(Pushing') /\ Cardinality(Pushing') \in Nat /\ Cardinality(Pushing') <= Cardinality(Pushing) + 1
  <2>1. CASE UNCHANGED watchers
    BY <2>1, <1>t, <1>b DEF Pushing, CountedOnce
  <2>2. CASE \E w \in Watchers : watchers[w] = "idle" /\ watchers' = [watchers EXCEPT ![w] = "push"]
    <3> PICK w \in Watchers : watchers[w] = "idle" /\ watchers' = [watchers EXCEPT ![w] = "push"]
      BY <2>2
    <3>1. Pushing' = Pushing \cup {w} /\ w \notin Pushing
      BY <1>t DEF Pushing, SecretTypeOK
    <3>2. IsFiniteSet(Pushing') /\ Cardinality(Pushing') = Cardinality(Pushing) + 1
      BY <1>t, <3>1, FS_AddElement DEF CountedOnce
    <3> QED BY <1>b, <3>2
  <2> QED BY <2>1, <2>2 DEF Webhook
<1>4. CountedOnce'
  <2>1. received' = received + 1 /\ received \in Nat /\ fails' = fails
    BY <1>a, <1>t DEF SecretTypeOK
  <2> QED BY <1>t, <1>b, <1>3, <2>1 DEF CountedOnce
<1>5. CoolAfterArm'
  BY <1>t, <1>a DEF CoolAfterArm
<1>6. \A w \in Watchers : watchers[w] \in {"look", "arm"} => watchers'[w] \in {"look", "arm"}
  BY <1>t DEF Webhook, SecretTypeOK
<1>7. QuietIsAnswered'
  BY <1>t, <1>a, <1>6 DEF QuietIsAnswered, Spike, Recent
<1> QED BY <1>2, <1>4, <1>5, <1>7 DEF SecretInv

LEMMA PushInv == SecretInv /\ (\E w \in Watchers : Push(w)) => SecretInv'
<1> SUFFICES ASSUME SecretInv, NEW w \in Watchers, Push(w) PROVE SecretInv'
  OBVIOUS
<1>t. SecretTypeOK /\ ShownIsKept /\ CountedOnce /\ CoolAfterArm /\ QuietIsAnswered
  BY DEF SecretInv
<1>a. /\ UNCHANGED <<secretVars, cool, armed, silent, received, mishaps>>
      /\ watchers[w] = "push" /\ watchers' = [watchers EXCEPT ![w] = "look"]
      /\ fails' = [fails EXCEPT ![0] = fails[0] + 1]
  BY DEF Push
<1>b. /\ Cardinality(Pushing') = Cardinality(Pushing) - 1 /\ IsFiniteSet(Pushing')
      /\ Cardinality(Pushing') \in Nat /\ Cardinality(Pushing) \in Nat
  BY <1>t, <1>a, PushersMove
<1>c. 0 \in 0 .. Window - 1
  OBVIOUS
<1>1. fails[0] + 1 <= received /\ fails[0] + 1 \in 0 .. MaxHooks
  BY <1>t, <1>b, <1>c DEF CountedOnce, SecretTypeOK
<1>2. fails' \in [0 .. Window - 1 -> 0 .. MaxHooks] /\ fails'[0] = fails[0] + 1
  BY <1>t, <1>a, <1>1, <1>c DEF SecretTypeOK
<1>3. watchers' \in [Watchers -> {"idle", "push", "look", "arm", "mail"}] /\ watchers'[w] = "look"
  BY <1>t, <1>a DEF SecretTypeOK
<1>4. SecretTypeOK' /\ ShownIsKept'
  BY <1>t, <1>a, <1>2, <1>3 DEF SecretTypeOK, ShownIsKept, secretVars
<1>5. CountedOnce'
  <2>1. \A a \in 0 .. Window - 1 : fails'[a] <= received
    BY <1>t, <1>a, <1>1, <1>2 DEF CountedOnce, SecretTypeOK
  <2>2. fails'[0] + Cardinality(Pushing') <= received
    BY <1>t, <1>b, <1>c, <1>2 DEF CountedOnce, SecretTypeOK
  <2> QED BY <1>a, <1>b, <2>1, <2>2 DEF CountedOnce
<1>6. CoolAfterArm'
  BY <1>t, <1>a DEF CoolAfterArm
<1>7. QuietIsAnswered'
  BY <1>3 DEF QuietIsAnswered
<1> QED BY <1>4, <1>5, <1>6, <1>7 DEF SecretInv

(* The steps of a run after its push: nothing is counted, and whoever      *)
(* finds a spike when it is quiet goes on to the mail.                     *)
LEMMA AfterPushInv == SecretInv /\ (\E w \in Watchers : Look(w) \/ Arm(w) \/ Mail(w) \/ GiveUp(w)) => SecretInv'
<1> SUFFICES ASSUME SecretInv, NEW w \in Watchers, Look(w) \/ Arm(w) \/ Mail(w) \/ GiveUp(w)
             PROVE  SecretInv'
  OBVIOUS
<1>t. SecretTypeOK /\ ShownIsKept /\ CountedOnce /\ CoolAfterArm /\ QuietIsAnswered
  BY DEF SecretInv
<1>a. UNCHANGED <<secretVars, fails, received>>
  BY DEF Look, Arm, Mail, GiveUp
<1>b. PICK s \in {"idle", "arm", "mail"} : watchers' = [watchers EXCEPT ![w] = s]
  BY DEF Look, Arm, Mail, GiveUp
<1>1. /\ cool' \in 0 .. Cooldown /\ armed' \in 0 .. Long /\ silent' \in BOOLEAN /\ mishaps' \in 0 .. MaxMishaps
      /\ CoolAfterArm'
  <2>1. CASE Arm(w)
    BY <1>t, <2>1 DEF Arm, SecretTypeOK, CoolAfterArm, Long
  <2>2. CASE GiveUp(w)
    BY <1>t, <2>2 DEF GiveUp, SecretTypeOK, CoolAfterArm
  <2>3. CASE Look(w) \/ Mail(w)
    BY <1>t, <2>3 DEF Look, Mail, SecretTypeOK, CoolAfterArm
  <2> QED BY <2>1, <2>2, <2>3
<1>2. SecretTypeOK' /\ ShownIsKept'
  BY <1>t, <1>a, <1>b, <1>1 DEF SecretTypeOK, ShownIsKept, secretVars
<1>3. /\ IsFiniteSet(Pushing') /\ Cardinality(Pushing') \in Nat /\ Cardinality(Pushing) \in Nat
      /\ Cardinality(Pushing') <= Cardinality(Pushing)
  <2>1. s # "push"
    BY <1>b
  <2>2. /\ IsFiniteSet(Pushing') /\ Cardinality(Pushing') \in Nat /\ Cardinality(Pushing) \in Nat
        /\ Cardinality(Pushing') = IF watchers[w] = "push" THEN Cardinality(Pushing) - 1 ELSE Cardinality(Pushing)
    BY <1>t, <1>b, <2>1, PushersMove
  <2> QED BY <2>2
<1>4. CountedOnce'
  <2>1. fails' = fails /\ received' = received /\ fails[0] \in Nat /\ received \in Nat
    BY <1>t, <1>a DEF SecretTypeOK
  <2> QED BY <1>t, <1>3, <2>1 DEF CountedOnce
<1>5. QuietIsAnswered'
  <2> SUFFICES ASSUME Spike', ~silent', armed' >= Cooldown
               PROVE  \/ \E v \in Watchers : watchers'[v] \in {"look", "arm"}
                      \/ \A a \in 0 .. Window - 1 : a < armed' - Cooldown => fails'[a] = 0
    BY DEF QuietIsAnswered
  <2>1. ~Arm(w)
    BY DEF Arm
  <2>2. ~GiveUp(w)
    BY DEF GiveUp
  <2>3. Spike /\ ~silent /\ armed >= Cooldown /\ armed' = armed /\ fails' = fails /\ cool = 0
    <3>1. UNCHANGED <<fails, cool, armed, silent>>
      BY <1>a, <2>1, <2>2 DEF Look, Mail
    <3>2. Spike
      BY <3>1 DEF Spike, Recent
    <3>3. armed \in Nat
      BY <1>t, SecretTypes
    <3> QED BY <1>t, <3>1, <3>2, <3>3 DEF CoolAfterArm
  <2>4. CASE Look(w)
    BY <1>t, <2>3, <2>4 DEF Look, Quiet, SecretTypeOK
  <2>5. CASE Mail(w)
    <3>1. \A v \in Watchers : watchers[v] \in {"look", "arm"} => watchers'[v] \in {"look", "arm"}
      BY <1>t, <2>5 DEF Mail, SecretTypeOK
    <3> QED BY <1>t, <2>3, <3>1 DEF QuietIsAnswered
  <2> QED BY <2>1, <2>2, <2>4, <2>5
<1> QED BY <1>1, <1>2, <1>4, <1>5 DEF SecretInv

(* Time passes between two runs only.                                      *)
LEMMA TickInv == SecretInv /\ SecretTick => SecretInv'
<1> SUFFICES ASSUME SecretInv, SecretTick PROVE SecretInv'
  OBVIOUS
<1>t. SecretTypeOK /\ ShownIsKept /\ CountedOnce /\ CoolAfterArm /\ QuietIsAnswered
  BY DEF SecretInv
<1>a. /\ UNCHANGED <<secretVars, watchers, silent, received, mishaps>>
      /\ \A w \in Watchers : watchers[w] = "idle"
      /\ fails' = [a \in 0 .. Window - 1 |-> IF a = 0 THEN 0 ELSE fails[a - 1]]
  BY <1>t DEF SecretTick, SecretTypeOK
<1>b. cool' = IF cool = 0 THEN 0 ELSE cool - 1
  BY <1>t, CountedDown DEF SecretTick, SecretTypeOK
<1>c. armed' = IF armed < Long THEN armed + 1 ELSE Long
  <2>1. Long \in Nat /\ armed \in 0 .. Long
    BY <1>t DEF SecretTypeOK, Long
  <2>2. armed' = Min({armed + 1, Long})
    BY DEF SecretTick
  <2>3. armed' \in {armed + 1, Long} /\ armed' <= armed + 1 /\ armed' <= Long
    BY <2>1, <2>2, MinOfTwo
  <2> QED BY <2>1, <2>3
<1>1. fails' \in [0 .. Window - 1 -> 0 .. MaxHooks] /\ fails'[0] = 0 /\ \A a \in 1 .. Window - 1 : fails'[a] = fails[a - 1]
  <2>1. \A a \in 1 .. Window - 1 : a - 1 \in 0 .. Window - 1
    OBVIOUS
  <2> QED BY <1>t, <1>a, <2>1 DEF SecretTypeOK
<1>2. SecretTypeOK' /\ ShownIsKept'
  BY <1>t, <1>a, <1>b, <1>c, <1>1 DEF SecretTypeOK, ShownIsKept, secretVars, Long
<1>3. CountedOnce'
  <2>1. Pushing = {} /\ Pushing' = {} /\ received' = received /\ received \in Nat
    BY <1>t, <1>a DEF Pushing, SecretTypeOK
  <2>2. \A a \in 0 .. Window - 1 : fails[a] <= received
    BY <1>t DEF CountedOnce
  <2>3. \A a \in 0 .. Window - 1 : a = 0 \/ (a \in 1 .. Window - 1 /\ a - 1 \in 0 .. Window - 1)
    OBVIOUS
  <2>4. \A a \in 0 .. Window - 1 : fails'[a] <= received
    <3> SUFFICES ASSUME NEW a \in 0 .. Window - 1 PROVE fails'[a] <= received
      OBVIOUS
    <3>1. CASE a = 0
      BY <1>1, <2>1, <3>1
    <3>2. CASE a \in 1 .. Window - 1 /\ a - 1 \in 0 .. Window - 1
      <4>1. fails'[a] = fails[a - 1] /\ fails[a - 1] <= received
        BY <1>1, <2>2, <3>2
      <4> QED BY <4>1
    <3> QED BY <2>3, <3>1, <3>2
  <2>5. IsFiniteSet(Pushing') /\ fails'[0] + Cardinality(Pushing') <= received
    BY <1>1, <2>1, FS_EmptySet
  <2> QED BY <2>1, <2>4, <2>5 DEF CountedOnce
<1>4. CoolAfterArm'
  BY <1>t, <1>b, <1>c DEF CoolAfterArm, SecretTypeOK, Long
<1>5. QuietIsAnswered'
  <2> SUFFICES ASSUME Spike', ~silent', armed' >= Cooldown, NEW a \in 0 .. Window - 1, a < armed' - Cooldown
               PROVE  fails'[a] = 0
    BY DEF QuietIsAnswered
  <2>1. Spike
    BY <1>t, RecentFalls, RecentNat DEF Spike
  <2>2. CASE a = 0
    BY <1>1, <2>2
  <2>3. CASE a # 0
    <3>1. a - 1 \in 0 .. Window - 1 /\ a - 1 < armed - Cooldown /\ armed >= Cooldown
      BY <1>t, <1>c, <2>3 DEF SecretTypeOK, Long
    <3>2. fails[a - 1] = 0
      BY <1>t, <1>a, <2>1, <3>1 DEF QuietIsAnswered
    <3> QED BY <1>1, <2>3, <3>2
  <2> QED BY <2>2, <2>3
<1> QED BY <1>2, <1>3, <1>4, <1>5 DEF SecretInv

LEMMA SecretNextInv == SecretInv /\ [SecretNext]_gymSecretVars => SecretInv'
<1> SUFFICES ASSUME SecretInv, [SecretNext]_gymSecretVars PROVE SecretInv'
  OBVIOUS
<1>1. CASE UNCHANGED gymSecretVars
  BY <1>1 DEF SecretInv, SecretTypeOK, ShownIsKept, CountedOnce, Pushing, CoolAfterArm, QuietIsAnswered,
              Spike, Recent, gymSecretVars, secretVars, alarmVars
<1>2. CASE SecretNext
  BY <1>2, SecretMovesInv, WebhookInv, PushInv, AfterPushInv, TickInv DEF SecretNext, SecretMoves
<1> QED BY <1>1, <1>2

(* What was shown is the secret until someone replaces it, whatever pages  *)
(* cross; and, as long as Redis answers, a window full of wrong signatures *)
(* had its mail, however runs of the monitor cross.  For any window,       *)
(* cool-down and threshold.                                                *)
THEOREM SecretsAreKept == SecretSpec => []SecretsHold
<1>1. SecretInv => SecretsHold
  <2> SUFFICES ASSUME SecretInv PROVE SpikeIsTold
    BY DEF SecretsHold, SecretInv
  <2> SUFFICES ASSUME Spike, ~silent, \A w \in Watchers : watchers[w] = "idle", ~(armed < Long)
               PROVE  FALSE
    BY DEF SpikeIsTold, Spike
  <2>1. armed = Long /\ armed - Cooldown = Window /\ armed >= Cooldown
    BY DEF SecretInv, SecretTypeOK, Long
  <2>2. \A a \in 0 .. Window - 1 : fails[a] = 0
    BY <2>1 DEF SecretInv, QuietIsAnswered
  <2> QED BY <2>2, NoneRecent DEF SecretInv
<1> QED BY SecretInitInv, SecretNextInv, <1>1, PTL DEF SecretSpec
=============================================================================
