------------------------------ MODULE GymLink ------------------------------
(***************************************************************************)
(* Which gym a webhook is for.                                             *)
(*                                                                         *)
(* A gym is a row of `clients' with a status and at most one Wix site.     *)
(* The owner creates, edits, archives, restores and deletes rows; the      *)
(* set-up wizard, and the first webhook that names both a gym and a site,  *)
(* link a site to a gym that has none.  A webhook names the gym in a       *)
(* header, carries a site, or both; core/tenant-resolver.js looks each up  *)
(* and keeps every answer for five minutes in a map that nothing ever      *)
(* clears, and core/webhook-processor.js decides from the two answers.     *)
(*                                                                         *)
(* Time is counted in ticks; Ttl ticks are the five minutes and a webhook  *)
(* is in work for at most Lag of them.                                     *)
(***************************************************************************)
EXTENDS Integers, FiniteSets, FiniteSetsExt

CONSTANTS
  Gyms, Sites, Handlers,  \* the rows, the Wix sites, the webhooks in work at once
  NoGym, NoSite,
  Ttl, Lag,               \* life of a cached answer; longest life of a webhook
  MaxEdits, MaxEvents, MaxBlips  \* bounds: owner's edits, webhooks, failed lookups

ASSUME LinkAssumption ==
  /\ Ttl \in Nat \ {0} /\ Lag \in Nat
  /\ MaxEdits \in Nat /\ MaxEvents \in Nat /\ MaxBlips \in Nat
  /\ NoGym \notin Gyms /\ NoSite \notin Gyms \cup Sites /\ Gyms \cap Sites = {}

Keys == Gyms \cup Sites
MaybeGym == Gyms \cup {NoGym}
MaybeSite == Sites \cup {NoSite}
Horizon == Ttl + 2 * Lag

VARIABLES
  gyms,     \* the clients table: status and site of each row
  home,     \* the Wix site on which each gym's snippet is installed
  cache,    \* the resolver's map: an answer and its age for each key
  hooks,    \* the webhooks in work
  regs,     \* registrations started and not waited for
  last,     \* history: ticks since the table last gave this gym for this key
  calm,     \* history: ticks since the table last changed
  edits, events, blips

linkVars == <<gyms, home, cache, hooks, regs, last, calm, edits, events, blips>>

Statuses == {"new", "active", "off", "gone"}
NoAnswer == [gym |-> NoGym, age |-> 0]
Idle == [stage |-> "idle", hint |-> NoGym, site |-> NoSite, hintGym |-> NoGym,
         siteGym |-> NoGym, waited |-> 0, settled |-> FALSE]

LinkTypeOK ==
  /\ gyms \in [Gyms -> [status : Statuses, site : MaybeSite]]
  /\ home \in [Gyms -> Sites]
  /\ cache \in [Keys -> [gym : MaybeGym, age : 0 .. Ttl]]
  /\ hooks \in [Handlers ->
                  [stage : {"idle", "hint", "hintRead", "site", "siteRead", "decide"},
                   hint : MaybeGym, site : MaybeSite, hintGym : MaybeGym,
                   siteGym : MaybeGym, waited : 0 .. Lag, settled : BOOLEAN]]
  /\ regs \subseteq (Gyms \X Sites)
  /\ last \in [Keys -> [Gyms -> 0 .. Horizon]]
  /\ calm \in 0 .. Horizon
  /\ edits \in 0 .. MaxEdits /\ events \in 0 .. MaxEvents /\ blips \in 0 .. MaxBlips

----------------------------------------------------------------------------
(* The table. *)

\* The two lookups ask for an active row, by its id or by its site.
Answers(k) == {g \in Gyms : gyms[g].status = "active" /\ k \in {g, gyms[g].site}}

LookedAny(k) ==
  LET all == {g \in Gyms : k \in {g, gyms[g].site}}
  IN  IF all = {} THEN NoGym ELSE CHOOSE g \in all : TRUE

Looked(k) == IF Answers(k) = {} THEN NoGym ELSE CHOOSE g \in Answers(k) : TRUE

\* source_site_id is unique over all rows, whatever their status.
Free(s, g) == \A h \in Gyms \ {g} : gyms[h].site # s

Exists(g) == gyms[g].status \in {"active", "off"}

Noted ==
  /\ last' = [k \in Keys |-> [g \in Gyms |-> IF g \in Answers(k)' THEN 0 ELSE last[k][g]]]
  /\ calm' = IF gyms' = gyms THEN calm ELSE 0

\* Bound: what precedes the first webhook is in the initial table, and after
\* the last one nothing is followed any more.
Watched == 
  /\ events > 0
  /\ events < MaxEvents \/ \E w \in Handlers : hooks[w].stage # "idle"

Edit(g, row) ==
  /\ Watched
  /\ edits < MaxEdits /\ edits' = edits + 1
  /\ gyms' = [gyms EXCEPT ![g] = row]
  /\ Noted
  /\ UNCHANGED <<home, cache, hooks, regs, events, blips>>

\* A new row is active; a site another row holds answers 409.
Create(g, s) ==
  /\ gyms[g].status = "new"
  /\ s = NoSite \/ Free(s, g)
  /\ Edit(g, [status |-> "active", site |-> s])

\* The wizard links the first site only: it refuses another one.
Links(g, s) == gyms[g].site \in {NoSite, s} /\ Free(s, g)

SaveProfile(g, s) ==
  /\ gyms[g].status = "active" /\ Links(g, s)
  /\ Edit(g, [gyms[g] EXCEPT !.site = s])

\* The owner's edit writes status and site as given.
Patch(g, st, s) ==
  /\ Exists(g)
  /\ s = NoSite \/ Free(s, g)
  /\ Edit(g, [status |-> st, site |-> s])

Archive(g) == gyms[g].status = "active" /\ Edit(g, [gyms[g] EXCEPT !.status = "off"])

Restore(g) == gyms[g].status = "off" /\ Edit(g, [gyms[g] EXCEPT !.status = "active"])

Delete(g) == Exists(g) /\ Edit(g, [status |-> "gone", site |-> NoSite])

----------------------------------------------------------------------------
(* The webhook. *)

\* A snippet names its gym and signs with the secret in the gym's row, a native
\* Wix webhook carries only its site; the handler starts the registration and
\* does not wait for it.
Arrive(w, g, names, carries) ==
  /\ hooks[w].stage = "idle" /\ events < MaxEvents
  /\ names \/ carries
  /\ names => Exists(g)
  /\ events' = events + 1
  /\ hooks' = [hooks EXCEPT ![w] =
       [Idle EXCEPT !.stage = "hint",
                    !.hint = IF names THEN g ELSE NoGym,
                    !.site = IF carries THEN home[g] ELSE NoSite,
                    !.settled = calm = Horizon]]
  /\ regs' = IF names /\ carries THEN regs \cup {<<g, home[g]>>} ELSE regs
  /\ UNCHANGED <<gyms, home, cache, last, calm, edits, blips>>

\* The update touches only a row without a site; a site taken elsewhere is an
\* error that is caught.
Unlinked(g, s) == Exists(g) /\ gyms[g].site = NoSite /\ Free(s, g)

Register(g, s) ==
  /\ <<g, s>> \in regs
  /\ regs' = regs \ {<<g, s>>}
  /\ gyms' = IF Unlinked(g, s) THEN [gyms EXCEPT ![g].site = s] ELSE gyms
  /\ Noted
  /\ UNCHANGED <<home, cache, hooks, edits, events, blips>>

\* A kept answer serves while it is younger than Ttl.  Only answers are kept:
\* a key nobody answers to is asked again each time.
Kept(k) == cache[k].gym # NoGym /\ cache[k].age < Ttl

Stores(k, g) == IF g = NoGym THEN cache ELSE [cache EXCEPT ![k] = [gym |-> g, age |-> 0]]

\* The first half of a lookup: nothing to ask, a kept answer, or the table's
\* answer, which is read now and used after the wait.
AskHint(w) ==
  LET k == hooks[w].hint IN
  /\ hooks[w].stage = "hint"
  /\ hooks' = [hooks EXCEPT ![w] =
       IF k = NoGym THEN [@ EXCEPT !.stage = "site"]
       ELSE IF Kept(k) THEN [@ EXCEPT !.stage = "site", !.hintGym = cache[k].gym]
       ELSE [@ EXCEPT !.stage = "hintRead", !.hintGym = Looked(k)]]
  /\ UNCHANGED <<gyms, home, cache, regs, last, calm, edits, events, blips>>

HearHint(w) ==
  /\ hooks[w].stage = "hintRead"
  /\ cache' = Stores(hooks[w].hint, hooks[w].hintGym)
  /\ hooks' = [hooks EXCEPT ![w].stage = "site"]
  /\ UNCHANGED <<gyms, home, regs, last, calm, edits, events, blips>>

AskSite(w) ==
  LET k == hooks[w].site IN
  /\ hooks[w].stage = "site"
  /\ hooks' = [hooks EXCEPT ![w] =
       IF k = NoSite THEN [@ EXCEPT !.stage = "decide"]
       ELSE IF Kept(k) THEN [@ EXCEPT !.stage = "decide", !.siteGym = cache[k].gym]
       ELSE [@ EXCEPT !.stage = "siteRead", !.siteGym = Looked(k)]]
  /\ UNCHANGED <<gyms, home, cache, regs, last, calm, edits, events, blips>>

HearSite(w) ==
  /\ hooks[w].stage = "siteRead"
  /\ cache' = Stores(hooks[w].site, hooks[w].siteGym)
  /\ hooks' = [hooks EXCEPT ![w].stage = "decide"]
  /\ UNCHANGED <<gyms, home, regs, last, calm, edits, events, blips>>

\* A lookup that fails is caught: the answer is nobody, and nothing is kept.
Blip(w) ==
  /\ blips < MaxBlips /\ blips' = blips + 1
  /\ \/ /\ hooks[w].stage = "hintRead"
        /\ hooks' = [hooks EXCEPT ![w].stage = "site", ![w].hintGym = NoGym,
                                  ![w].settled = FALSE]
     \/ /\ hooks[w].stage = "siteRead"
        /\ hooks' = [hooks EXCEPT ![w].stage = "decide", ![w].siteGym = NoGym,
                                  ![w].settled = FALSE]
  /\ UNCHANGED <<gyms, home, cache, regs, last, calm, edits, events>>

\* The gym named wins; a site that answers another gym is a mismatch and the
\* event goes nowhere; with no gym answering to the name, the site decides.
Verdict(h) ==
  IF h.hintGym = NoGym THEN h.siteGym
  ELSE IF h.siteGym \in {NoGym, h.hintGym} THEN h.hintGym
  ELSE NoGym

\* The event is queued for the verdict, or written to the alert log; either
\* way the delivery is answered 200 and stays marked as processed.
Decide(w) ==
  /\ hooks[w].stage = "decide"
  /\ hooks' = [hooks EXCEPT ![w] = Idle]
  /\ UNCHANGED <<gyms, home, cache, regs, last, calm, edits, events, blips>>

\* Time passes for answers, webhooks and the history alike.
LinkTick ==
  /\ Watched
  /\ \A w \in Handlers : hooks[w].stage # "idle" => hooks[w].waited < Lag
  /\ hooks' = [w \in Handlers |-> IF hooks[w].stage = "idle" THEN hooks[w]
                                  ELSE [hooks[w] EXCEPT !.waited = @ + 1]]
  /\ cache' = [k \in Keys |-> IF cache[k].gym = NoGym THEN NoAnswer
                              ELSE [cache[k] EXCEPT !.age = Min({@ + 1, Ttl})]]
  /\ last' = [k \in Keys |-> [g \in Gyms |->
       IF g \in Answers(k) THEN 0 ELSE Min({last[k][g] + 1, Horizon})]]
  /\ calm' = Min({calm + 1, Horizon})
  /\ UNCHANGED <<gyms, home, regs, edits, events, blips>>

----------------------------------------------------------------------------
\* Any table of earlier edits, left alone since; a linked gym is linked to the
\* site its snippet is on.
LinkInit ==
  /\ gyms \in [Gyms -> [status : {"active", "off"}, site : MaybeSite]
                        \cup {[status |-> "new", site |-> NoSite]}]
  /\ \A g \in Gyms : gyms[g].site = NoSite \/ Free(gyms[g].site, g)
  /\ home \in [Gyms -> Sites]
  /\ \A g \in Gyms : gyms[g].site \in {NoSite, home[g]}
  /\ cache = [k \in Keys |-> NoAnswer]
  /\ hooks = [w \in Handlers |-> Idle]
  /\ regs = {}
  /\ last = [k \in Keys |-> [g \in Gyms |-> IF g \in Answers(k) THEN 0 ELSE Horizon]]
  /\ calm = Horizon /\ edits = 0 /\ events = 0 /\ blips = 0

OwnerEdits ==
  \E g \in Gyms :
    \/ \E s \in MaybeSite : Create(g, s)
    \/ \E s \in Sites : SaveProfile(g, s)
    \/ \E st \in {"active", "off"}, s \in MaybeSite : Patch(g, st, s)
    \/ Archive(g) \/ Restore(g) \/ Delete(g)

HookSteps ==
  \E w \in Handlers :
    \/ \E g \in Gyms, names, carries \in BOOLEAN : Arrive(w, g, names, carries)
    \/ AskHint(w) \/ HearHint(w) \/ AskSite(w) \/ HearSite(w)
    \/ Blip(w) \/ Decide(w)

LinkNext == OwnerEdits \/ HookSteps \/ (\E r \in regs : Register(r[1], r[2])) \/ LinkTick

LinkSpec == LinkInit /\ [][LinkNext]_linkVars

----------------------------------------------------------------------------
(* Properties. *)

Ends(w) == hooks[w].stage = "decide" /\ hooks'[w].stage = "idle"

\* What the resolver keeps was true of the table within the answer's age and
\* one webhook's life: a link or an archive is seen everywhere soon after,
\* although nothing ever clears the map.
CacheIsRecent ==
  \A k \in Keys : Kept(k) =>
    last[k][cache[k].gym] <= cache[k].age + Lag

\* An event is queued only for a gym that the table gave for the event's own
\* header or site less than five minutes and two webhook lives ago, however
\* edits, webhooks and kept answers interleave.
RoutedOnRecent ==
  [][\A w \in Handlers : Ends(w) /\ Verdict(hooks[w]) # NoGym =>
       \E k \in {hooks[w].hint, hooks[w].site} \cap Keys :
         last[k][Verdict(hooks[w])] < Horizon]_linkVars

\* Once the table has been left alone for that long, every webhook whose
\* lookups do not fail is routed exactly as the table says: no event of a
\* gym in order is lost or misrouted by an older state of the table.
Rightful(h) == Verdict([h EXCEPT !.hintGym = IF h.hint = NoGym THEN NoGym ELSE Looked(h.hint),
                                 !.siteGym = IF h.site = NoSite THEN NoGym ELSE Looked(h.site)])

RoutedAsRecorded ==
  [][\A w \in Handlers : Ends(w) /\ hooks[w].settled /\ calm = Horizon =>
       Verdict(hooks[w]) = Rightful(hooks[w])]_linkVars

\* A gym linked to a site is never moved to another one by a registration or
\* the wizard, whichever come first: only the owner's edit moves a link.
LinkKept ==
  [][\A g \in Gyms :
       gyms[g].site # NoSite /\ gyms'[g].site \notin {gyms[g].site, NoSite} =>
         \E st \in {"active", "off"} : Patch(g, st, gyms'[g].site)]_linkVars

EventsGoRight == RoutedOnRecent /\ RoutedAsRecorded /\ LinkKept

\* Together: the map is never older than it may be, and events and links go by it.
LinkHolds == [](LinkTypeOK /\ CacheIsRecent) /\ EventsGoRight

\* An event that names a gym is queued for no other gym (violated: when the
\* gym named does not answer, the site decides alone).
NeverRedirected ==
  [][\A w \in Handlers : Ends(w) /\ hooks[w].hint # NoGym =>
       Verdict(hooks[w]) \in {NoGym, hooks[w].hint}]_linkVars

----------------------------------------------------------------------------
(* What makes them inductive. *)

\* source_site_id is unique, and a row that is not there has none: a key has
\* one gym at most, so that a kept answer can be compared with the table's.
OneGymPerSite ==
  /\ \A g, h \in Gyms : g # h /\ gyms[g].site = gyms[h].site => gyms[g].site = NoSite
  /\ \A g \in Gyms : gyms[g].status = "new" => gyms[g].site = NoSite

\* A gym the table does not give for a key was last given before the table
\* last changed.
HistoryIsTrue ==
  \A k \in Keys, g \in Gyms : IF g \in Answers(k) THEN last[k][g] = 0 ELSE calm <= last[k][g]

\* What a webhook holds ages with it: fresh from the table, or at worst as old
\* as a kept answer may be; a handler at rest holds nothing.
AgeAtMost(fresh) == IF fresh THEN 0 ELSE Ttl - 1 + Lag

AnswersAreRecent(h) ==
  /\ h.stage = "idle" => h = Idle
  /\ h.hintGym # NoGym => /\ h.hint # NoGym
                          /\ last[h.hint][h.hintGym] <= AgeAtMost(h.stage = "hintRead") + h.waited
  /\ h.siteGym # NoGym => /\ h.site # NoSite
                          /\ last[h.site][h.siteGym] <= AgeAtMost(h.stage = "siteRead") + h.waited

\* While the table is left alone, it is also what the table says.
AnswersAreRight(h) ==
  h.settled =>
    /\ calm = Horizon \/ calm <= h.waited
    /\ calm = Horizon /\ h.stage \notin {"idle", "hint"} /\ h.hint # NoGym => h.hintGym = Looked(h.hint)
    /\ calm = Horizon /\ h.stage \in {"siteRead", "decide"} /\ h.site # NoSite => h.siteGym = Looked(h.site)

LinkInv ==
  /\ LinkTypeOK /\ OneGymPerSite /\ HistoryIsTrue /\ CacheIsRecent
  /\ \A w \in Handlers : AnswersAreRecent(hooks[w]) /\ AnswersAreRight(hooks[w])
============================================================================
