------------------------------ MODULE WixLists ------------------------------
(***************************************************************************)
(* What the sweep reads of Wix: the offset pager of the orders and the     *)
(* cursor pager of the bookings (adapters/wix/wix-plans-api.js), walked    *)
(* side by side, twice (core/reconciliation.js _readWixTwice), and folded  *)
(* into one view of who is paying.  Wix goes on changing the lists between *)
(* two pages.  What is decided from the view is RemovalSweep's.            *)
(***************************************************************************)
EXTENDS Integers, FiniteSets, Sequences
Seqs == INSTANCE SequencesExt

CONSTANTS
  Ordered,         \* ids of pricing-plan orders
  Booked,          \* ids of bookings
  Guests,          \* orders and bookings without a buyer
  Pairs,           \* (member, plan)
  PairOf,          \* order or booking |-> its pair
  OrderLimit,      \* limit of an orders page
  BookingLimit,    \* limit of a bookings page
  MaxWixPages,     \* WIX_MAX_PAGES
  ListScenarios

Entries == Ordered \cup Booked
Feeds == {"orders", "bookings"}
IdsOf(src) == IF src = "orders" THEN Ordered ELSE Booked

ASSUME WixListsAssumption ==
  /\ {OrderLimit, BookingLimit, MaxWixPages} \subseteq Nat \ {0}
  /\ IsFiniteSet(Entries) /\ Ordered \cap Booked = {} /\ Guests \subseteq Entries
  /\ PairOf \in [Entries -> Pairs]
  /\ ListScenarios \subseteq
       [listed : [Feeds -> Seq(Entries)], paying : SUBSET Entries, edits : Nat, cuts : Nat,
        does : SUBSET {"place", "lose", "move", "status"}]
  /\ \A l \in ListScenarios, src \in Feeds :
       Seqs!ToSet(l.listed[src]) \subseteq IdsOf(src) /\ Seqs!IsInjective(l.listed[src])

VARIABLES
  list,        \* source |-> what Wix lists, in order
  good,        \* the orders PAYING, the bookings CONFIRMED; the others are over
  read,        \* [at, walk : source |-> [page, got, class, done]]
  firstRead,   \* entry |-> the class the first read gave it
  shrank,      \* the reads, by source and number, in which the list lost an entry
  stood,       \* entries listed and good ever since the sync began
  ever,        \* entries listed and good at some moment of the sync
  listLeft

listVars == <<list, good, read, firstRead, shrank, stood, ever, listLeft>>
wixState == <<list, good>>
-----------------------------------------------------------------------------
SourceOf(e) == IF e \in Ordered THEN "orders" ELSE "bookings"
Shown == Seqs!ToSet(list["orders"]) \cup Seqs!ToSet(list["bookings"])

NewWalk == [page |-> 1, got |-> {}, class |-> [e \in Entries |-> "absent"], done |-> FALSE]
NewRead(at) == [at |-> at, walk |-> [src \in Feeds |-> NewWalk]]

ListsInit ==
  /\ listLeft \in ListScenarios
  /\ list = listLeft.listed
  /\ good = listLeft.paying
  /\ read = NewRead("idle")
  /\ firstRead = NewWalk.class /\ shrank = {} /\ stood = {} /\ ever = {}
-----------------------------------------------------------------------------
(* Wix.                                                                    *)

Changes(k) ==
  /\ k \in listLeft.does /\ listLeft.edits > 0
  /\ listLeft' = [listLeft EXCEPT !.edits = @ - 1]
  /\ stood' = stood \cap (Seqs!ToSet(list'["orders"]) \cup Seqs!ToSet(list'["bookings"])) \cap good'
  /\ ever' = ever \cup ((Seqs!ToSet(list'["orders"]) \cup Seqs!ToSet(list'["bookings"])) \cap good')
  /\ UNCHANGED <<read, firstRead>>

\* A purchase: at either end of the list.
Buys(e) ==
  /\ e \notin Shown
  /\ \E s \in {<<e>> \o list[SourceOf(e)], Append(list[SourceOf(e)], e)} :
       list' = [list EXCEPT ![SourceOf(e)] = s]
  /\ good' = good \cup {e} /\ UNCHANGED shrank
  /\ Changes("place")

Without(e) ==
  LET s == list[SourceOf(e)]
  IN Seqs!RemoveAt(s, CHOOSE i \in DOMAIN s : s[i] = e)

\* Wix lists it no more.
Loses(e) ==
  /\ e \in Shown
  /\ list' = [list EXCEPT ![SourceOf(e)] = Without(e)]
  /\ shrank' = shrank \cup {<<SourceOf(e), read.at>>} /\ UNCHANGED good
  /\ Changes("lose")

\* An update takes an order to the other end.
ReordersTo(e, s) ==
  /\ s # list["orders"]
  /\ list' = [list EXCEPT !["orders"] = s] /\ UNCHANGED <<good, shrank>>
  /\ Changes("move")
Reorders(e) ==
  /\ e \in Shown \cap Ordered
  /\ \E s \in {<<e>> \o Without(e), Append(Without(e), e)} : ReordersTo(e, s)

EndsOrReturns(e) ==
  /\ e \in Shown
  /\ good' = (good \ {e}) \cup ({e} \ good) /\ UNCHANGED <<list, shrank>>
  /\ Changes("status")
-----------------------------------------------------------------------------
(* The pagers.                                                             *)

Reading == read.at \in {"first", "second"}

\* The run holds the client's sync lock; the strikes make the next sync a new one.
SyncStarts ==
  /\ read.at = "idle"
  /\ read' = NewRead("first")
  /\ stood' = Shown \cap good /\ ever' = Shown \cap good
  /\ UNCHANGED <<wixState, firstRead, shrank, listLeft>>

LimitOf(src) == IF src = "orders" THEN OrderLimit ELSE BookingLimit

\* What is to come: the orders behind the offset, the bookings the cursor has not given.
Offset == (read.walk["orders"].page - 1) * OrderLimit
Ahead(src) == IF src = "orders" THEN {list[src][i] : i \in {k \in DOMAIN list[src] : k > Offset}}
              ELSE Seqs!ToSet(list[src]) \ read.walk[src].got

\* The pages Wix can answer with: a cursor keeps no order.
PagesAt(src) ==
  IF src = "orders" THEN {{list[src][i] : i \in {k \in DOMAIN list[src] : Offset < k /\ k <= Offset + OrderLimit}}}
  ELSE IF Cardinality(Ahead(src)) <= BookingLimit THEN {Ahead(src)}
  ELSE {data \in SUBSET Ahead(src) : Cardinality(data) = BookingLimit}

\* Mutation: an id seen before is taken again.
SeenBeforeNever(w, data) == FALSE

\* Duplicate id across pages: the list moved towards the reader.
SeenBefore(w, data) == data \cap w.got # {}

IsShort(src, data) == Cardinality(data) < LimitOf(src)

\* A full bookings page without a cursor, and Wix does not say hasNext = false.
Truncated(src, data, cut) == src = "bookings" /\ cut /\ ~IsShort(src, data)

\* classifyOrder; a booking that is not CONFIRMED is left out.
ClassOf(e) == IF e \in good THEN "paying" ELSE IF e \in Ordered THEN "over" ELSE "absent"

\* What the walk has after this page; without a member the entry is skipped.
WithPage(src, data, last) ==
  [read.walk[src] EXCEPT !.page = @ + 1, !.got = @ \cup data, !.done = last,
                         !.class = [e \in Entries |-> IF e \in data \ Guests THEN ClassOf(e) ELSE @[e]]]

SyncAborts == read' = NewRead("aborted")

\* The walk goes on: after a full page, the bookings only where a cursor came with it.
Full(src, data, cut) == ~IsShort(src, data) /\ (src = "bookings" => Ahead(src) # data /\ ~cut)

\* cut: the cursor is missing from a bookings page.
MayCut(src, data) == src = "bookings" /\ listLeft.cuts > 0 /\ Ahead(src) # data

ReadsPageOf(src) ==
  /\ Reading /\ ~read.walk[src].done
  /\ \E data \in PagesAt(src), cut \in BOOLEAN :
       /\ cut => MayCut(src, data)
       /\ IF \/ read.walk[src].page > MaxWixPages
             \/ SeenBefore(read.walk[src], data)
             \/ Truncated(src, data, cut)
          THEN SyncAborts
          ELSE read' = [read EXCEPT !.walk[src] = WithPage(src, data, ~Full(src, data, cut))]
       /\ listLeft' = [listLeft EXCEPT !.cuts = IF cut THEN @ - 1 ELSE @]
  /\ UNCHANGED <<wixState, firstRead, shrank, stood, ever>>

\* An HTTP error (401, 403, any other) or a body that is no list of objects.
PageBreaks ==
  /\ Reading
  /\ SyncAborts
  /\ UNCHANGED <<wixState, firstRead, shrank, stood, ever, listLeft>>
-----------------------------------------------------------------------------
(* The double read.                                                        *)

WalksDone == Reading /\ \A src \in Feeds : read.walk[src].done
ClassRead(e) == read.walk[SourceOf(e)].class[e]

\* _doubleReadDelayMs later.
SecondReadStarts ==
  /\ WalksDone /\ read.at = "first"
  /\ firstRead' = [e \in Entries |-> ClassRead(e)]
  /\ read' = NewRead("second")
  /\ UNCHANGED <<wixState, shrank, stood, ever, listLeft>>

Folds ==
  /\ WalksDone /\ read.at = "second"
  /\ read' = [read EXCEPT !.at = "folded"]
  /\ UNCHANGED <<wixState, firstRead, shrank, stood, ever, listLeft>>

ListsNext ==
  \/ \E e \in Entries : Buys(e) \/ Loses(e) \/ Reorders(e) \/ EndsOrReturns(e)
  \/ SyncStarts \/ \E src \in Feeds : ReadsPageOf(src)
  \/ PageBreaks \/ SecondReadStarts \/ Folds

ListsSpec == ListsInit /\ [][ListsNext]_listVars
-----------------------------------------------------------------------------
\* bestClass of buildWixPayingView: the better of the two reads, over all its orders.
BestOf(p) ==
  LET classes == UNION {{firstRead[e], ClassRead(e)} : e \in {x \in Entries : PairOf[x] = p}}
  IN IF "paying" \in classes THEN "paying" ELSE IF "over" \in classes THEN "over" ELSE "absent"
-----------------------------------------------------------------------------
WalkType(src) ==
  LET w == read.walk[src]
  IN /\ w.page \in 1 .. MaxWixPages + 1 /\ w.done \in BOOLEAN
     /\ w.got \subseteq IdsOf(src)
     /\ w.class \in [Entries -> {"paying", "over", "absent"}]

ListsTypeOK ==
  /\ \A src \in Feeds : list[src] \in Seq(IdsOf(src)) /\ Seqs!IsInjective(list[src])
  /\ good \subseteq Entries /\ stood \subseteq ever /\ ever \subseteq Entries
  /\ read.at \in {"idle", "first", "second", "folded", "aborted"}
  /\ \A src \in Feeds : WalkType(src)
  /\ firstRead \in [Entries -> {"paying", "over", "absent"}]

(***************************************************************************)
(* A walk that ends has read every order or booking that was listed when   *)
(* the sync began and still is, unless the list lost an entry during that  *)
(* read: whatever Wix adds or moves between two pages, nothing is skipped  *)
(* without a refusal.                                                      *)
(***************************************************************************)
WholeOrRefused ==
  \A src \in Feeds :
    Reading /\ read.walk[src].done /\ <<src, read.at>> \notin shrank
      => stood \cap IdsOf(src) \subseteq read.walk[src].got

(***************************************************************************)
(* When both reads are folded, nobody who paid all along is read as ended  *)
(* or absent, unless the list of his order lost an entry in the first read *)
(* and again in the second; and nobody is read as paying who never was     *)
(* during the sync.                                                        *)
(***************************************************************************)
PayersAreSeen ==
  read.at = "folded" =>
    /\ \A e \in stood \ Guests :
         BestOf(PairOf[e]) = "paying" \/ \A at \in {"first", "second"} : <<SourceOf(e), at>> \in shrank
    /\ \A p \in Pairs : BestOf(p) = "paying" => \E e \in ever : PairOf[e] = p

(* A walk that ends is whole, and two of them misread nobody.              *)
ListsHold == WholeOrRefused /\ PayersAreSeen

(***************************************************************************)
(* _fetchAllOrders throws rather than return a partial list: a walk that   *)
(* ends has read every order that stood.                                   *)
(***************************************************************************)
NeverPartial ==
  Reading /\ read.walk["orders"].done => stood \cap Ordered \subseteq read.walk["orders"].got
=============================================================================
