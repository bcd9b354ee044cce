------------------------------ MODULE MCOrders ------------------------------
(***************************************************************************)
(* What an order comes to: the plan orders of a member and the events Wix  *)
(* sends of them (OrderEvents), the day passes of single orders (DayPass)  *)
(* and the Kisi user all of it hangs on (KisiUsers).  "part" says which of *)
(* the three has something to do; the others rest.                         *)
(***************************************************************************)
EXTENDS OrderEvents, DayPass, KisiUsers

CONSTANTS o1, o2

VARIABLE part
-----------------------------------------------------------------------------
Of(os, events, inOrder, swept, parks) ==
  [orders |-> os, events |-> events, inOrder |-> inOrder, swept |-> swept, parks |-> parks]
NoEvents    == Of({o1}, 0, TRUE, FALSE, FALSE)
EventCases  == {NoEvents, Of({o1}, 5, TRUE, FALSE, TRUE), Of({o1}, 4, FALSE, TRUE, FALSE),
                Of({o1, o2}, 3, FALSE, TRUE, FALSE), Of({o1}, 3, FALSE, TRUE, TRUE)}

(* A plan is bought ahead, starts, and ends: in order, and swept.          *)
ParkedAhead == {NoEvents, Of({o1}, 3, TRUE, TRUE, TRUE)}
-----------------------------------------------------------------------------
NoPasses == [buys |-> {}, echoes |-> 0, refunds |-> FALSE, looks |-> 0, faults |-> 0, kinds |-> {}]
OnePass  == [NoPasses EXCEPT !.buys = {"p1"}]

(* Wix sends a purchase twice and the member lock is lost.                 *)
TripleFire == [OnePass EXCEPT !.echoes = 2, !.faults = 1, !.kinds = {"lock"}]

(* Kisi refuses a link, or makes it and the answer is lost.                *)
KisiTrouble2 == [OnePass EXCEPT !.looks = 1, !.faults = 2, !.kinds = {"kisi", "late"}]

(* Orders are refunded while passes of others are open.                    *)
Refunded == [OnePass EXCEPT !.buys = {"p1", "p2"}, !.refunds = TRUE, !.faults = 1, !.kinds = {"kisi"}]

(* One order after another, and a webhook of one comes twice.              *)
TwoOrders == [OnePass EXCEPT !.buys = {"p1", "p2"}, !.echoes = 1]

(* A grant that dies between the link and its record.                      *)
CutOff == [OnePass EXCEPT !.echoes = 1, !.faults = 1, !.kinds = {"crash", "record", "release", "kisi"}]

(* A refund of an order whose grant died, could not record its link or ran *)
(* beside another.                                                         *)
RefundAfter(k) == [OnePass EXCEPT !.echoes = 1, !.refunds = TRUE, !.faults = 1, !.kinds = {k}]
RefundedOddly == {NoPasses, RefundAfter("crash"), RefundAfter("record"), RefundAfter("lock")}

NoPassCases == {NoPasses}
PassCases == NoPassCases \cup {CutOff, TwoOrders, TripleFire, KisiTrouble2, Refunded}
-----------------------------------------------------------------------------
NobodyYet == [gym |-> [a1 |-> "g1", a2 |-> "g1"], jobs |-> [a1 |-> << >>, a2 |-> << >>],
              apart |-> FALSE, way |-> "kept", older |-> "absent", faults |-> 0, kinds |-> {}, staff |-> 0,
              does |-> {}, script |-> FALSE]
Alone == [NobodyYet EXCEPT !.jobs["a1"] = <<"grant", "revoke", "grant">>]

(* Two people of one gym share an address; their jobs overlap.             *)
Family == [NobodyYet EXCEPT !.jobs = [a1 |-> <<"grant", "revoke">>, a2 |-> <<"grant", "revoke">>],
                            !.faults = 1, !.kinds = {"late", "lag"}]
InTurn == {[Family EXCEPT !.apart = TRUE, !.kinds = {"error", "late"}, !.faults = 2],
           [Family EXCEPT !.apart = TRUE, !.faults = 0, !.staff = 1, !.does = {"promote"}]}

(* One person at two gyms of one organisation.                             *)
TwoGyms == [Family EXCEPT !.gym = [a1 |-> "g1", a2 |-> "g2"]]

(* Every way Kisi treats metadata, and a failing request.                  *)
Labels == {[Alone EXCEPT !.way = w, !.faults = 1, !.kinds = {"error"}] : w \in MetaWays}

(* An account older than AccessSync's grant, and staff at work.            *)
Handmade == {[Alone EXCEPT !.older = o, !.staff = 2, !.does = {"promote", "unmark", "addKey"}, !.script = TRUE] :
               o \in {"absent", "unmarked", "g1", "g2"}}
KeyAdded == {[Alone EXCEPT !.older = o, !.way = "patched", !.apart = TRUE, !.staff = 1, !.does = {"addKey"},
                           !.script = TRUE] : o \in {"absent", "g1", "g2"}}

(* The key is added while the script stamps.                               *)
KeyCrossing == {NobodyYet, [Alone EXCEPT !.older = "g1", !.way = "patched", !.staff = 1, !.does = {"addKey"}, !.script = TRUE]}

(* Staff delete the user, also under a grant.                              *)
Removed == [Alone EXCEPT !.staff = 1, !.does = {"delete"}, !.faults = 1, !.kinds = {"lag"}]

NobodyCases == {NobodyYet}
PeopleCases == InTurn \cup Labels \cup Handmade \cup KeyAdded \cup {NobodyYet, Family, TwoGyms, Removed}
-----------------------------------------------------------------------------
OrdersRunInit ==
  /\ OrdersInit /\ PassInit /\ PeopleInit
  /\ part \in {"orders", "passes", "people"}
  /\ (part = "orders") <=> (history # NoEvents)
  /\ (part = "passes") <=> (passLeft # NoPasses)
  /\ part # "passes" => longest = "p1"
  /\ (part = "people") <=> (peopleLeft # NobodyYet)

OrdersRunNext ==
  /\ UNCHANGED part
  /\ \/ part = "orders" /\ OrdersNext /\ UNCHANGED <<passVars, peopleVars>>
     \/ part = "passes" /\ PassNext   /\ UNCHANGED <<vars, peopleVars>>
     \/ part = "people" /\ PeopleNext /\ UNCHANGED <<vars, passVars>>

(* The fairness of the three, for the part at work.                        *)
OrdersRunFairness ==
  /\ WF_vars(part = "orders" /\ \E e \in transit : Deliver(e))
  /\ WF_vars(part = "orders" /\ \E j \in jobs : RunJob(j))
  /\ WF_vars(part = "orders" /\ Sweep)
  /\ \A w \in PassWorkers :
       WF_passVars(part = "passes" /\ ((\E j \in passJobs : Starts(w, j)) \/ PassGrantStep(w) \/ PassRevokeStep(w)))
  /\ \A o \in Orders : WF_passVars(part = "passes" /\ SweepsRow(o))
  /\ WF_passVars(part = "passes" /\ \E l \in links : SweepsLink(l))
  /\ WF_passVars(part = "passes" /\ Polls)
  /\ \A a \in Accounts : WF_peopleVars(part = "people" /\ (GrantStep(a) \/ LabelStep(a) \/ RevokeStep(a)))
  /\ WF_peopleVars(part = "people" /\ LabelStep(Script))

OrdersRunSpec ==
  OrdersRunInit /\ [][OrdersRunNext]_<<vars, passVars, peopleVars, part>> /\ OrdersRunFairness
-----------------------------------------------------------------------------
(* What Wix says and what a pass comes to, in the end: however events were *)
(* reordered, the sweep puts the door right (reconciliation.js 3A and 3B); *)
(* whoever paid for a pass is served, and its codes end; and the member is *)
(* settled in Kisi, there or gone.                                         *)
OrdersSettle == SweepSettles /\ PassesSettle /\ EveryoneIsSettled
=============================================================================
