----------------------------- MODULE MCSweepData ----------------------------
(***************************************************************************)
(* The caps of the removal policy over whole batches and the removals of   *)
(* seats (RemovalSweep), and what the sweep reads of Wix (WixLists).       *)
(* "part" says what happens: sweeps alone, with anything going wrong;      *)
(* sweeps beside the cascades of a1's cancel, while b pays and Wix         *)
(* answers; or the lists move.  Order "a1" is member a's, "b1" member b's; the    *)
(* seats ride on "a1".                                                     *)
(***************************************************************************)
EXTENDS RemovalSweep, WixLists, TLC

CONSTANTS o1, o2, o3, o4, b1, b2, p1, p2, p3, s1, s2

VARIABLE part
-----------------------------------------------------------------------------
MCDataSources == {"wix_orders", "wix_bookings"}
MCSourceReads ==
  ("wix_absence" :> MCDataSources) @@ ("holder_lapse" :> {"wix_orders"}) @@ ("role_drift" :> {})
MCMemberOf == ("a1" :> "a") @@ ("b1" :> "b")
MCReadOf   == [o \in Orders |-> "wix_orders"]
MCRidesOn  == [s \in Seats |-> "a1"]
EndOrPay   == [o \in Orders |-> {"paying", "ended"}]
SeatSymmetry == Permutations({s1, s2})
-----------------------------------------------------------------------------
(* Two orders are of the same member and plan.                             *)
MCPairOf == [e \in Entries |-> CASE e \in {o1, o3} -> p1 [] e \in {o2, b1} -> p2 [] OTHER -> p3]

Story(orders, bookings, paying, edits, does, cuts) ==
  [listed |-> [src \in Feeds |-> IF src = "orders" THEN orders ELSE bookings],
   paying |-> paying, edits |-> edits, does |-> does, cuts |-> cuts]

StillLists == Story(<< >>, << >>, {}, 0, {}, 0)
ListCases  == {StillLists,
               Story(<<o1, o2, o3>>, << >>, {o1, o2}, 2, {"place", "lose", "move"}, 0),
               Story(<<o1, o3>>, <<b1, b2>>, {o1, b1}, 2, {"lose", "status"}, 1),
               Story(<<o1>>, <<b1, b2>>, {o1, b1, b2}, 2, {"place", "status"}, 1)}

(* One order leaves the list between two pages.                            *)
Shrinking == {Story(<<o1, o2, o3>>, << >>, {o1, o2, o3}, 1, {"lose"}, 0)}
-----------------------------------------------------------------------------
DataInit ==
  /\ Init /\ ListsInit
  /\ part \in {"sweep", "cascade", "lists"}
  /\ (part = "lists")  <=> (listLeft # StillLists)

(* b pays, in Wix and in what is read of it.                               *)
BPays ==
  /\ wix["b1"] = "paying"
  /\ sweep.at = "read" => sweep.first["b1"] = "paying"
  /\ sweep.at = "judge" => sweep.reads[2]["b1"] = "paying"

DataNext ==
  /\ UNCHANGED part
  /\ \/ part = "sweep"   /\ Next      /\ UNCHANGED <<cascade, listVars>>
     \/ part = "cascade" /\ Next      /\ BPays'    /\ UNCHANGED listVars
     \/ part = "lists"   /\ ListsNext /\ UNCHANGED vars

DataSpec == DataInit /\ [][DataNext]_<<vars, listVars, part>>
=============================================================================
