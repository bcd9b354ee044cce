--------------------------- MODULE MCRemovalSweep ---------------------------
(* Instances of RemovalSweep for TLC.  Order "a1" is member a's plan 1.    *)
EXTENDS RemovalSweep

MCDataSources == {"wix_orders", "wix_bookings"}

MCSourceReads ==
  [s \in Sources |-> CASE s = "wix_absence"  -> MCDataSources
                       [] s = "holder_lapse" -> {"wix_orders"}
                       [] s = "role_drift"   -> {}]

MCMemberOf == [o \in Orders |-> CASE o \in {"a1", "a2"} -> "a" [] o = "b1" -> "b" [] o = "c1" -> "c" [] OTHER -> "d"]

MCReadOf == [o \in Orders |-> IF o = "a2" THEN "wix_bookings" ELSE "wix_orders"]

MCRidesOn == [s \in Seats |-> "a1"]

(* Bookings are listed or not; an order may also be declined or ended.     *)
AnyClass == [o \in Orders |-> IF o = "a2" THEN {"paying", "absent"} ELSE {"paying", "held", "ended", "absent"}]
EndOrPay == [o \in Orders |-> IF o = "a2" THEN {"paying", "absent"} ELSE {"paying", "ended"}]
OneEnds  == [o \in Orders |-> IF o = "a1" THEN {"paying", "ended"} ELSE {"paying"}]
=============================================================================
