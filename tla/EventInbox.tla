----------------------------- MODULE EventInbox -----------------------------
(***************************************************************************)
(* What the webhook handler promises for the events that have a route, the *)
(* header of core/webhook-processor.js and step 2 of                       *)
(* adapters/wix/wix-connector.js: the fate of an event is decided once, it *)
(* becomes one job or it is lost, and Wix is told 200 only when it is      *)
(* decided.  The promise ends when a handler outlives its answer or the    *)
(* queue's answer is lost ("late"); WebhookIngress implements it.          *)
(***************************************************************************)
CONSTANT Routed       \* the events that have a route

VARIABLES
  fate,    \* event |-> "new", "queued" (one job), "lost", "again" (two jobs)
  told,    \* the events Wix has seen a 200 for
  late     \* the promise is over

vars == <<fate, told, late>>

Fates == {"new", "queued", "lost", "again"}

Init ==
  /\ fate = [e \in Routed |-> "new"]
  /\ told = {}
  /\ late = FALSE

Queue(e) ==
  /\ ~late /\ fate[e] = "new"
  /\ fate' = [fate EXCEPT ![e] = "queued"]
  /\ UNCHANGED <<told, late>>

(* A crash loses at once every event that was marked and not yet queued.   *)
Lose(gone) ==
  /\ ~late /\ \A e \in gone : fate[e] = "new"
  /\ fate' = [e \in Routed |-> IF e \in gone THEN "lost" ELSE fate[e]]
  /\ UNCHANGED <<told, late>>

Tell(e) ==
  /\ ~late /\ fate[e] # "new"
  /\ told' = told \cup {e}
  /\ UNCHANGED <<fate, late>>

Slip ==
  /\ late' = TRUE
  /\ fate' \in [Routed -> Fates]
  /\ told' \in SUBSET Routed

Next ==
  \/ \E e \in Routed : Queue(e) \/ Tell(e)
  \/ \E gone \in SUBSET Routed : Lose(gone)
  \/ Slip

Spec == Init /\ [][Next]_vars
=============================================================================
