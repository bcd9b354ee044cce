------------------------------ MODULE MCGyms ------------------------------
(***************************************************************************)
(* What a gym itself is in: the link of its Wix site (GymLink), the secret *)
(* its webhooks are signed with (GymSecret) and the lapse of its places    *)
(* (LocationLapse).  "part" says which of the three has something to do;   *)
(* the others rest.                                                        *)
(***************************************************************************)
EXTENDS GymLink, GymSecret, LocationLapse

VARIABLE part

Open == [home |-> {<<"m1", "l1">>, <<"m2", "l1">>}, ops |-> PlaceOps \ {"patch"}, asks |-> 4, payments |-> {}, moves |-> 0,
         faults |-> 0, kinds |-> {}]

Untouched == [Open EXCEPT !.asks = 0]

(* One place, two patrons; requests that cross, payments that fail.        *)
OnePlace == [Open EXCEPT !.home = {<<"m1", "l1">>}, !.payments = PaymentKinds, !.asks = 3, !.moves = 3, !.faults = 1,
               !.kinds = {"kisi", "db", "crash", "job"}]
Failing  == [Open EXCEPT !.asks = 3, !.faults = 2, !.kinds = PlaceFaults]
Patched  == [Open EXCEPT !.ops = PlaceOps]

PlaceCases == {Untouched, OnePlace, Failing, Patched}

(* A patron of two places: one lapses for good, one comes back.            *)
TwoPlaces == {Untouched, [Open EXCEPT !.home = {<<"m1", "l1">>, <<"m1", "l2">>}]}
-----------------------------------------------------------------------------
(* Two gyms and two sites are alike until one is named: the first webhook  *)
(* is of the first gym, whose snippet is on the first site.                *)
CONSTANTS g1, s1

Resting == [g \in Gyms |-> [status |-> "new", site |-> NoSite]]

GymsInit ==
  /\ LinkInit /\ SecretInit /\ LapseInit
  /\ part \in {"link", "secret", "places"}
  /\ home[g1] = s1
  /\ part # "link" => gyms = Resting /\ \A g \in Gyms : home[g] = s1
  /\ (part = "places") <=> (placeLeft # Untouched)

(* Bound: a lookup fails where no edit is on its way, or an edit comes     *)
(* where no lookup fails.                                                  *)
OneTrouble == edits' + blips' <= 1

FirstIsFirst ==
  events' = 1 => \A w \in Handlers : hooks'[w].hint \in {g1, NoGym} /\ hooks'[w].site \in {s1, NoSite}

GymsNext ==
  /\ UNCHANGED part
  /\ \/ part = "link"   /\ LinkNext /\ OneTrouble /\ FirstIsFirst /\ UNCHANGED <<gymSecretVars, placeVars>>
     \/ part = "secret" /\ SecretNext /\ UNCHANGED <<linkVars, placeVars>>
     \/ part = "places" /\ LapseNext  /\ UNCHANGED <<linkVars, gymSecretVars>>

GymsSpec == GymsInit /\ [][GymsNext]_<<linkVars, gymSecretVars, placeVars, part>>
=============================================================================
