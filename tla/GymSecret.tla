----------------------------- MODULE GymSecret -----------------------------
(***************************************************************************)
(* The webhook secret of one gym, and the alarm on wrong signatures.       *)
(*                                                                         *)
(* The secret is minted by whichever of the set-up page, the wizard and    *)
(* the owner's form first finds none (core/webhook-secret.js), or replaced *)
(* by the owner (rotate, set).  The operator pastes a secret that was      *)
(* shown into Wix, where the snippet signs with it.  A webhook whose       *)
(* signature does not match is answered 401 and counted in Redis by        *)
(* core/hmac-monitor.js, which mails the owner when a window holds enough  *)
(* failures and no mail was started within the cool-down.                  *)
(*                                                                         *)
(* Time is counted in ticks: Window and Cooldown are 300 and 600 seconds.  *)
(***************************************************************************)
EXTENDS Integers, FiniteSets, FiniteSetsExt

CONSTANTS
  Pages, Watchers,     \* page loads, and runs of the monitor, at once
  Window, Cooldown, Threshold,
  MaxSecrets, MaxHooks, MaxMishaps  \* bounds: secrets minted, webhooks, failures

ASSUME SecretAssumption ==
  /\ Window \in Nat \ {0} /\ Cooldown \in Nat \ {0} /\ Threshold \in Nat \ {0}
  /\ MaxSecrets \in Nat /\ MaxHooks \in Nat /\ MaxMishaps \in Nat

Secrets == 1 .. MaxSecrets
None == 0
MaybeSecret == Secrets \cup {None}
Long == Cooldown + Window

VARIABLES
  stored,    \* clients.wix_webhook_secret
  minted,    \* secrets generated so far
  inWix,     \* the secret the snippet signs with
  pages,     \* loads of the set-up page
  shown,     \* history: secrets an operator was shown
  replaced,  \* history: secrets overwritten by rotate or set
  fails,     \* Redis: the failures of each age still in the window
  cool,      \* Redis: life left of the cool-down key
  watchers,  \* runs of recordFailure
  armed,     \* history: ticks since a mail was started
  received, mishaps, silent

secretVars == <<stored, minted, inWix, pages, shown, replaced>>
alarmVars == <<fails, cool, watchers, armed, silent>>
gymSecretVars == <<secretVars, alarmVars, received, mishaps>>

SecretTypeOK ==
  /\ stored \in MaybeSecret /\ minted \in 0 .. MaxSecrets /\ inWix \in MaybeSecret
  /\ pages \in [Pages -> {"closed", "mint", "reread"}]
  /\ shown \subseteq Secrets /\ replaced \subseteq Secrets
  /\ fails \in [0 .. Window - 1 -> 0 .. MaxHooks] /\ cool \in 0 .. Cooldown
  /\ watchers \in [Watchers -> {"idle", "push", "look", "arm", "mail"}]
  /\ armed \in 0 .. Long /\ silent \in BOOLEAN
  /\ received \in 0 .. MaxHooks /\ mishaps \in 0 .. MaxMishaps

----------------------------------------------------------------------------
(* The secret. *)

Shows(s) == shown' = shown \cup ({s} \ {None})

\* The page shows the secret it reads; finding none, it goes on to mint one.
OpenPage(p) ==
  /\ pages[p] = "closed"
  /\ IF stored = None
     THEN pages' = [pages EXCEPT ![p] = "mint"] /\ UNCHANGED shown
     ELSE Shows(stored) /\ UNCHANGED pages
  /\ UNCHANGED <<stored, minted, inWix, replaced, alarmVars, received, mishaps>>

\* The update takes effect only where there is still no secret.
MayMintAlways == TRUE

MayMint == stored = None

\* The minter shows its secret; one who came too late reads again.
Mint(p) ==
  /\ pages[p] = "mint" /\ minted < MaxSecrets
  /\ minted' = minted + 1
  /\ IF MayMint
     THEN /\ stored' = minted + 1 /\ Shows(minted + 1)
          /\ pages' = [pages EXCEPT ![p] = "closed"]
     ELSE /\ pages' = [pages EXCEPT ![p] = "reread"]
          /\ UNCHANGED <<stored, shown>>
  /\ UNCHANGED <<inWix, replaced, alarmVars, received, mishaps>>

Reread(p) ==
  /\ pages[p] = "reread"
  /\ Shows(stored)
  /\ pages' = [pages EXCEPT ![p] = "closed"]
  /\ UNCHANGED <<stored, minted, inWix, replaced, alarmVars, received, mishaps>>

\* Creating a gym and saving the profile mint too, and show nothing.
MintQuietly ==
  /\ minted < MaxSecrets /\ minted' = minted + 1
  /\ stored' = IF MayMint THEN minted + 1 ELSE stored
  /\ UNCHANGED <<inWix, pages, shown, replaced, alarmVars, received, mishaps>>

\* Rotate shows the new secret, and a custom one comes from the operator: both
\* know it, and both replace what was there.
Replace ==
  /\ minted < MaxSecrets /\ minted' = minted + 1
  /\ stored' = minted + 1 /\ Shows(minted + 1)
  /\ replaced' = replaced \cup ({stored} \ {None})
  /\ UNCHANGED <<inWix, pages, alarmVars, received, mishaps>>

\* The operator pastes a secret he was shown.
Paste(s) ==
  /\ s \in shown /\ inWix' = s
  /\ UNCHANGED <<stored, minted, pages, shown, replaced, alarmVars, received, mishaps>>

----------------------------------------------------------------------------
(* The signature and the alarm. *)

\* A named gym's own secret is the only one that counts; without one, or when
\* its lookup fails, the platform's secret is tried, which no snippet has.
Matches(reads) == stored # None /\ reads /\ inWix = stored

\* The lookup of the secret may fail, which is logged and no more.
Webhook(reads) ==
  /\ received < MaxHooks /\ inWix # None
  /\ received' = received + 1
  /\ reads \/ mishaps < MaxMishaps
  /\ mishaps' = IF reads THEN mishaps ELSE mishaps + 1
  /\ IF Matches(reads)
     THEN UNCHANGED watchers
     ELSE \E w \in Watchers :
            /\ watchers[w] = "idle"
            /\ watchers' = [watchers EXCEPT ![w] = "push"]
  /\ UNCHANGED <<secretVars, fails, cool, armed, silent>>

Push(w) ==
  /\ watchers[w] = "push"
  /\ fails' = [fails EXCEPT ![0] = @ + 1]
  /\ watchers' = [watchers EXCEPT ![w] = "look"]
  /\ UNCHANGED <<secretVars, cool, armed, silent, received, mishaps>>

\* The failures not yet a window old: the first, the second ... of each age.
Recent == Cardinality({f \in (0 .. Window - 1) \X (1 .. MaxHooks) : f[2] <= fails[f[1]]})

Spike == Recent >= Threshold

\* The run that finds a spike goes on only when no cool-down key is there; it
\* reads the key first and sets it later.
Quiet == cool = 0

Look(w) ==
  /\ watchers[w] = "look"
  /\ watchers' = [watchers EXCEPT ![w] = IF Spike /\ Quiet THEN "arm" ELSE "idle"]
  /\ UNCHANGED <<secretVars, fails, cool, armed, silent, received, mishaps>>

\* The key is set before the mail goes out.
Arm(w) ==
  /\ watchers[w] = "arm"
  /\ cool' = Cooldown /\ armed' = 0
  /\ watchers' = [watchers EXCEPT ![w] = "mail"]
  /\ UNCHANGED <<secretVars, fails, silent, received, mishaps>>

\* Sent or not, nothing is tried again.
Mail(w) ==
  /\ watchers[w] = "mail"
  /\ watchers' = [watchers EXCEPT ![w] = "idle"]
  /\ UNCHANGED <<secretVars, fails, cool, armed, silent, received, mishaps>>

\* A Redis call that fails ends the run; the request was answered long before.
GiveUp(w) ==
  /\ watchers[w] \in {"push", "look", "arm"}
  /\ mishaps < MaxMishaps /\ mishaps' = mishaps + 1
  /\ watchers' = [watchers EXCEPT ![w] = "idle"]
  /\ silent' = TRUE
  /\ UNCHANGED <<secretVars, fails, cool, armed, received>>

\* A run takes milliseconds: no tick passes inside one.
SecretTick ==
  /\ \A w \in Watchers : watchers[w] = "idle"
  /\ fails' = [a \in DOMAIN fails |-> IF a = 0 THEN 0 ELSE fails[a - 1]]
  /\ cool' = Max({cool - 1, 0}) /\ armed' = Min({armed + 1, Long})
  /\ UNCHANGED <<secretVars, watchers, silent, received, mishaps>>

----------------------------------------------------------------------------
SecretInit ==
  /\ stored = None /\ minted = 0 /\ inWix = None
  /\ pages = [p \in Pages |-> "closed"] /\ shown = {} /\ replaced = {}
  /\ fails = [a \in 0 .. Window - 1 |-> 0] /\ cool = 0
  /\ watchers = [w \in Watchers |-> "idle"] /\ armed = Long /\ silent = FALSE
  /\ received = 0 /\ mishaps = 0

SecretNext ==
  \/ \E p \in Pages : OpenPage(p) \/ Mint(p) \/ Reread(p)
  \/ MintQuietly \/ Replace
  \/ \E s \in Secrets : Paste(s)
  \/ \E reads \in BOOLEAN : Webhook(reads)
  \/ \E w \in Watchers : Push(w) \/ Look(w) \/ Arm(w) \/ Mail(w) \/ GiveUp(w)
  \/ SecretTick

SecretSpec == SecretInit /\ [][SecretNext]_gymSecretVars

----------------------------------------------------------------------------
(* Properties. *)

\* A secret an operator was shown stays the gym's secret until someone
\* replaces it on purpose: of the pages, the wizard and the form that find
\* none at the same moment one mints, and all show that one.
ShownIsKept == shown \subseteq {stored} \cup replaced

\* While every Redis call succeeds, a window that holds enough failures has
\* had a mail started within the cool-down and the window before it.
SpikeIsTold ==
  (Recent >= Threshold /\ ~silent /\ \A w \in Watchers : watchers[w] = "idle") => armed < Long

\* Together: what was shown works, and a run of wrong signatures is told.
SecretsHold == SecretTypeOK /\ ShownIsKept /\ SpikeIsTold

\* One alert per cool-down (violated: two runs both read the key before
\* either sets it).
OneAlertPerWindow ==
  [][\A w \in Watchers : (watchers[w] = "arm" /\ watchers'[w] = "mail") =>
       armed >= Window]_gymSecretVars
============================================================================
