---------------------------- MODULE KisiRequests ----------------------------
(***************************************************************************)
(* How AccessSync's requests reach Kisi (adapters/kisi/kisi-connector.js):  *)
(* one limiter for the whole process, of Limit requests in a window, which  *)
(* callers pass or sleep on; a 429 that is tried again after a pause, back  *)
(* through the limiter; a request Kisi does not answer in 15 seconds.  The  *)
(* time is counted in ticks; a stamp and a pause are what has passed or is  *)
(* left of them.                                                           *)
(***************************************************************************)
EXTENDS Integers, Sequences

CONSTANTS
  Callers,
  Limit,          \* rateLimit
  Window,         \* timeWindowMs, in ticks
  Tries,          \* attempts at a request Kisi answers 429
  Overloads       \* bound: answers of 429 in all

ASSUME KisiRequestsAssumption == {Limit, Window, Tries} \subseteq Nat \ {0} /\ Overloads \in Nat

VARIABLES
  stamps,      \* ages of lastRequestTimes, oldest first
  request,     \* caller |-> [at, try, wait, end]
  onTheWire,   \* ages of the requests Kisi got, of the last window
  overloads

requestVars == <<stamps, request, onTheWire, overloads>>
-----------------------------------------------------------------------------
RequestsInit ==
  /\ stamps = << >> /\ onTheWire = << >> /\ overloads = 0
  /\ request = [c \in Callers |-> [at |-> "new", try |-> 1, wait |-> 0, end |-> "none"]]

To(c, at, wait) == request' = [request EXCEPT ![c].at = at, ![c].wait = wait]
EndsWith(c, how) == request' = [request EXCEPT ![c].at = "ended", ![c].end = how]

Recent(ages) == SelectSeq(ages, LAMBDA t : t < Window)

Sends(c) ==
  /\ stamps' = Append(Recent(stamps), 0)
  /\ onTheWire' = Append(onTheWire, 0)
  /\ To(c, "out", 0)
  /\ UNCHANGED overloads

\* enforceRateLimit: the check and the stamp are one turn of the event loop.
Asks(c) ==
  /\ request[c].at \in {"new", "limit"}
  /\ IF Len(Recent(stamps)) < Limit THEN Sends(c)
     ELSE /\ stamps' = Recent(stamps)
          /\ To(c, "asleep", Window - stamps'[1])
          /\ UNCHANGED <<onTheWire, overloads>>

\* Mutation: whoever slept too long is forgotten.
WakesInTime(c) == request[c].at = "asleep" /\ request[c].wait = 1 /\ To(c, "limit", 0) /\ UNCHANGED <<stamps, onTheWire, overloads>>

\* Whoever slept looks again: others may have come first.
Wakes(c) ==
  /\ request[c].at = "asleep" /\ request[c].wait = 0
  /\ To(c, "limit", 0)
  /\ UNCHANGED <<stamps, onTheWire, overloads>>

\* An answer, an error by its status, or none within REQUEST_TIMEOUT_MS.
Answered(c) ==
  /\ request[c].at = "out"
  /\ \E how \in {"ok", "refused", "silent"} : EndsWith(c, how)
  /\ UNCHANGED <<stamps, onTheWire, overloads>>

LastTry(c) == request[c].try >= Tries

TooMany(c) ==
  /\ request[c].at = "out" /\ overloads < Overloads
  /\ overloads' = overloads + 1
  /\ IF LastTry(c) THEN EndsWith(c, "exhausted") ELSE To(c, "pause", request[c].try * Window)
  /\ UNCHANGED <<stamps, onTheWire>>

TriesAgain(c) ==
  /\ request[c].at = "pause" /\ request[c].wait = 0
  /\ request' = [request EXCEPT ![c].at = "limit", ![c].try = @ + 1]
  /\ UNCHANGED <<stamps, onTheWire, overloads>>

Older(ages) == [i \in 1..Len(ages) |-> IF ages[i] < Window THEN ages[i] + 1 ELSE ages[i]]

RequestTick ==
  /\ stamps' = Older(stamps)
  /\ onTheWire' = Recent(Older(onTheWire))
  /\ request' = [c \in Callers |-> [request[c] EXCEPT !.wait = IF @ > 0 THEN @ - 1 ELSE 0]]
  /\ UNCHANGED overloads

RequestStep(c) == Asks(c) \/ Wakes(c) \/ Answered(c) \/ TooMany(c) \/ TriesAgain(c)
RequestsNext == RequestTick \/ \E c \in Callers : RequestStep(c)

RequestsFairness == WF_requestVars(RequestTick) /\ \A c \in Callers : WF_requestVars(RequestStep(c))
RequestsSpec == RequestsInit /\ [][RequestsNext]_requestVars /\ RequestsFairness
-----------------------------------------------------------------------------
RequestTypeOK ==
  /\ stamps \in Seq(0..Window) /\ onTheWire \in Seq(0..Window) /\ overloads \in 0..Overloads
  /\ request \in [Callers -> [at : {"new", "limit", "asleep", "out", "pause", "ended"}, try : 1..Tries,
                              wait : 0..Window * Tries, end : {"none", "ok", "refused", "silent", "exhausted"}]]

(* Kisi gets at most Limit requests in a window, retries counted, however   *)
(* many callers sleep on one slot (kisi-connector.js, enforceRateLimit).   *)
WindowKept == RequestTypeOK /\ Len(Recent(onTheWire)) <= Limit

(* No request waits for ever on the limiter or on Kisi, though the window  *)
(* is kept.                                                                *)
AllEnded == \A c \in Callers : request[c].at = "ended"

RequestsEnd == []WindowKept /\ []<>AllEnded
=============================================================================
