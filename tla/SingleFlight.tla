------------------------------ MODULE SingleFlight -----------------------------
(***************************************************************************)
(* Expensive answers that are computed once for all who ask: getStats      *)
(* (routes/stats.js), withAdminCache (services/adminAnalytics.js) for one  *)
(* key, and the health check of server.js.  The first two let callers join *)
(* the promise in flight; health answers with the last payload, even none. *)
(***************************************************************************)
CONSTANT Callers

VARIABLES
  joins,      \* TRUE for stats and admin queries, FALSE for health
  inFlight,   \* inFlight, inFlightQueries.has(key), isHealthCheckRunning
  computing,  \* callers whose computation runs
  waiting,    \* callers that await a computation
  payload     \* the cached payload: none, fresh, stale

flightVars == <<joins, inFlight, computing, waiting, payload>>

FlightInit ==
  /\ joins \in BOOLEAN
  /\ inFlight = FALSE
  /\ computing = {} /\ waiting = {}
  /\ payload = "none"

(* No await lies between the test of inFlight and its assignment.          *)
Starts == ~inFlight

(* A caller that finds a fresh payload is answered and changes nothing.    *)
CallJoins(c) ==
  /\ joins /\ payload # "fresh" /\ c \notin waiting \cup computing
  /\ waiting' = waiting \cup {c}
  /\ IF Starts THEN inFlight' = TRUE /\ computing' = computing \cup {c}
     ELSE UNCHANGED <<inFlight, computing>>
  /\ UNCHANGED <<joins, payload>>

(* Health: a stale payload is served and recomputed behind the answer;     *)
(* only the first load waits, and a second one meanwhile is answered       *)
(* { status: "error" } from a payload that is still null.                  *)
CallHealth(c) ==
  /\ ~joins /\ payload # "fresh" /\ c \notin computing
  /\ Starts
  /\ inFlight' = TRUE /\ computing' = computing \cup {c}
  /\ waiting' = IF payload = "none" THEN waiting \cup {c} ELSE waiting
  /\ UNCHANGED <<joins, payload>>

(* The finally block; the joined callers are answered with the result, a   *)
(* failure with what is cached or an empty payload.                        *)
MutantStillInFlight(ok) == ~ok
StillInFlight(ok) == FALSE
Finish(c, ok) ==
  /\ c \in computing
  /\ computing' = computing \ {c}
  /\ inFlight' = StillInFlight(ok)
  /\ waiting' = {}
  /\ payload' = IF ok THEN "fresh" ELSE payload
  /\ UNCHANGED joins

PayloadExpires ==
  /\ payload = "fresh"
  /\ payload' = "stale"
  /\ UNCHANGED <<joins, inFlight, computing, waiting>>

FlightNext ==
  \/ \E c \in Callers :
       \/ CallJoins(c) \/ CallHealth(c)
       \/ \E ok \in BOOLEAN : Finish(c, ok)
  \/ PayloadExpires

FlightSpec == FlightInit /\ [][FlightNext]_flightVars

--------------------------------------------------------------------------------
(* Every variable keeps its shape.                                         *)
FlightTypeOK ==
  /\ joins \in BOOLEAN /\ inFlight \in BOOLEAN
  /\ computing \in SUBSET Callers /\ waiting \in SUBSET Callers
  /\ payload \in {"none", "fresh", "stale"}

(* However the callers arrive, at most one computation runs; who waits has *)
(* one to wait for; and a failed one leaves no mark in flight behind that  *)
(* would keep the next caller from trying again.                           *)
OneComputation ==
  /\ \A c, d \in computing : c = d
  /\ inFlight <=> computing # {}
  /\ waiting # {} => computing # {}
================================================================================
