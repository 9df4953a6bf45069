------------------------------- MODULE VisitBuffer -----------------------------
(***************************************************************************)
(* Page views (routes/analytics.js): beacons of a session and a route are  *)
(* deduplicated for 30 seconds, stored without awaiting the insert, and    *)
(* announced to the admin namespace in batches, one timer at a time.       *)
(***************************************************************************)
EXTENDS Naturals

CONSTANTS
  Visits,      \* beacons with a known route
  KeyOf,       \* session and route of a visit
  NoKey        \* of a visit that names no session

VARIABLES
  beacon,     \* per visit: expected, dropped (a duplicate), kept
  recentKeys, \* pvDedupMap, the entries younger than PV_DEDUP_WINDOW_MS
  pageViews,  \* visits whose insert is on its way or done
  pending,    \* pendingVisits
  timer,      \* visitEmitTimer: none, armed, left behind
  announced   \* visits in a visits-batch

visitVars == <<beacon, recentKeys, pageViews, pending, timer, announced>>

VisitInit ==
  /\ beacon = [v \in Visits |-> "expected"]
  /\ recentKeys = {} /\ pageViews = {} /\ pending = {} /\ announced = {}
  /\ timer = "none"

(* A duplicate is dropped, which needs a session; bots are stored but not  *)
(* announced.                                                              *)
DropDuplicate(v) ==
  /\ beacon[v] = "expected" /\ KeyOf[v] \in recentKeys
  /\ beacon' = [beacon EXCEPT ![v] = "dropped"]
  /\ UNCHANGED <<recentKeys, pageViews, pending, timer, announced>>

RecordVisit(v, isBot) ==
  /\ beacon[v] = "expected" /\ KeyOf[v] \notin recentKeys
  /\ beacon' = [beacon EXCEPT ![v] = "kept"]
  /\ recentKeys' = recentKeys \cup ({KeyOf[v]} \ {NoKey})
  /\ pageViews' = pageViews \cup {v}
  /\ pending' = IF isBot THEN pending ELSE pending \cup {v}
  /\ timer' = IF timer = "none" /\ ~isBot THEN "armed" ELSE timer
  /\ UNCHANGED announced

InsertFails(v) ==
  /\ v \in pageViews
  /\ pageViews' = pageViews \ {v}
  /\ UNCHANGED <<beacon, recentKeys, pending, timer, announced>>

KeyExpires(k) ==
  /\ k \in recentKeys
  /\ recentKeys' = recentKeys \ {k}
  /\ UNCHANGED <<beacon, pageViews, pending, timer, announced>>

MutantTimerAfterBatch == "left behind"
TimerAfterBatch == "none"
EmitBatch ==
  /\ timer = "armed"
  /\ announced' = announced \cup pending
  /\ pending' = {}
  /\ timer' = TimerAfterBatch
  /\ UNCHANGED <<beacon, recentKeys, pageViews>>

VisitNext ==
  \/ \E v \in Visits :
       \/ DropDuplicate(v) \/ InsertFails(v)
       \/ \E isBot \in BOOLEAN : RecordVisit(v, isBot)
  \/ \E k \in recentKeys : KeyExpires(k)
  \/ EmitBatch

(* The timer of one second fires while the process lives.                  *)
VisitSpec == VisitInit /\ [][VisitNext]_visitVars /\ WF_visitVars(EmitBatch)

--------------------------------------------------------------------------------
(* Every variable keeps its shape.                                         *)
VisitTypeOK ==
  /\ beacon \in [Visits -> {"expected", "dropped", "kept"}]
  /\ recentKeys \in SUBSET {KeyOf[v] : v \in Visits}
  /\ pageViews \in SUBSET Visits
  /\ pending \in SUBSET Visits /\ announced \in SUBSET Visits
  /\ timer \in {"none", "armed", "left behind"}

(* A visit that has been queued is announced: the first of a batch arms    *)
(* the timer, and a batch leaves it ready for the next one.                *)
VisitsAreAnnounced == \A v \in Visits : v \in pending ~> v \in announced
================================================================================
