------------------------------- MODULE LookupGate ------------------------------
(***************************************************************************)
(* Looking up a code: GET /api/file/:code and /:code/text (routes/file.js) *)
(* behind the lockout of failed lookups (middleware/rateLimiter.js).  The  *)
(* check and the verdict are separated by the query, so what one request   *)
(* records is applied to an entry others have changed.  The metadata route *)
(* also counts views, at most one per viewer and ViewWindow.               *)
(***************************************************************************)
EXTENDS Integers, FiniteSets

CONSTANTS
  Lookups,           \* requests of one address that may be in flight at once
  MaxFailedLookups, LookupLockout, LookupWindow,
  ViewWindow,        \* VIEW_DEDUPE_WINDOW_MS
  LastLookupTime     \* bound of the instance

ASSUME LookupAssumption ==
  /\ IsFiniteSet(Lookups)
  /\ MaxFailedLookups \in Nat \ {0, 1} /\ LookupWindow \in Nat \ {0}
  /\ LookupLockout \in Nat /\ LookupLockout >= LookupWindow
  /\ ViewWindow \in Nat \ {0} /\ LastLookupTime \in Nat \ {0}

VARIABLES
  lookClock,
  tally,       \* the address in codeLookupLockoutMap: at most one entry
  asking,      \* route of the query in flight, "none" or "viewed"
  viewedUntil, \* recentViews for one code and one viewer
  viewCount,   \* of the transfer
  misses       \* history: failures recorded up to a time since the last hit

lookVars == <<lookClock, tally, asking, viewedUntil, viewCount, misses>>

LookTimes == 1..LastLookupTime
NoMisses == [t \in 0..LastLookupTime |-> 0]

LookInit ==
  /\ lookClock = 1
  /\ tally = {}
  /\ asking = [k \in Lookups |-> "none"]
  /\ viewedUntil = 0 /\ viewCount = 0
  /\ misses = NoMisses

MutantLockedOut == FALSE
LockedOut == \E e \in tally : lookClock < e.lockedUntil
IsStale(e) == lookClock > e.firstAttempt + LookupWindow

(* rateLimitCodeLookup: a lockout answers 429; a stale entry is deleted.   *)
Ask(k, route) ==
  /\ asking[k] = "none" /\ ~LockedOut
  /\ tally' = {e \in tally : ~IsStale(e)}
  /\ asking' = [asking EXCEPT ![k] = route]
  /\ UNCHANGED <<lookClock, viewedUntil, viewCount, misses>>

Answered(k) == asking' = [asking EXCEPT ![k] = "none"]

(* What the query found and for whom.  A claimed burn answers strangers    *)
(* with 423 before its expiry is looked at.                                *)
Findings == {"nothing", "deleted", "claimed", "expired", "active"}
Parties == {"sender", "claimant", "stranger"}

IsMiss(route, found, party) ==
  \/ found = "nothing"
  \/ route = "metadata" /\ found = "deleted" /\ party = "stranger"
  \/ route = "metadata" /\ found = "expired" /\ party # "sender"

IsHit(route, found, party) ==
  /\ route = "metadata"
  /\ found = "active" \/ (found = "claimed" /\ party # "stranger")

(* recordCodeLookupFailure: a failure past the limit moves the lockout.    *)
Counted(e) ==
  LET n == e.failures + 1
  IN  [e EXCEPT !.failures = n,
                !.lockedUntil = IF n >= MaxFailedLookups
                                THEN lookClock + LookupLockout ELSE @]
NewTally ==
  LET current == {e \in tally : ~IsStale(e)}
  IN  IF current # {} THEN {Counted(e) : e \in current}
      ELSE {Counted([failures |-> 0, firstAttempt |-> lookClock, lockedUntil |-> 0])}

Miss(k) ==
  /\ asking[k] \in {"metadata", "text"}
  /\ \E found \in Findings, party \in Parties : IsMiss(asking[k], found, party)
  /\ tally' = NewTally
  /\ misses' = [t \in DOMAIN misses |->
                 IF lookClock <= t THEN misses[t] + 1 ELSE misses[t]]
  /\ Answered(k)
  /\ UNCHANGED <<lookClock, viewedUntil, viewCount>>

(* clearCodeLookupFailures, then shouldRecordView unless it is the sender. *)
SeenLately == viewedUntil > lookClock
Hit(k, party) ==
  /\ \E found \in Findings : IsHit(asking[k], found, party)
  /\ tally' = {}
  /\ misses' = NoMisses
  /\ IF party = "sender" \/ SeenLately
     THEN Answered(k) /\ UNCHANGED viewedUntil
     ELSE /\ viewedUntil' = lookClock + ViewWindow
          /\ asking' = [asking EXCEPT ![k] = "viewed"]
  /\ UNCHANGED <<lookClock, viewCount>>

(* The atomic $inc of viewCount, or a failed update.                       *)
CountView(k) ==
  /\ asking[k] = "viewed"
  /\ viewCount' \in {viewCount, viewCount + 1}
  /\ Answered(k)
  /\ UNCHANGED <<lookClock, tally, viewedUntil, misses>>

(* Neither: the text route found something, a 423, or a party's own view.  *)
Neutral(k) ==
  /\ asking[k] \in {"metadata", "text"}
  /\ Answered(k)
  /\ UNCHANGED <<lookClock, tally, viewedUntil, viewCount, misses>>

LookTick ==
  /\ lookClock < LastLookupTime
  /\ lookClock' = lookClock + 1
  /\ UNCHANGED <<tally, asking, viewedUntil, viewCount, misses>>

LookNext ==
  \/ \E k \in Lookups :
       \/ \E route \in {"metadata", "text"} : Ask(k, route)
       \/ Miss(k) \/ CountView(k) \/ Neutral(k)
       \/ \E party \in Parties : Hit(k, party)
  \/ LookTick

LookSpec == LookInit /\ [][LookNext]_lookVars

--------------------------------------------------------------------------------
(* Every variable keeps its shape.                                         *)
LookTypeOK ==
  /\ lookClock \in LookTimes
  /\ Cardinality(tally) <= 1
  /\ \A e \in tally :
       e \in [failures : Nat, firstAttempt : LookTimes, lockedUntil : Nat]
  /\ asking \in [Lookups -> {"none", "metadata", "text", "viewed"}]
  /\ viewedUntil \in Nat /\ viewCount \in Nat
  /\ misses \in [0..LastLookupTime -> Nat]

(* Between two hits an address records, in any span as long as the window, *)
(* the failures of two entries at most, for a late failure may replace a   *)
(* stale entry before its lockout ends: of each, one short of the limit    *)
(* and all but one of the requests that may be past the check.             *)
MissesAreBounded ==
  \A t, u \in DOMAIN misses :
    u <= t + LookupWindow =>
      misses[u] - misses[t] <= 2 * (MaxFailedLookups + Cardinality(Lookups) - 2)

(* However often a viewer polls the metadata, and however its requests     *)
(* overlap, its views count at most once per ViewWindow.                   *)
ViewsAreDeduplicated ==
  viewCount <= 1 + ((lookClock - 1) \div ViewWindow)

(* Both: what one address and one viewer can make the lookup record.       *)
LookupsAreBounded == MissesAreBounded /\ ViewsAreDeduplicated
================================================================================
