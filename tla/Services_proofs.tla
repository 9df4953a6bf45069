---------------------------- MODULE Services_proofs ----------------------------
(***************************************************************************)
(* The services around the transfers, for any values of their constants:   *)
(* the caches, the process and its cleanup job, the sender's presence and  *)
(* the announcement of visits, each on its own and then all of them in     *)
(* the composition MCServices checks.                                      *)
(***************************************************************************)
EXTENDS MCServices, CodeRegistry_proofs, FiniteSetTheorems, TLAPS

(* The safety part of the specifications that also state fairness.         *)
PresenceSafety == PresenceInit /\ [][PresenceNext]_presenceVars
VisitSafety == VisitInit /\ [][VisitNext]_visitVars

--------------------------------------------------------------------------------
(* The caches: how long the status cache may show an old status, and how   *)
(* many computations of one answer run.                                    *)

(* What a reader holds was read at most Latency ago, and the old status    *)
(* not after the change; what the cache holds goes back to such a read.    *)
FetchInv(f) ==
  /\ f.readAt <= cacheClock /\ cacheClock <= f.readAt + Latency
  /\ f.payload = "before" /\ status = "after" => f.readAt <= changedAt

EntryInv(e) ==
  /\ e.expiresAt <= cacheClock + TTL
  /\ e.payload = "before" /\ status = "after"
       => e.expiresAt <= changedAt + Latency + TTL

CacheInv ==
  /\ changedAt <= cacheClock
  /\ \A r \in Readers : \A f \in fetched[r] : FetchInv(f)
  /\ \A e \in cache : EntryInv(e)

Entries == [payload : {"before", "after"}, expiresAt : Nat]
Reads == [payload : {"before", "after"}, readAt : Nat]

LEMMA CacheTypeInit == CacheInit => CacheTypeOK
  BY CacheAssumption DEF CacheAssumption, CacheInit, CacheTypeOK

LEMMA CacheTypeFetch ==
  ASSUME CacheTypeOK, NEW r \in Readers, Fetch(r)
  PROVE  CacheTypeOK'
<1> DEFINE f == [payload |-> status, readAt |-> cacheClock]
<1>1. f \in Reads
  BY DEF CacheTypeOK, Reads
<1>2. fetched' \in [Readers -> SUBSET Reads]
  BY <1>1 DEF Fetch, CacheTypeOK, Reads
<1> QED
  BY <1>2 DEF Fetch, CacheTypeOK, Reads

LEMMA CacheTypeFill ==
  ASSUME CacheTypeOK, NEW r \in Readers, Fill(r)
  PROVE  CacheTypeOK'
<1>1. PICK f \in fetched[r] :
        cache' = {[payload |-> f.payload, expiresAt |-> cacheClock + TTL]}
  BY DEF Fill
<1>2. f \in Reads
  BY DEF CacheTypeOK, Reads
<1>3. f.payload \in {"before", "after"} /\ cacheClock + TTL \in Nat
  BY <1>2, CacheAssumption DEF Reads, CacheTypeOK, CacheAssumption
<1>4. [payload |-> f.payload, expiresAt |-> cacheClock + TTL] \in Entries
  BY <1>3 DEF Entries
<1>5. \A e \in cache' : e \in Entries
  BY <1>1, <1>4
<1>6. fetched' \in [Readers -> SUBSET Reads]
  BY DEF Fill, CacheTypeOK, Reads
<1> QED
  BY <1>5, <1>6 DEF Fill, CacheTypeOK, Reads, Entries

LEMMA CacheTypeStep == CacheTypeOK /\ [CacheNext]_cacheVars => CacheTypeOK'
<1> SUFFICES ASSUME CacheTypeOK, [CacheNext]_cacheVars
             PROVE  CacheTypeOK'
  OBVIOUS
<1>1. ASSUME NEW r \in Readers, Fetch(r) PROVE CacheTypeOK'
  BY <1>1, CacheTypeFetch
<1>2. ASSUME NEW r \in Readers, Fill(r) PROVE CacheTypeOK'
  BY <1>2, CacheTypeFill
<1>3. ASSUME NEW r \in Readers, FetchFails(r) PROVE CacheTypeOK'
  BY <1>3 DEF FetchFails, CacheTypeOK
<1>4. CASE ChangeTransfer
  BY <1>4 DEF ChangeTransfer, CacheTypeOK
<1>5. CASE InvalidateTransferCache
  BY <1>5 DEF InvalidateTransferCache, CacheTypeOK
<1>6. CASE DropExpired
  BY <1>6 DEF DropExpired, CacheTypeOK
<1>7. CASE CacheTick
  BY <1>7 DEF CacheTick, CacheTypeOK
<1>8. CASE UNCHANGED cacheVars
  BY <1>8 DEF cacheVars, CacheTypeOK
<1> QED
  BY <1>1, <1>2, <1>3, <1>4, <1>5, <1>6, <1>7, <1>8 DEF CacheNext

(* Every variable of the cache keeps its shape, however many readers fetch *)
(* and fill (routes/transfer.js, getCachedPayload and setCachedPayload).   *)
THEOREM CacheTypeCorrect == CacheSpec => []CacheTypeOK
<1>1. CacheInit => CacheTypeOK
  BY CacheTypeInit
<1>2. CacheTypeOK /\ [CacheNext]_cacheVars => CacheTypeOK'
  BY CacheTypeStep
<1> QED
  BY <1>1, <1>2, PTL DEF CacheSpec

--------------------------------------------------------------------------------
(* A fetch reads the present status; what the cache held is dropped.       *)
LEMMA CacheInvFetch ==
  ASSUME CacheTypeOK, CacheInv, NEW r \in Readers, Fetch(r)
  PROVE  CacheInv'
<1> USE CacheAssumption DEF CacheAssumption
<1> DEFINE new == [payload |-> status, readAt |-> cacheClock]
<1>1. FetchInv(new)'
  BY DEF FetchInv, Fetch, CacheTypeOK
<1>2. ASSUME NEW x \in Readers, NEW f \in fetched'[x]
      PROVE  FetchInv(f)'
  <2>1. CASE x = r
    BY <1>1, <2>1 DEF Fetch, CacheTypeOK
  <2>2. CASE x # r
    <3>1. f \in fetched[x]
      BY <2>2 DEF Fetch, CacheTypeOK
    <3> QED
      BY <3>1 DEF Fetch, CacheInv, FetchInv
  <2> QED
    BY <2>1, <2>2
<1> QED
  BY <1>2 DEF CacheInv, Fetch

(* A fill late by less than Latency sets an end less than Latency and TTL  *)
(* after the read.                                                         *)
LEMMA CacheInvFill ==
  ASSUME CacheTypeOK, CacheInv, NEW r \in Readers, Fill(r)
  PROVE  CacheInv'
<1> USE CacheAssumption DEF CacheAssumption
<1>1. PICK f \in fetched[r] :
        cache' = {[payload |-> f.payload, expiresAt |-> cacheClock + TTL]}
  BY DEF Fill
<1>2. /\ f.readAt \in Nat /\ cacheClock \in Nat /\ changedAt \in Nat
      /\ FetchInv(f)
  BY DEF CacheTypeOK, CacheInv
<1>3. UNCHANGED <<cacheClock, status, changedAt>>
  BY DEF Fill
<1>4. ASSUME NEW e \in cache' PROVE EntryInv(e)'
  <2>1. e.payload = f.payload /\ e.expiresAt = cacheClock + TTL
    BY <1>1
  <2> QED
    BY <1>2, <1>3, <2>1 DEF EntryInv, FetchInv
<1>5. \A x \in Readers : fetched'[x] \subseteq fetched[x]
  BY DEF Fill, CacheTypeOK
<1> QED
  BY <1>3, <1>4, <1>5 DEF CacheInv, FetchInv

LEMMA CacheInvStep ==
  CacheTypeOK /\ CacheInv /\ [CacheNext]_cacheVars => CacheInv'
<1> SUFFICES ASSUME CacheTypeOK, CacheInv, [CacheNext]_cacheVars
             PROVE  CacheInv'
  OBVIOUS
<1> USE CacheAssumption DEF CacheAssumption
<1>1. ASSUME NEW r \in Readers, Fetch(r) PROVE CacheInv'
  BY <1>1, CacheInvFetch
<1>2. ASSUME NEW r \in Readers, Fill(r) PROVE CacheInv'
  BY <1>2, CacheInvFill
<1>3. ASSUME NEW r \in Readers, FetchFails(r) PROVE CacheInv'
  <2>1. \A x \in Readers : fetched'[x] \subseteq fetched[x]
    BY <1>3 DEF FetchFails, CacheTypeOK
  <2> QED
    BY <1>3, <2>1 DEF FetchFails, CacheInv, FetchInv, EntryInv
<1>4. CASE ChangeTransfer
  <2>1. /\ status' = "after" /\ changedAt' = cacheClock
        /\ UNCHANGED <<cacheClock, cache, fetched>>
    BY <1>4 DEF ChangeTransfer
  <2>2. ASSUME NEW r \in Readers, NEW f \in fetched[r] PROVE FetchInv(f)'
    BY <2>1 DEF CacheInv, FetchInv
  <2>3. ASSUME NEW e \in cache PROVE EntryInv(e)'
    <3>1. e.expiresAt \in Nat /\ cacheClock \in Nat
      BY DEF CacheTypeOK
    <3>2. e.expiresAt <= cacheClock + TTL
      BY DEF CacheInv, EntryInv
    <3> QED
      BY <2>1, <3>1, <3>2 DEF EntryInv
  <2>4. changedAt' <= cacheClock'
    BY <2>1 DEF CacheTypeOK
  <2> QED
    BY <2>1, <2>2, <2>3, <2>4 DEF CacheInv
<1>5. CASE InvalidateTransferCache
  BY <1>5 DEF InvalidateTransferCache, CacheInv, FetchInv
<1>6. CASE DropExpired
  BY <1>6 DEF DropExpired, CacheInv, FetchInv, EntryInv
<1>7. CASE CacheTick
  <2>1. /\ cacheClock' = cacheClock + 1
        /\ UNCHANGED <<status, changedAt, cache, fetched>>
    BY <1>7 DEF CacheTick
  <2>2. ASSUME NEW r \in Readers, NEW f \in fetched[r] PROVE FetchInv(f)'
    <3>1. f.readAt \in Nat /\ cacheClock \in Nat
      BY DEF CacheTypeOK
    <3>2. cacheClock < f.readAt + Latency
      BY <1>7 DEF CacheTick
    <3>3. FetchInv(f)
      BY DEF CacheInv
    <3> QED
      BY <2>1, <3>1, <3>2, <3>3 DEF FetchInv
  <2>3. ASSUME NEW e \in cache PROVE EntryInv(e)'
    <3>1. e.expiresAt \in Nat /\ cacheClock \in Nat
      BY DEF CacheTypeOK
    <3>2. EntryInv(e)
      BY DEF CacheInv
    <3> QED
      BY <2>1, <3>1, <3>2 DEF EntryInv
  <2>4. changedAt' <= cacheClock'
    BY <2>1 DEF CacheTypeOK, CacheInv
  <2> QED
    BY <2>1, <2>2, <2>3, <2>4 DEF CacheInv
<1>8. CASE UNCHANGED cacheVars
  BY <1>8 DEF cacheVars, CacheInv, FetchInv, EntryInv
<1> QED
  BY <1>1, <1>2, <1>3, <1>4, <1>5, <1>6, <1>7, <1>8 DEF CacheNext

LEMMA CacheInvFades == CacheTypeOK /\ CacheInv => OldStatusFades
<1> SUFFICES ASSUME CacheTypeOK, CacheInv, status = "after",
                    cacheClock >= changedAt + Latency + TTL,
                    NEW e \in cache, e.payload = "before", IsFresh(e)
             PROVE  FALSE
  BY DEF OldStatusFades, Served
<1>1. e.expiresAt <= changedAt + Latency + TTL
  BY DEF CacheInv, EntryInv
<1>2. /\ e.expiresAt \in Nat /\ cacheClock \in Nat /\ changedAt \in Nat
      /\ Latency \in Nat /\ TTL \in Nat
  BY CacheAssumption DEF CacheTypeOK, CacheAssumption
<1> QED
  BY <1>1, <1>2 DEF IsFresh

(* A cancelled transfer is not shown with its old status for longer than   *)
(* the slowest query and one TTL after the change, whoever fetches, fills  *)
(* and invalidates in whatever order (routes/transfer.js).                 *)
THEOREM OldStatusGoes == CacheSpec => []OldStatusFades
<1>1. CacheInit => CacheInv
  BY CacheAssumption DEF CacheInit, CacheInv, CacheAssumption
<1>2. CacheTypeOK /\ CacheInv /\ [CacheNext]_cacheVars => CacheInv'
  BY CacheInvStep
<1>3. CacheTypeOK /\ CacheInv => OldStatusFades
  BY CacheInvFades
<1> QED
  BY <1>1, <1>2, <1>3, CacheTypeCorrect, PTL DEF CacheSpec

--------------------------------------------------------------------------------
LEMMA FlightInvInit == FlightInit => FlightTypeOK /\ OneComputation
  BY DEF FlightInit, FlightTypeOK, OneComputation

LEMMA FlightTypeStep ==
  FlightTypeOK /\ [FlightNext]_flightVars => FlightTypeOK'
<1> SUFFICES ASSUME FlightTypeOK, [FlightNext]_flightVars PROVE FlightTypeOK'
  OBVIOUS
<1> USE DEF FlightTypeOK
<1>1. ASSUME NEW c \in Callers, CallJoins(c) PROVE FlightTypeOK'
  BY <1>1 DEF CallJoins
<1>2. ASSUME NEW c \in Callers, CallHealth(c) PROVE FlightTypeOK'
  BY <1>2 DEF CallHealth
<1>3. ASSUME NEW c \in Callers, NEW ok \in BOOLEAN, Finish(c, ok) PROVE FlightTypeOK'
  BY <1>3 DEF Finish, StillInFlight
<1>4. CASE PayloadExpires
  BY <1>4 DEF PayloadExpires
<1>5. CASE UNCHANGED flightVars
  BY <1>5 DEF flightVars
<1> QED
  BY <1>1, <1>2, <1>3, <1>4, <1>5 DEF FlightNext

LEMMA FlightStep ==
  FlightTypeOK /\ OneComputation /\ [FlightNext]_flightVars => OneComputation'
<1> SUFFICES ASSUME FlightTypeOK, OneComputation, [FlightNext]_flightVars
             PROVE  OneComputation'
  OBVIOUS
<1> USE DEF FlightTypeOK, OneComputation
<1>1. ASSUME NEW c \in Callers, CallJoins(c) PROVE OneComputation'
  <2>1. CASE inFlight
    BY <1>1, <2>1 DEF CallJoins, Starts
  <2>2. CASE ~inFlight
    BY <1>1, <2>2 DEF CallJoins, Starts
  <2> QED
    BY <2>1, <2>2
<1>2. ASSUME NEW c \in Callers, CallHealth(c) PROVE OneComputation'
  BY <1>2 DEF CallHealth, Starts
<1>3. ASSUME NEW c \in Callers, NEW ok \in BOOLEAN, Finish(c, ok)
      PROVE  OneComputation'
  BY <1>3 DEF Finish, StillInFlight
<1>4. CASE PayloadExpires
  BY <1>4 DEF PayloadExpires
<1>5. CASE UNCHANGED flightVars
  BY <1>5 DEF flightVars
<1> QED
  BY <1>1, <1>2, <1>3, <1>4, <1>5 DEF FlightNext

LEMMA FlightTypeCorrect == FlightSpec => []FlightTypeOK
  BY FlightInvInit, FlightTypeStep, PTL DEF FlightSpec

(* One computation at a time, somebody to wait for, and no mark left by a  *)
(* failed one (routes/stats.js, services/adminAnalytics.js, server.js).    *)
THEOREM ComputedOnce == FlightSpec => []OneComputation
  BY FlightInvInit, FlightTypeStep, FlightStep, PTL DEF FlightSpec

--------------------------------------------------------------------------------
(* The process: its start and shutdown, for any number of requests, and    *)
(* the passes of its cleanup job, for any batch and any set of runners.    *)

(* MongoDB is first connected by the listening callback, and the countdowns*)
(* are restored by the first success alone.                                *)
StartInv ==
  /\ listener \in {"binding", "retrying"} => mongo = "off"
  /\ mongo \in {"off", "connecting", "waiting"} => restores = 0

(* The order of gracefulShutdown: no request is accepted from its start    *)
(* on, none is left when MongoDB is reached, and only then it is closed.   *)
StopInv ==
  /\ shutdown # "no" => listener \notin {"binding", "listening"}
  /\ shutdown = "mongo" => serving = 0
  /\ mongo = "closed" \/ exited = "clean" => shutdown = "mongo"

LifeInv == LifeTypeOK /\ StartInv /\ StopInv

LEMMA LifeInvInit == LifeInit => LifeInv
  BY LifecycleAssumption
     DEF LifecycleAssumption, LifeInit, LifeInv, LifeTypeOK, StartInv, StopInv

LEMMA StartStep ==
  ASSUME LifeInv,
         Listening \/ ListenFails \/ RetryListen \/ TryConnect
           \/ RetryConnect \/ MongoFlaps
  PROVE  LifeInv'
<1> USE DEF LifeInv, LifeTypeOK, StartInv, StopInv
<1>1. CASE Listening
  BY <1>1 DEF Listening
<1>2. CASE ListenFails
  BY <1>2 DEF ListenFails
<1>3. CASE RetryListen
  BY <1>3 DEF RetryListen, AfterRetry
<1>4. CASE TryConnect
  BY <1>4 DEF TryConnect
<1>5. CASE RetryConnect
  BY <1>5 DEF RetryConnect, RetriesFrom
<1>6. CASE MongoFlaps
  BY <1>6 DEF MongoFlaps
<1> QED
  BY <1>1, <1>2, <1>3, <1>4, <1>5, <1>6

LEMMA ServeStep ==
  ASSUME LifeInv, Accept \/ Respond
  PROVE  LifeInv'
<1> USE LifecycleAssumption
    DEF LifecycleAssumption, LifeInv, LifeTypeOK, StartInv, StopInv
<1>1. CASE Accept
  BY <1>1 DEF Accept
<1>2. CASE Respond
  BY <1>2 DEF Respond
<1> QED
  BY <1>1, <1>2

LEMMA StopStep ==
  ASSUME LifeInv,
         GracefulShutdown \/ IoClosed \/ HttpClosed \/ MongoClosed
           \/ Exit \/ ForcedExit
  PROVE  LifeInv'
<1> USE DEF LifeInv, LifeTypeOK, StartInv, StopInv
<1>1. CASE GracefulShutdown
  BY <1>1 DEF GracefulShutdown
<1>2. CASE IoClosed
  BY <1>2 DEF IoClosed
<1>3. CASE HttpClosed
  BY <1>3 DEF HttpClosed, AllAnswered
<1>4. CASE MongoClosed
  BY <1>4 DEF MongoClosed
<1>5. CASE Exit
  BY <1>5 DEF Exit
<1>6. CASE ForcedExit
  BY <1>6 DEF ForcedExit
<1> QED
  BY <1>1, <1>2, <1>3, <1>4, <1>5, <1>6

LEMMA LifeInvStep == LifeInv /\ [LifeNext]_lifeVars => LifeInv'
<1> SUFFICES ASSUME LifeInv, [LifeNext]_lifeVars PROVE LifeInv'
  OBVIOUS
<1>1. CASE UNCHANGED lifeVars
  BY <1>1 DEF lifeVars, LifeInv, LifeTypeOK, StartInv, StopInv
<1> QED
  BY <1>1, StartStep, ServeStep, StopStep DEF LifeNext

(* Every variable keeps its shape: among them, however often MongoDB comes *)
(* and goes, the countdowns are restored at most once (server.js).         *)
THEOREM LifeTypeCorrect == LifeSpec => []LifeTypeOK
<1>1. LifeInv => LifeTypeOK
  BY DEF LifeInv
<1> QED
  BY <1>1, LifeInvInit, LifeInvStep, PTL DEF LifeSpec

(* gracefulShutdown closes MongoDB, and ends the process cleanly, only     *)
(* when every accepted request is answered and none can come any more,     *)
(* whichever callbacks fail, however long requests last and whatever the   *)
(* port does.                                                              *)
THEOREM DatabaseOutlives == LifeSpec => []AcceptedAreAnswered
<1>1. LifeInv => AcceptedAreAnswered
  BY DEF LifeInv, StopInv, AcceptedAreAnswered
<1> QED
  BY <1>1, LifeInvInit, LifeInvStep, PTL DEF LifeSpec

--------------------------------------------------------------------------------
(* The cursor divides the items that were worked from those that were not; *)
(* a runner is done when the cursor has reached the end of its batch.      *)
PoolInv ==
  /\ PoolTypeOK
  /\ \A m, n \in found : m = n
  /\ \A i \in 1..BatchSize : worked[i] = IF i <= cursor THEN 1 ELSE 0
  /\ \A n \in found : \A w \in Runners : runner[w] = "done" => n <= cursor
  /\ isCleanupRunning <=> batch # "none"

LEMMA NoneOrOne ==
  Cardinality({}) <= 1 /\ \A n : Cardinality({n}) <= 1
<1>1. Cardinality({}) = 0 /\ \A n : Cardinality({n}) = 1
  BY FS_EmptySet, FS_Singleton
<1> QED
  BY <1>1

LEMMA PoolInvInit == PoolInit => PoolInv
<1> SUFFICES ASSUME PoolInit PROVE PoolInv
  OBVIOUS
<1> USE PoolAssumption DEF PoolAssumption, PoolInit
<1>1. /\ worked \in [1..BatchSize -> Nat]
      /\ \A i \in 1..BatchSize : worked[i] = IF i <= cursor THEN 1 ELSE 0
  BY DEF Untouched
<1>2. found \in SUBSET (0..BatchSize) /\ Cardinality(found) <= 1
  BY NoneOrOne
<1>3. cursor \in 0..BatchSize
  OBVIOUS
<1> QED
  BY <1>1, <1>2, <1>3 DEF PoolInv, PoolTypeOK

LEMMA PassStep ==
  ASSUME PoolInv, RunCleanup \/ FindBatch \/ FindFails \/ NextBatch
  PROVE  PoolInv'
<1> USE PoolAssumption, NoneOrOne DEF PoolAssumption, PoolInv, PoolTypeOK
<1>1. CASE RunCleanup
  BY <1>1 DEF RunCleanup
<1>2. CASE FindBatch
  <2>1. PICK n \in 0..BatchSize : found' = {n}
    BY <1>2 DEF FindBatch
  <2>2. found' \in SUBSET (0..BatchSize) /\ Cardinality(found') <= 1
    BY <2>1
  <2>3. worked' \in [1..BatchSize -> Nat]
        /\ \A i \in 1..BatchSize : worked'[i] = IF i <= cursor' THEN 1 ELSE 0
    BY <1>2 DEF FindBatch, Untouched
  <2>4. cursor' \in 0..BatchSize
    BY <1>2 DEF FindBatch
  <2> QED
    BY <1>2, <2>1, <2>2, <2>3, <2>4 DEF FindBatch
<1>3. CASE FindFails
  BY <1>3 DEF FindFails
<1>4. CASE NextBatch
  BY <1>4 DEF NextBatch
<1> QED
  BY <1>1, <1>2, <1>3, <1>4

LEMMA RunnerStep ==
  ASSUME PoolInv, NEW w \in Runners,
         Take(w) \/ \E ok \in BOOLEAN : WorkerReturns(w, ok)
  PROVE  PoolInv'
<1> USE PoolAssumption DEF PoolAssumption, PoolInv, PoolTypeOK
<1>1. ASSUME NEW ok \in BOOLEAN, WorkerReturns(w, ok) PROVE PoolInv'
  BY <1>1 DEF WorkerReturns, AfterItem
<1>2. ASSUME Take(w), NEW n \in found PROVE PoolInv'
  <2>1. n \in 0..BatchSize /\ cursor \in 0..BatchSize /\ \A m \in found : m = n
    OBVIOUS
  <2>2. CASE cursor < n
    <3>1. /\ cursor' = cursor + 1 /\ cursor + 1 \in 1..BatchSize
          /\ worked' = [worked EXCEPT ![cursor + 1] = @ + 1]
          /\ runner' = [runner EXCEPT ![w] = "working"]
      BY <1>2, <2>1, <2>2 DEF Take
    <3>2. worked' \in [1..BatchSize -> Nat]
      BY <3>1
    <3>3. \A i \in 1..BatchSize : worked'[i] = IF i <= cursor' THEN 1 ELSE 0
      BY <3>1
    <3> QED
      BY <1>2, <2>1, <2>2, <3>1, <3>2, <3>3 DEF Take
  <2>3. CASE ~(cursor < n)
    <3>1. /\ UNCHANGED <<cursor, worked>> /\ n <= cursor
          /\ runner' = [runner EXCEPT ![w] = "done"]
      BY <1>2, <2>1, <2>3 DEF Take
    <3> QED
      BY <1>2, <2>1, <3>1 DEF Take
  <2> QED
    BY <2>2, <2>3
<1> QED
  BY <1>1, <1>2 DEF Take

LEMMA PoolInvHolds == PoolSpec => []PoolInv
<1>1. PoolInv /\ UNCHANGED poolVars => PoolInv'
  BY DEF PoolInv, PoolTypeOK, poolVars
<1>2. PoolInv /\ PoolNext => PoolInv'
  BY PassStep, RunnerStep DEF PoolNext
<1> QED
  BY <1>1, <1>2, PoolInvInit, PTL DEF PoolSpec

(* Whatever runners interleave and whichever items fail, a batch that is   *)
(* done has had each item worked once (services/cleanupService.js).        *)
THEOREM WorkedOnce == PoolSpec => []EachItemIsWorkedOnce
<1>1. PoolInv => EachItemIsWorkedOnce
  <2> SUFFICES ASSUME PoolInv PROVE EachItemIsWorkedOnce
    OBVIOUS
  <2> USE PoolAssumption DEF PoolAssumption, PoolInv, PoolTypeOK
  <2>1. \A i \in 1..BatchSize : worked[i] <= 1
    OBVIOUS
  <2>2. ASSUME AllDone, NEW n \in found, NEW i \in 1..n PROVE worked[i] = 1
    <3>1. PICK w \in Runners : runner[w] = "done"
      BY <2>2 DEF AllDone
    <3>2. n \in 0..BatchSize /\ n <= cursor /\ i <= cursor /\ i \in 1..BatchSize
      BY <3>1
    <3> QED
      BY <3>2
  <2> QED
    BY <2>1, <2>2 DEF EachItemIsWorkedOnce
<1> QED
  BY <1>1, PoolInvHolds, PTL

--------------------------------------------------------------------------------
(* The sender on record, for any set of sockets and any number of faults.  *)

(* A sweep has the settled sender among the ids it took, so what it finds  *)
(* stale is not that sender.                                               *)
PresenceInv ==
  /\ LiveSenderIsKnown
  /\ \A s \in settled \cup registering : conn[s] # "new"
  /\ sweeping # "idle" => \A s \in settled : conn[s] = "up" => s \in connected
  /\ sweeping = "clearing" => \A s \in settled : conn[s] # "up"

LEMMA PresenceTypeStep == PresenceTypeOK /\ [PresenceNext]_presenceVars => PresenceTypeOK'
<1> SUFFICES ASSUME PresenceTypeOK, [PresenceNext]_presenceVars
             PROVE  PresenceTypeOK'
  OBVIOUS
<1> USE PresenceAssumption DEF PresenceAssumption, PresenceTypeOK, Fault
<1>1. ASSUME NEW s \in Sockets, Connect(s) PROVE PresenceTypeOK'
  BY <1>1 DEF Connect
<1>2. ASSUME NEW s \in Sockets, RegisterSender(s) PROVE PresenceTypeOK'
  BY <1>2 DEF RegisterSender
<1>3. ASSUME NEW s \in Sockets, RegisterApplied(s) PROVE PresenceTypeOK'
  BY <1>3 DEF RegisterApplied
<1>4. ASSUME NEW s \in Sockets, Disconnect(s) PROVE PresenceTypeOK'
  BY <1>4 DEF Disconnect
<1>5. ASSUME NEW s \in Sockets, DisconnectApplied(s) PROVE PresenceTypeOK'
  BY <1>5 DEF DisconnectApplied, ClearedBy
<1>6. CASE SweepTakesIds
  BY <1>6 DEF SweepTakesIds, Up
<1>7. CASE SweepFinds
  BY <1>7 DEF SweepFinds
<1>8. CASE SweepClears
  BY <1>8 DEF SweepClears
<1>9. CASE SweepErrs
  BY <1>9 DEF SweepErrs
<1>10. CASE PresenceCrash
  BY <1>10 DEF PresenceCrash
<1>11. CASE UNCHANGED presenceVars
  BY <1>11 DEF presenceVars
<1> QED
  BY <1>1, <1>2, <1>3, <1>4, <1>5, <1>6, <1>7, <1>8, <1>9, <1>10, <1>11
     DEF PresenceNext

(* Every variable of sockets, sender and sweep keeps its shape             *)
(* (config/socket.js).                                                     *)
THEOREM PresenceTypeCorrect == PresenceSafety => []PresenceTypeOK
<1>1. PresenceInit => PresenceTypeOK
  BY PresenceAssumption DEF PresenceAssumption, PresenceInit, PresenceTypeOK
<1> QED
  BY <1>1, PresenceTypeStep, PTL DEF PresenceSafety

--------------------------------------------------------------------------------
LEMMA SocketStep ==
  ASSUME PresenceTypeOK, PresenceInv, NEW s \in Sockets,
         Connect(s) \/ RegisterSender(s) \/ RegisterApplied(s)
           \/ Disconnect(s) \/ DisconnectApplied(s)
  PROVE  PresenceInv'
<1> USE DEF PresenceTypeOK, PresenceInv, LiveSenderIsKnown
<1>1. CASE Connect(s)
  BY <1>1 DEF Connect
<1>2. CASE RegisterSender(s)
  BY <1>2 DEF RegisterSender
<1>3. CASE RegisterApplied(s)
  BY <1>3 DEF RegisterApplied
<1>4. CASE Disconnect(s)
  BY <1>4 DEF Disconnect
<1>5. CASE DisconnectApplied(s)
  <2>1. conn' = [conn EXCEPT ![s] = "gone"] /\ conn[s] = "closing"
    BY <1>5 DEF DisconnectApplied
  <2>2. ASSUME NEW t \in settled, conn'[t] = "up" PROVE senderId' = t
    BY <1>5, <2>1, <2>2 DEF DisconnectApplied, ClearedBy
  <2> QED
    BY <1>5, <2>1, <2>2 DEF DisconnectApplied
<1> QED
  BY <1>1, <1>2, <1>3, <1>4, <1>5

LEMMA SweepStep ==
  ASSUME PresenceTypeOK, PresenceInv,
         PresenceSweep \/ SweepErrs \/ PresenceCrash
  PROVE  PresenceInv'
<1> USE DEF PresenceTypeOK, PresenceInv, LiveSenderIsKnown
<1>1. CASE SweepTakesIds
  BY <1>1 DEF SweepTakesIds, Up
<1>2. CASE SweepFinds
  BY <1>2 DEF SweepFinds, LooksStale
<1>3. CASE SweepClears
  BY <1>3 DEF SweepClears
<1>4. CASE SweepErrs
  BY <1>4 DEF SweepErrs
<1>5. CASE PresenceCrash
  BY <1>5 DEF PresenceCrash
<1> QED
  BY <1>1, <1>2, <1>3, <1>4, <1>5 DEF PresenceSweep

LEMMA SenderStaysKnown == PresenceSafety => []LiveSenderIsKnown
<1>1. PresenceInit => PresenceInv
  BY DEF PresenceInit, PresenceInv, LiveSenderIsKnown
<1>2. PresenceTypeOK /\ PresenceInv /\ [PresenceNext]_presenceVars => PresenceInv'
  <2> SUFFICES ASSUME PresenceTypeOK, PresenceInv, [PresenceNext]_presenceVars
               PROVE  PresenceInv'
    OBVIOUS
  <2>1. CASE UNCHANGED presenceVars
    BY <2>1 DEF presenceVars, PresenceInv, LiveSenderIsKnown
  <2> QED
    BY <2>1, SocketStep, SweepStep DEF PresenceNext, PresenceSweep
<1>3. PresenceInv => LiveSenderIsKnown
  BY DEF PresenceInv
<1> QED
  BY <1>1, <1>2, <1>3, PresenceTypeCorrect, PTL DEF PresenceSafety

(* Neither the late disconnect of its previous socket nor the sweep, which *)
(* clears by code, takes the record of a settled, connected sender away    *)
(* (config/socket.js).                                                     *)
THEOREM SenderIsKnown == PresenceSpec => []LiveSenderIsKnown
BY SenderStaysKnown, PTL DEF PresenceSpec, PresenceSafety

--------------------------------------------------------------------------------
(* Page views: every variable keeps its shape, whatever visits repeat, fail *)
(* to be stored and are announced (routes/analytics.js).                   *)
LEMMA VisitTypeStep ==
  VisitTypeOK /\ [VisitNext]_visitVars => VisitTypeOK'
<1> SUFFICES ASSUME VisitTypeOK, [VisitNext]_visitVars PROVE VisitTypeOK'
  OBVIOUS
<1> USE DEF VisitTypeOK
<1>1. ASSUME NEW v \in Visits, DropDuplicate(v) PROVE VisitTypeOK'
  BY <1>1 DEF DropDuplicate
<1>2. ASSUME NEW v \in Visits, NEW isBot \in BOOLEAN, RecordVisit(v, isBot)
      PROVE  VisitTypeOK'
  <2>1. recentKeys' \in SUBSET {KeyOf[x] : x \in Visits}
    BY <1>2 DEF RecordVisit
  <2>2. pending' \in SUBSET Visits
    BY <1>2 DEF RecordVisit
  <2>3. timer' \in {"none", "armed", "left behind"}
    BY <1>2 DEF RecordVisit
  <2> QED
    BY <1>2, <2>1, <2>2, <2>3 DEF RecordVisit
<1>3. ASSUME NEW v \in Visits, InsertFails(v) PROVE VisitTypeOK'
  BY <1>3 DEF InsertFails
<1>4. ASSUME NEW k \in recentKeys, KeyExpires(k) PROVE VisitTypeOK'
  BY <1>4 DEF KeyExpires
<1>5. CASE EmitBatch
  BY <1>5 DEF EmitBatch, TimerAfterBatch
<1>6. CASE UNCHANGED visitVars
  BY <1>6 DEF visitVars
<1> QED
  BY <1>1, <1>2, <1>3, <1>4, <1>5, <1>6 DEF VisitNext

LEMMA VisitTypeCorrect == VisitSafety => []VisitTypeOK
<1>1. VisitInit => VisitTypeOK
  BY DEF VisitInit, VisitTypeOK
<1> QED
  BY <1>1, VisitTypeStep, PTL DEF VisitSafety

(* The safety half of VisitsAreAnnounced: a queued visit has an armed timer *)
(* and leaves the queue for a batch alone.                                 *)
TimerInv ==
  /\ timer # "left behind"
  /\ pending # {} => timer = "armed"
NoVisitIsLost == [][pending \subseteq pending' \cup announced']_visitVars

LEMMA VisitStep ==
  ASSUME VisitTypeOK, TimerInv, [VisitNext]_visitVars
  PROVE  TimerInv' /\ pending \subseteq pending' \cup announced'
<1> USE DEF TimerInv
<1>1. ASSUME NEW v \in Visits, NEW isBot \in BOOLEAN, RecordVisit(v, isBot)
      PROVE  TimerInv' /\ pending \subseteq pending' \cup announced'
  <2>1. pending \subseteq pending'
    BY <1>1 DEF RecordVisit
  <2>2. CASE isBot
    <3>1. pending' = pending /\ timer' = timer
      BY <1>1, <2>2 DEF RecordVisit
    <3> QED
      BY <3>1
  <2>3. CASE ~isBot
    <3>1. timer' = IF timer = "none" THEN "armed" ELSE timer
      BY <1>1, <2>3 DEF RecordVisit
    <3>2. timer' = "armed"
      BY <3>1 DEF VisitTypeOK
    <3> QED
      BY <2>1, <3>2
  <2> QED
    BY <2>2, <2>3
<1>2. ASSUME NEW v \in Visits, DropDuplicate(v) \/ InsertFails(v)
      PROVE  TimerInv' /\ pending \subseteq pending' \cup announced'
  BY <1>2 DEF DropDuplicate, InsertFails
<1>3. ASSUME NEW k \in recentKeys, KeyExpires(k)
      PROVE  TimerInv' /\ pending \subseteq pending' \cup announced'
  BY <1>3 DEF KeyExpires
<1>4. CASE EmitBatch
  BY <1>4 DEF EmitBatch, TimerAfterBatch
<1>5. CASE UNCHANGED visitVars
  BY <1>5 DEF visitVars
<1> QED
  BY <1>1, <1>2, <1>3, <1>4, <1>5 DEF VisitNext

(* No visit is queued without a timer or dropped from the queue            *)
(* unannounced, whatever repeats and failing inserts come in between, so   *)
(* the fairness of the timer is all that VisitsAreAnnounced still needs.   *)
THEOREM QueuedAreKept == VisitSpec => []TimerInv /\ NoVisitIsLost
<1>1. VisitInit => TimerInv
  BY DEF VisitInit, TimerInv
<1> QED
  BY <1>1, VisitStep, VisitTypeCorrect, PTL
     DEF VisitSpec, VisitSafety, NoVisitIsLost

--------------------------------------------------------------------------------
(* The services share no variable: a behaviour of the composition is a     *)
(* behaviour of each, so what is proved of one holds beside the others.    *)
THEOREM EachServiceRunsAlone ==
  Spec => /\ RegistrySpec /\ PresenceSafety /\ CacheSpec /\ FlightSpec
          /\ LifeSpec /\ VisitSafety /\ PoolSpec
<1> USE DEF vars, OnCodes, OnPresence, OnCache, OnFlight, OnLife, OnVisits, OnPool
<1>1. Init => /\ RegistryInit /\ PresenceInit /\ CacheInit /\ FlightInit
              /\ LifeInit /\ VisitInit /\ PoolInit
  BY DEF Init
<1>2. [Next]_vars => [RegistryNext]_registryVars
  BY DEF Next
<1>3. [Next]_vars => [PresenceNext]_presenceVars
  BY DEF Next
<1>4. [Next]_vars => [CacheNext]_cacheVars
  BY DEF Next
<1>5. [Next]_vars => [FlightNext]_flightVars
  BY DEF Next
<1>6. [Next]_vars => [LifeNext]_lifeVars
  BY DEF Next
<1>7. [Next]_vars => [VisitNext]_visitVars
  BY DEF Next
<1>8. [Next]_vars => [PoolNext]_poolVars
  BY DEF Next
<1> QED
  BY <1>1, <1>2, <1>3, <1>4, <1>5, <1>6, <1>7, <1>8, PTL
     DEF Spec, RegistrySpec, PresenceSafety, CacheSpec, FlightSpec, LifeSpec,
         VisitSafety, PoolSpec

(* Every variable of every service keeps its shape beside the others.      *)
THEOREM ServicesTypeCorrect == Spec => []ServicesTypeOK
<1>1. PoolInv => PoolTypeOK
  BY DEF PoolInv
<1>2. RegistryTypeOK /\ PresenceTypeOK /\ CacheTypeOK /\ FlightTypeOK
        /\ LifeTypeOK /\ VisitTypeOK /\ PoolTypeOK => ServicesTypeOK
  BY DEF ServicesTypeOK
<1> QED
  BY <1>1, <1>2, EachServiceRunsAlone, RegistryTypeCorrect, PresenceTypeCorrect,
     CacheTypeCorrect, FlightTypeCorrect, LifeTypeCorrect, VisitTypeCorrect,
     PoolInvHolds, PTL

(* What the run services checks of its instance holds of every one.        *)
THEOREM ServicesHold ==
  Spec => [](/\ UncontestedShareIsWhole /\ OnlyOwnTextIsShown /\ LiveSenderIsKnown
             /\ OldStatusFades /\ OneComputation /\ EachItemIsWorkedOnce
             /\ AcceptedAreAnswered)
BY EachServiceRunsAlone, UncontestedIsWhole, OwnTextShown, SenderStaysKnown,
   OldStatusGoes, ComputedOnce, WorkedOnce, DatabaseOutlives, PTL
================================================================================
