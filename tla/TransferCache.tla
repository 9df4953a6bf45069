------------------------------ MODULE TransferCache ----------------------------
(***************************************************************************)
(* The status and activity caches of routes/transfer.js: a reader that     *)
(* misses fetches the document and fills the cache after the await; cancel,*)
(* burn-finalize and extend delete the entry, the other ways to change a   *)
(* transfer do not.  Nothing orders a fill and an invalidation.            *)
(*                                                                         *)
(* One transfer and one change of it.                                      *)
(***************************************************************************)
EXTENDS Naturals

CONSTANTS
  Readers,
  TTL,               \* STATUS_CACHE_TTL_MS
  Latency,           \* longest time between the query and the fill
  LastCacheTime      \* bound of the instance

ASSUME CacheAssumption == TTL \in Nat /\ Latency \in Nat /\ LastCacheTime \in Nat

VARIABLES
  cacheClock,
  status,       \* of the document: "before" and then "after" the change
  changedAt,
  cache,        \* the entry of the code, at most one
  fetched       \* per reader: the document read and when, at most one

cacheVars == <<cacheClock, status, changedAt, cache, fetched>>

CacheInit ==
  /\ cacheClock = 0 /\ status = "before" /\ changedAt = 0
  /\ cache = {}
  /\ fetched = [r \in Readers |-> {}]

MutantIsFresh(e) == e.expiresAt >= 0
IsFresh(e) == e.expiresAt > cacheClock
Served == {e.payload : e \in {x \in cache : IsFresh(x)}}

(* getCachedPayload misses, deleting what has expired, and the query reads *)
(* the document; a hit answers and changes nothing.                        *)
Fetch(r) ==
  /\ fetched[r] = {} /\ Served = {}
  /\ fetched' = [fetched EXCEPT ![r] = {[payload |-> status, readAt |-> cacheClock]}]
  /\ cache' = {}
  /\ UNCHANGED <<cacheClock, status, changedAt>>

(* setCachedPayload, and the answer.                                       *)
Fill(r) ==
  /\ \E f \in fetched[r] :
       cache' = {[payload |-> f.payload, expiresAt |-> cacheClock + TTL]}
  /\ fetched' = [fetched EXCEPT ![r] = {}]
  /\ UNCHANGED <<cacheClock, status, changedAt>>

FetchFails(r) ==
  /\ fetched[r] # {}
  /\ fetched' = [fetched EXCEPT ![r] = {}]
  /\ UNCHANGED <<cacheClock, status, changedAt, cache>>

ChangeTransfer ==
  /\ status = "before"
  /\ status' = "after" /\ changedAt' = cacheClock
  /\ UNCHANGED <<cacheClock, cache, fetched>>

InvalidateTransferCache ==
  /\ status = "after"
  /\ cache' = {}
  /\ UNCHANGED <<cacheClock, status, changedAt, fetched>>

DropExpired ==
  /\ cache' = {e \in cache : IsFresh(e)}
  /\ UNCHANGED <<cacheClock, status, changedAt, fetched>>

CacheTick ==
  /\ cacheClock < LastCacheTime
  /\ \A r \in Readers : \A f \in fetched[r] : cacheClock < f.readAt + Latency
  /\ cacheClock' = cacheClock + 1
  /\ UNCHANGED <<status, changedAt, cache, fetched>>

CacheNext ==
  \/ \E r \in Readers : Fetch(r) \/ Fill(r) \/ FetchFails(r)
  \/ ChangeTransfer \/ InvalidateTransferCache \/ DropExpired \/ CacheTick

CacheSpec == CacheInit /\ [][CacheNext]_cacheVars

--------------------------------------------------------------------------------
(* Every variable keeps its shape.                                         *)
CacheTypeOK ==
  /\ cacheClock \in Nat /\ changedAt \in Nat
  /\ status \in {"before", "after"}
  /\ \A e \in cache : e \in [payload : {"before", "after"}, expiresAt : Nat]
  /\ fetched \in [Readers -> SUBSET [payload : {"before", "after"}, readAt : Nat]]

(* A fill that overtakes the invalidation, or a change that invalidates    *)
(* nothing, shows the old status for no longer than the slowest query and  *)
(* one TTL after the change.                                               *)
OldStatusFades ==
  status = "after" /\ cacheClock >= changedAt + Latency + TTL
    => "before" \notin Served
================================================================================
