------------------------------- MODULE CleanupPool -----------------------------
(***************************************************************************)
(* The scheduling of the cleanup job (services/cleanupService.js): cron    *)
(* starts a pass every five minutes unless one is running; a pass selects  *)
(* a batch of expired transfers, then one of stale burns, and works each   *)
(* with a bounded number of runners that share a cursor.                   *)
(***************************************************************************)
EXTENDS Naturals, FiniteSets

CONSTANTS
  BatchSize,         \* CLEANUP_BATCH_SIZE
  Runners            \* CLEANUP_PARALLELISM of them

ASSUME PoolAssumption == BatchSize \in Nat /\ Runners # {}

VARIABLES
  isCleanupRunning,
  batch,      \* none, expired, stale: which batch the pass is at
  found,      \* items of the batch, 1..found, in a set of at most one number
  cursor,
  runner,     \* looping, working, done
  worked      \* history: how often the worker was called on an item

poolVars == <<isCleanupRunning, batch, found, cursor, runner, worked>>

Untouched == [i \in 1..BatchSize |-> 0]

PoolInit ==
  /\ isCleanupRunning = FALSE /\ batch = "none"
  /\ found = {} /\ cursor = 0
  /\ runner = [w \in Runners |-> "done"]
  /\ worked = Untouched

(* A tick of cron while a pass is running is skipped.                      *)
RunCleanup ==
  /\ ~isCleanupRunning
  /\ isCleanupRunning' = TRUE /\ batch' = "expired" /\ found' = {}
  /\ UNCHANGED <<cursor, runner, worked>>

FindBatch ==
  /\ batch # "none" /\ found = {}
  /\ \E n \in 0..BatchSize : found' = {n}
  /\ cursor' = 0 /\ worked' = Untouched
  /\ runner' = [w \in Runners |-> "looping"]
  /\ UNCHANGED <<isCleanupRunning, batch>>

(* The catch and finally blocks when a query fails.                        *)
FindFails ==
  /\ batch # "none" /\ found = {}
  /\ isCleanupRunning' = FALSE /\ batch' = "none"
  /\ UNCHANGED <<found, cursor, runner, worked>>

(* while (cursor < items.length): idx = cursor++ and the call of the       *)
(* worker, with no await in between.                                       *)
Take(w) ==
  /\ runner[w] = "looping"
  /\ \E n \in found :
       IF cursor < n
       THEN /\ cursor' = cursor + 1
            /\ worked' = [worked EXCEPT ![cursor + 1] = @ + 1]
            /\ runner' = [runner EXCEPT ![w] = "working"]
       ELSE /\ runner' = [runner EXCEPT ![w] = "done"]
            /\ UNCHANGED <<cursor, worked>>
  /\ UNCHANGED <<isCleanupRunning, batch, found>>

(* An item that fails is recorded; its runner goes on with the next.       *)
MutantAfterItem(ok) == IF ok THEN "looping" ELSE "done"
AfterItem(ok) == "looping"
WorkerReturns(w, ok) ==
  /\ runner[w] = "working"
  /\ runner' = [runner EXCEPT ![w] = AfterItem(ok)]
  /\ UNCHANGED <<isCleanupRunning, batch, found, cursor, worked>>

AllDone == found # {} /\ \A w \in Runners : runner[w] = "done"

NextBatch ==
  /\ AllDone
  /\ found' = {}
  /\ batch' = IF batch = "expired" THEN "stale" ELSE "none"
  /\ isCleanupRunning' = (batch = "expired")
  /\ UNCHANGED <<cursor, runner, worked>>

PoolNext ==
  \/ RunCleanup \/ FindBatch \/ FindFails \/ NextBatch
  \/ \E w \in Runners : Take(w) \/ \E ok \in BOOLEAN : WorkerReturns(w, ok)

PoolSpec == PoolInit /\ [][PoolNext]_poolVars

--------------------------------------------------------------------------------
(* Every variable keeps its shape.                                         *)
PoolTypeOK ==
  /\ isCleanupRunning \in BOOLEAN
  /\ batch \in {"none", "expired", "stale"}
  /\ found \in SUBSET (0..BatchSize) /\ Cardinality(found) <= 1
  /\ cursor \in 0..BatchSize
  /\ runner \in [Runners -> {"looping", "working", "done"}]
  /\ worked \in [1..BatchSize -> Nat]

(* Every item of a batch is handed to the worker exactly once before the   *)
(* pass goes on, whatever runners interleave and whichever items fail; and *)
(* the guard against overlapping passes is down exactly between passes.    *)
EachItemIsWorkedOnce ==
  /\ \A i \in 1..BatchSize : worked[i] <= 1
  /\ AllDone => \A n \in found : \A i \in 1..n : worked[i] = 1
  /\ isCleanupRunning <=> batch # "none"
================================================================================
