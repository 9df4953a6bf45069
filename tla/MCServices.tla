------------------------------ MODULE MCServices -------------------------------
(***************************************************************************)
(* Model-checking instance of the services around the transfers.  They     *)
(* share no variable, so a behaviour of all of them is one behaviour of    *)
(* each: the run picks the service in focus and leaves the others alone,   *)
(* instead of multiplying their states.                                    *)
(***************************************************************************)
EXTENDS CodeRegistry, SenderPresence, TransferCache, SingleFlight,
        ServerLifecycle, VisitBuffer, CleanupPool

VARIABLE focus

vars == <<focus, registryVars, presenceVars, cacheVars, flightVars, lifeVars,
          visitVars, poolVars>>

Init ==
  /\ focus \in {"codes", "presence", "cache", "flight", "life", "visits", "pool"}
  /\ RegistryInit /\ PresenceInit /\ CacheInit /\ LifeInit /\ VisitInit /\ PoolInit
  /\ FlightInit /\ (joins \/ focus = "flight")

OnCodes ==
  focus = "codes" /\ RegistryNext
  /\ UNCHANGED <<focus, presenceVars, cacheVars, flightVars, lifeVars, visitVars, poolVars>>
OnPresence(A) ==
  focus = "presence" /\ A
  /\ UNCHANGED <<focus, registryVars, cacheVars, flightVars, lifeVars, visitVars, poolVars>>
OnCache ==
  focus = "cache" /\ CacheNext
  /\ UNCHANGED <<focus, registryVars, presenceVars, flightVars, lifeVars, visitVars, poolVars>>
OnFlight ==
  focus = "flight" /\ FlightNext
  /\ UNCHANGED <<focus, registryVars, presenceVars, cacheVars, lifeVars, visitVars, poolVars>>
OnLife ==
  focus = "life" /\ LifeNext
  /\ UNCHANGED <<focus, registryVars, presenceVars, cacheVars, flightVars, visitVars, poolVars>>
OnVisits(A) ==
  focus = "visits" /\ A
  /\ UNCHANGED <<focus, registryVars, presenceVars, cacheVars, flightVars, lifeVars, poolVars>>
OnPool ==
  focus = "pool" /\ PoolNext
  /\ UNCHANGED <<focus, registryVars, presenceVars, cacheVars, flightVars, lifeVars, visitVars>>

Next ==
  \/ OnCodes \/ OnPresence(PresenceNext) \/ OnCache \/ OnFlight
  \/ OnLife \/ OnVisits(VisitNext) \/ OnPool

(* The fairness of SenderPresence and VisitBuffer.                         *)
Fairness ==
  /\ WF_vars(OnPresence(PresenceSweep))
  /\ WF_vars(OnVisits(EmitBatch))

Spec == Init /\ [][Next]_vars /\ Fairness

--------------------------------------------------------------------------------
(* Everybody shares a file of one name; two visits are repeats, another    *)
(* two have no session.                                                    *)
TheTitles == [s \in Shares |-> "title"]
TheKeys == [v \in Visits |-> IF v \in {"v1", "v2"} THEN "key" ELSE NoKey]

(* The type invariants of the services in one.                             *)
ServicesTypeOK ==
  /\ RegistryTypeOK /\ PresenceTypeOK /\ CacheTypeOK /\ FlightTypeOK
  /\ LifeTypeOK /\ VisitTypeOK /\ PoolTypeOK
================================================================================
