----------------------------- MODULE SenderPresence ----------------------------
(***************************************************************************)
(* Which socket is the sender of a transfer: senderSocketId, written by    *)
(* register-sender, cleared by the disconnect handler and, for whatever    *)
(* these leave behind, by the sweep of config/socket.js every five         *)
(* minutes.  The sweep looks at the connected sockets, then at the         *)
(* database, and clears by code, not by the id it has seen.                *)
(*                                                                         *)
(* One transfer, active throughout; each socket id connects once.          *)
(***************************************************************************)
EXTENDS Naturals

CONSTANTS
  Sockets, NoSocket,
  MaxFaults          \* bound: failed writes and crashes

ASSUME PresenceAssumption == NoSocket \notin Sockets /\ MaxFaults \in Nat

VARIABLES
  conn,         \* new, up, closing (its updateMany is on the way), gone
  senderId,     \* senderSocketId of the transfer
  registering,  \* sockets whose register-sender update is on the way
  sweeping,     \* idle, snapshot (ids taken), clearing (found stale)
  connected,    \* the ids the sweep has taken
  settled,      \* history: socket registered last, while no sweep ran
  faults        \* history

presenceVars == <<conn, senderId, registering, sweeping, connected, settled, faults>>

PresenceInit ==
  /\ conn = [s \in Sockets |-> "new"]
  /\ senderId = NoSocket
  /\ registering = {} /\ connected = {} /\ settled = {}
  /\ sweeping = "idle"
  /\ faults = 0

Up == {s \in Sockets : conn[s] = "up"}
Fault == faults < MaxFaults /\ faults' = faults + 1

Connect(s) ==
  /\ conn[s] = "new"
  /\ conn' = [conn EXCEPT ![s] = "up"]
  /\ UNCHANGED <<senderId, registering, sweeping, connected, settled, faults>>

RegisterSender(s) ==
  /\ conn[s] = "up" /\ s \notin registering
  /\ registering' = registering \cup {s}
  /\ UNCHANGED <<conn, senderId, sweeping, connected, settled, faults>>

(* The update may arrive after the disconnect has been handled.            *)
RegisterApplied(s) ==
  /\ s \in registering
  /\ registering' = registering \ {s}
  /\ \/ /\ senderId' = s
        /\ settled' = IF sweeping = "idle" THEN {s} ELSE {}
        /\ UNCHANGED faults
     \/ Fault /\ UNCHANGED <<senderId, settled>>
  /\ UNCHANGED <<conn, sweeping, connected>>

Disconnect(s) ==
  /\ conn[s] = "up"
  /\ conn' = [conn EXCEPT ![s] = "closing"]
  /\ UNCHANGED <<senderId, registering, sweeping, connected, settled, faults>>

(* updateMany({ senderSocketId: socket.id }).                              *)
MutantClearedBy(s) == NoSocket
ClearedBy(s) == IF senderId = s THEN NoSocket ELSE senderId
DisconnectApplied(s) ==
  /\ conn[s] = "closing"
  /\ conn' = [conn EXCEPT ![s] = "gone"]
  /\ \/ senderId' = ClearedBy(s) /\ UNCHANGED faults
     \/ Fault /\ UNCHANGED senderId
  /\ UNCHANGED <<registering, sweeping, connected, settled>>

SweepTakesIds ==
  /\ sweeping = "idle"
  /\ sweeping' = "snapshot" /\ connected' = Up
  /\ UNCHANGED <<conn, senderId, registering, settled, faults>>

MutantLooksStale == FALSE
LooksStale == senderId # NoSocket /\ senderId \notin connected
SweepFinds ==
  /\ sweeping = "snapshot"
  /\ sweeping' = IF LooksStale THEN "clearing" ELSE "idle"
  /\ UNCHANGED <<conn, senderId, registering, connected, settled, faults>>

SweepClears ==
  /\ sweeping = "clearing"
  /\ senderId' = NoSocket /\ sweeping' = "idle"
  /\ UNCHANGED <<conn, registering, connected, settled, faults>>

SweepErrs ==
  /\ sweeping # "idle" /\ Fault
  /\ sweeping' = "idle"
  /\ UNCHANGED <<conn, senderId, registering, connected, settled>>

(* The process dies: its sockets and everything on the way go with it.     *)
PresenceCrash ==
  /\ Fault
  /\ conn' = [s \in Sockets |-> IF conn[s] = "new" THEN "new" ELSE "gone"]
  /\ registering' = {} /\ connected' = {} /\ sweeping' = "idle"
  /\ UNCHANGED <<senderId, settled>>

PresenceNext ==
  \/ \E s \in Sockets :
       \/ Connect(s) \/ RegisterSender(s) \/ RegisterApplied(s)
       \/ Disconnect(s) \/ DisconnectApplied(s)
  \/ SweepTakesIds \/ SweepFinds \/ SweepClears \/ SweepErrs
  \/ PresenceCrash

(* The interval timer keeps firing and its queries return.                 *)
PresenceSweep == SweepTakesIds \/ SweepFinds \/ SweepClears

PresenceSpec ==
  PresenceInit /\ [][PresenceNext]_presenceVars /\ WF_presenceVars(PresenceSweep)

--------------------------------------------------------------------------------
(* Every variable keeps its shape.                                         *)
PresenceTypeOK ==
  /\ conn \in [Sockets -> {"new", "up", "closing", "gone"}]
  /\ senderId \in Sockets \cup {NoSocket}
  /\ registering \in SUBSET Sockets /\ connected \in SUBSET Sockets
  /\ settled \in SUBSET Sockets
  /\ sweeping \in {"idle", "snapshot", "clearing"}
  /\ faults \in 0..MaxFaults

(* A sender that registered while no sweep was running, and is still       *)
(* connected and the last to register, is the one on record: neither the   *)
(* late disconnect of its previous socket nor any later sweep takes it     *)
(* away.                                                                   *)
LiveSenderIsKnown == \A s \in settled : conn[s] = "up" => senderId = s

(* The id of a socket that is gone does not stay on record: also when its  *)
(* registration arrived after its disconnect, when the disconnect's update *)
(* failed, and across a crash.                                             *)
DeadSenderIsForgotten ==
  \A s \in Sockets : senderId = s /\ conn[s] = "gone" ~> senderId # s
================================================================================
