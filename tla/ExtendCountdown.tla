---------------------------- MODULE ExtendCountdown ----------------------------
(***************************************************************************)
(* The expiry of one transfer and the countdown the server shows for it:   *)
(* extend requests (routes/transfer.js), the entry of the transfer in      *)
(* countdownMap and the timer that works it off (config/socket.js), the    *)
(* restoration of countdowns after a restart (server.js), the cleanup's    *)
(* expireOne and the other ways a transfer is deleted.                     *)
(*                                                                         *)
(* The database and the memory of the process are changed by different     *)
(* steps of a handler: one action applies an update, another is the        *)
(* handler coming back from its await.                                     *)
(***************************************************************************)
EXTENDS Naturals

CONSTANTS
  Requests,    \* extend requests, each used once
  Owners,      \* those that carry the ownership token
  FirstExpiry, \* expiresAt of the new transfer
  Extensions,  \* what a request may extend by (10, 30, 60 minutes)
  MaxTime      \* bound of the clock

ASSUME ConstantsAreSound ==
  /\ Owners \subseteq Requests
  /\ FirstExpiry \in Nat \ {0}
  /\ Extensions \subseteq Nat \ {0}
  /\ MaxTime \in Nat

NoCountdown == 0

VARIABLES
  now,        \* the clock
  doc,        \* the document; owned: its ownershipToken is still stored
  countdown,  \* endsAt of the entry in countdownMap, or NoCountdown
  pc,         \* per extend request: its next step
  snap,       \* the document it read
  newExpiry,  \* the expiresAt it computed
  deletion,   \* cancel, burn-finalize, admin expiry: idle, marked, done
  sweep,      \* expireOne: idle, selected, marked
  restore,    \* restoreActiveCountdowns: done, due, given up, or what it has read
  extensions, \* history: requests that were answered with success
  announced,  \* history: transfer-expired was emitted
  failed      \* history: an update has thrown

requestVars == <<pc, snap, newExpiry>>
deletionVars == <<deletion, sweep>>
history == <<extensions, announced, failed>>
vars == <<now, doc, countdown, requestVars, deletionVars, restore, history>>

Fresh ==
  [ isDeleted |-> FALSE, owned |-> TRUE,
    expiresAt |-> FirstExpiry, extendedOnce |-> FALSE ]

(* The upload schedules the first countdown.                               *)
Init ==
  /\ now = 0
  /\ doc = Fresh
  /\ countdown = FirstExpiry
  /\ pc = [r \in Requests |-> "idle"]
  /\ snap = [r \in Requests |-> Fresh]
  /\ newExpiry = [r \in Requests |-> 0]
  /\ deletion = "idle"
  /\ sweep = "idle"
  /\ restore = [step |-> "done", expiresAt |-> 0]
  /\ extensions = {}
  /\ announced = FALSE
  /\ failed = FALSE

Goto(r, step) == pc' = [pc EXCEPT ![r] = step]

--------------------------------------------------------------------------------
(* POST /:code/extend                                                      *)

ExtendRead(r) ==
  /\ pc[r] = "idle"
  /\ snap' = [snap EXCEPT ![r] = doc]
  /\ Goto(r, "check")
  /\ UNCHANGED <<now, doc, countdown, newExpiry, deletionVars, restore, history>>

(* validateOwnershipToken lets everybody through when the stored token is  *)
(* gone; isDeleted is not looked at.                                       *)
MayExtend(r) ==
  /\ ~(snap[r].expiresAt < now)
  /\ ~snap[r].extendedOnce
  /\ r \in Owners \/ ~snap[r].owned

ExtendReject(r) ==
  /\ pc[r] = "check"
  /\ ~MayExtend(r)
  /\ Goto(r, "done")
  /\ UNCHANGED <<now, doc, countdown, snap, newExpiry, deletionVars, restore>>
  /\ UNCHANGED history

(* The old countdown is cleared before the update is sent.                 *)
MutantFromNow(r) == now
BaseExpiry(r) == IF snap[r].expiresAt > now THEN snap[r].expiresAt ELSE now

ExtendStart(r) ==
  /\ pc[r] = "check"
  /\ MayExtend(r)
  /\ \E e \in Extensions : newExpiry' = [newExpiry EXCEPT ![r] = BaseExpiry(r) + e]
  /\ countdown' = NoCountdown
  /\ Goto(r, "update")
  /\ UNCHANGED <<now, doc, snap, deletionVars, restore, history>>

MutantUnguardedExtend == ~doc.isDeleted
ExtendFilter == ~doc.extendedOnce /\ ~doc.isDeleted

ExtendUpdate(r) ==
  /\ pc[r] = "update"
  /\ IF ExtendFilter
     THEN /\ doc' = [doc EXCEPT !.expiresAt = newExpiry[r], !.extendedOnce = TRUE]
          /\ extensions' = extensions \cup {r}
          /\ Goto(r, "won")
     ELSE Goto(r, "lost") /\ UNCHANGED <<doc, extensions>>
  /\ UNCHANGED <<now, countdown, snap, newExpiry, deletionVars, restore>>
  /\ UNCHANGED <<announced, failed>>

(* The winner schedules what it wrote, the loser what it had read.         *)
MutantScheduleComputed(r) == newExpiry[r]
MutantForgetRestore(r) == IF pc[r] = "won" THEN newExpiry[r] ELSE countdown
Rescheduled(r) == IF pc[r] = "won" THEN newExpiry[r] ELSE snap[r].expiresAt

ExtendReschedule(r) ==
  /\ pc[r] \in {"won", "lost"}
  /\ countdown' = Rescheduled(r)
  /\ Goto(r, "done")
  /\ UNCHANGED <<now, doc, snap, newExpiry, deletionVars, restore, history>>

(* The error handler answers; nobody schedules the countdown again.        *)
ExtendFails(r) ==
  /\ pc[r] = "update"
  /\ Goto(r, "done")
  /\ failed' = TRUE
  /\ UNCHANGED <<now, doc, countdown, snap, newExpiry, deletionVars, restore>>
  /\ UNCHANGED <<extensions, announced>>

--------------------------------------------------------------------------------
(* The consolidated timer: an entry that has run out is announced to the   *)
(* room and removed; the document is only read by the cleanup.             *)
CountdownTick ==
  /\ countdown # NoCountdown
  /\ countdown <= now
  /\ countdown' = NoCountdown
  /\ announced' = TRUE
  /\ UNCHANGED <<now, doc, requestVars, deletionVars, restore, extensions, failed>>

(* Deletion unsets the ownership token, except by the grace-period timer.  *)
Deleted == [doc EXCEPT !.isDeleted = TRUE, !.owned = FALSE]

(* expireOne: selected once, marked later without looking at the expiry    *)
(* again, the countdown cleared in any case.                               *)
SelectExpired ==
  /\ sweep = "idle"
  /\ ~doc.isDeleted /\ doc.expiresAt < now
  /\ sweep' = "selected"
  /\ UNCHANGED <<now, doc, countdown, requestVars, deletion, restore, history>>

ExpireOneMark ==
  /\ sweep = "selected"
  /\ doc' = Deleted
  /\ sweep' = "marked"
  /\ UNCHANGED <<now, countdown, requestVars, deletion, restore, history>>

ExpireOneFails ==
  /\ sweep = "selected"
  /\ sweep' = "marked"
  /\ failed' = TRUE
  /\ UNCHANGED <<now, doc, countdown, requestVars, deletion, restore>>
  /\ UNCHANGED <<extensions, announced>>

ExpireOneClear ==
  /\ sweep = "marked"
  /\ countdown' = NoCountdown
  /\ sweep' = "idle"
  /\ UNCHANGED <<now, doc, requestVars, deletion, restore, history>>

(* Cancel, burn-finalize and the admin's forced expiry mark the document,  *)
(* go on to R2, and clear the countdown.                                   *)
DeleteMark ==
  /\ deletion = "idle"
  /\ ~doc.isDeleted
  /\ doc' = Deleted
  /\ deletion' = "marked"
  /\ UNCHANGED <<now, countdown, requestVars, sweep, restore, history>>

DeleteClear ==
  /\ deletion = "marked"
  /\ countdown' = NoCountdown
  /\ deletion' = "done"
  /\ UNCHANGED <<now, doc, requestVars, sweep, restore, history>>

(* The grace-period timer deletes and leaves the countdown running.        *)
GraceBurn ==
  /\ ~doc.isDeleted
  /\ doc' = [doc EXCEPT !.isDeleted = TRUE]
  /\ UNCHANGED <<now, countdown, requestVars, deletionVars, restore, history>>

--------------------------------------------------------------------------------
(* A restart loses countdownMap and every handler in flight; on the first  *)
(* connection to MongoDB the countdowns are read back and scheduled, once  *)
(* per process.                                                            *)
Crash ==
  /\ countdown' = NoCountdown
  /\ pc' = [r \in Requests |-> IF pc[r] = "idle" THEN "idle" ELSE "done"]
  /\ deletion' = IF deletion = "idle" THEN "idle" ELSE "done"
  /\ sweep' = "idle"
  /\ restore' = [step |-> "due", expiresAt |-> 0]
  /\ UNCHANGED <<now, doc, snap, newExpiry, history>>

IsActive == ~doc.isDeleted /\ doc.expiresAt > now

RestoreFind ==
  /\ restore.step = "due"
  /\ restore' = IF IsActive
                THEN [step |-> "read", expiresAt |-> doc.expiresAt]
                ELSE [step |-> "done", expiresAt |-> 0]
  /\ UNCHANGED <<now, doc, countdown, requestVars, deletionVars, history>>

(* The connection is gone again, the read throws and is only logged, or    *)
(* the transfer is not among the 2000 that are read.                       *)
RestoreGivesUp ==
  /\ restore.step = "due"
  /\ restore' = [step |-> "abandoned", expiresAt |-> 0]
  /\ UNCHANGED <<now, doc, countdown, requestVars, deletionVars, history>>

RestoreSchedule ==
  /\ restore.step = "read"
  /\ countdown' = restore.expiresAt
  /\ restore' = [step |-> "done", expiresAt |-> 0]
  /\ UNCHANGED <<now, doc, requestVars, deletionVars, history>>

AdvanceTime ==
  /\ now < MaxTime
  /\ now' = now + 1
  /\ UNCHANGED <<doc, countdown, requestVars, deletionVars, restore, history>>

Extend(r) ==
  \/ ExtendRead(r) \/ ExtendReject(r) \/ ExtendStart(r)
  \/ ExtendUpdate(r) \/ ExtendReschedule(r) \/ ExtendFails(r)

Delete == DeleteMark \/ DeleteClear \/ GraceBurn

ExpireOne == SelectExpired \/ ExpireOneMark \/ ExpireOneFails \/ ExpireOneClear

Next ==
  \/ \E r \in Requests : Extend(r)
  \/ CountdownTick
  \/ ExpireOne
  \/ Delete
  \/ Crash \/ RestoreFind \/ RestoreGivesUp \/ RestoreSchedule
  \/ AdvanceTime

Spec == Init /\ [][Next]_vars

--------------------------------------------------------------------------------
(* Properties.                                                             *)

Expiries == { FirstExpiry } \cup { FirstExpiry + e : e \in Extensions }

Docs ==
  [ isDeleted: BOOLEAN, owned: BOOLEAN,
    expiresAt: Expiries, extendedOnce: BOOLEAN ]

RestoreSteps == {"done", "due", "abandoned", "read"}

(* Every variable keeps its shape: no expiry and no countdown is ever      *)
(* anything but the first expiry or that plus one extension.               *)
TypeOK ==
  /\ now \in 0..MaxTime
  /\ doc \in Docs
  /\ countdown \in {NoCountdown} \cup Expiries
  /\ pc \in [Requests ->
       {"idle", "check", "update", "won", "lost", "done"}]
  /\ snap \in [Requests -> Docs]
  /\ newExpiry \in [Requests -> {0} \cup Expiries]
  /\ deletion \in {"idle", "marked", "done"}
  /\ sweep \in {"idle", "selected", "marked"}
  /\ restore \in [step: RestoreSteps, expiresAt: {0} \cup Expiries]
  /\ extensions \in SUBSET Requests
  /\ announced \in BOOLEAN
  /\ failed \in BOOLEAN

(* "Two concurrent extend requests cannot both succeed": whatever they     *)
(* read, one is answered with success, it is the owner's or nobody's, and  *)
(* the expiry is the one that this request was told.                       *)
ExtendedOnceByOwner ==
  /\ \A a, b \in extensions : a = b
  /\ \A r \in extensions : r \in Owners /\ doc.expiresAt = newExpiry[r]

(* The countdown of a live transfer never promises more time than the      *)
(* transfer has, whichever of the racing handlers scheduled it last.       *)
CountdownIsNeverLate == ~doc.isDeleted => countdown <= doc.expiresAt

(* "To avoid leaving the transfer without a timer": a live transfer        *)
(* without a countdown has a handler about to schedule one, or has already *)
(* been announced as expired, unless an update threw or the restoration    *)
(* after the last restart gave up: nobody tries that one again.            *)
Rescheduling ==
  \/ \E r \in Requests : pc[r] \in {"update", "won", "lost"}
  \/ restore.step \in {"due", "read"}

LiveTransferIsCountedDown ==
  ~doc.isDeleted /\ now < doc.expiresAt /\ countdown = NoCountdown =>
    Rescheduling \/ announced \/ failed \/ restore.step = "abandoned"

(* "Emit transfer-expired when a transfer expires": once no handler is     *)
(* about to schedule the countdown again, the room of a live transfer is   *)
(* told that it has expired only when it has.                              *)
ExpiredIsTrueWhenAnnounced ==
  [][CountdownTick =>
       doc.isDeleted \/ doc.expiresAt <= now \/ Rescheduling]_vars

--------------------------------------------------------------------------------
(* The inductive strengthening of the invariants: what a handler holds is  *)
(* what the document is or was, and the document only moves forward.       *)
Unextended(d) == ~d.extendedOnce => d.expiresAt = FirstExpiry

RequestInv(r) ==
  /\ Unextended(snap[r])
  /\ snap[r].expiresAt <= doc.expiresAt
  /\ snap[r].owned \/ doc.isDeleted
  /\ pc[r] \in {"idle", "check", "update"} => r \notin extensions
  /\ pc[r] = "won" => r \in extensions
  /\ pc[r] = "update" =>
       /\ r \in Owners \/ doc.isDeleted
       /\ newExpiry[r] \in Expiries

(* Whoever is about to clear the countdown has the document deleted.       *)
ScheduleInv ==
  /\ restore.expiresAt <= doc.expiresAt
  /\ restore.step = "read" => restore.expiresAt # 0
  /\ sweep = "marked" => doc.isDeleted \/ failed
  /\ deletion = "marked" => doc.isDeleted

ExtendInv ==
  /\ Unextended(doc)
  /\ doc.owned \/ doc.isDeleted
  /\ extensions # {} => doc.extendedOnce
  /\ \A r \in Requests : RequestInv(r)
  /\ ScheduleInv
  /\ ExtendedOnceByOwner
  /\ CountdownIsNeverLate
  /\ LiveTransferIsCountedDown
================================================================================
