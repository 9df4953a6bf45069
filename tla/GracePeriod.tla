------------------------------ MODULE GracePeriod ------------------------------
(***************************************************************************)
(* The claimant's socket and the grace period of a burn transfer           *)
(* (config/socket.js): a client registers its claimant token on a socket,  *)
(* a disconnect of that socket arms a timer, the timer burns the transfer  *)
(* unless a registration cancels it first.                                 *)
(*                                                                         *)
(* Handlers are cut at their awaits.  Registering is an update and what    *)
(* follows it, disconnecting likewise, and a timer that fires first takes  *)
(* its entry out of gracePeriodTimers, then reads, then writes; a socket   *)
(* may disconnect while its registration waits for the database.  A timer  *)
(* is named after the socket whose disconnect armed it.  What else can     *)
(* happen to the document (claim, cancel, burn-finalize, cleanup) is one   *)
(* atomic step here: each is a single update guarded by isDeleted: false,  *)
(* and BurnDownload has the handlers around it.                            *)
(***************************************************************************)
EXTENDS TransferDoc, Naturals

CONSTANTS
  Sockets,     \* socket ids, each connected at most once
  Tokens,      \* claimant tokens
  MaxFaults    \* bound: crashes and failing updates

ASSUME ConstantsAreSound ==
  /\ "none" \notin Tokens
  /\ MaxFaults \in Nat

VARIABLES
  doc,         \* the document of the transfer
  stored,      \* its objects are still in R2
  expired,     \* expiresAt < now
  conn,        \* per socket: new, open, closing (disconnect in flight), closed
  token,       \* socket.data.claimantToken
  registering, \* token of the register-claimant handler in flight, or "none"
  timer,       \* per timer: none, pending, fired, found, over
  timerToken,  \* the token its closure captured
  tracked,     \* gracePeriodTimers.get(code): at most one timer
  crowded,     \* history: see SoleClaimantIsSpared
  burnedBy,    \* history: timers whose update has been applied
  faults

socketVars == <<conn, token, registering>>
timerVars == <<timer, timerToken, tracked>>
history == <<crowded, burnedBy>>
vars == <<doc, stored, expired, socketVars, timerVars, history, faults>>

Init ==
  /\ \E burn \in BOOLEAN : doc = NewTransfer(burn)
  /\ stored = TRUE
  /\ expired = FALSE
  /\ conn = [s \in Sockets |-> "new"]
  /\ token = [s \in Sockets |-> "none"]
  /\ registering = [s \in Sockets |-> "none"]
  /\ timer = [s \in Sockets |-> "none"]
  /\ timerToken = [s \in Sockets |-> "none"]
  /\ tracked = {}
  /\ crowded = FALSE
  /\ burnedBy = {}
  /\ faults = 0

Fault == faults < MaxFaults /\ faults' = faults + 1
Pending == { s \in Sockets : timer[s] = "pending" }

(* The sockets the server has not finished with that act for a token.      *)
ActsFor(s, t) ==
  /\ conn[s] \in {"open", "closing"}
  /\ token[s] = t \/ registering[s] = t

--------------------------------------------------------------------------------
(* register-claimant                                                       *)

Connect(s) ==
  /\ conn[s] = "new"
  /\ conn' = [conn EXCEPT ![s] = "open"]
  /\ UNCHANGED <<doc, stored, expired, token, registering, faults>>
  /\ UNCHANGED timerVars /\ UNCHANGED history

(* The update matches an unclaimed transfer too, deleted or not; a token   *)
(* that does not match is answered already_claimed and leaves no trace.    *)
RegisterUpdate(s, t) ==
  /\ conn[s] = "open"
  /\ registering[s] = "none"
  /\ doc.claimantToken \in {t, "none"}
  /\ registering' = [registering EXCEPT ![s] = t]
  /\ crowded' = (crowded \/ \E x \in Sockets \ {s} : ActsFor(x, t))
  /\ UNCHANGED <<doc, stored, expired, conn, token, burnedBy, faults>>
  /\ UNCHANGED timerVars

(* Only the timer that gracePeriodTimers knows is cancelled, whatever      *)
(* token it was armed for.                                                 *)
MutantCancelNothing == timer
CancelTracked ==
  [s \in Sockets |-> IF s \in tracked THEN "over" ELSE timer[s]]

RegisterResume(s) ==
  /\ registering[s] # "none"
  /\ token' = [token EXCEPT ![s] = registering[s]]
  /\ registering' = [registering EXCEPT ![s] = "none"]
  /\ timer' = CancelTracked
  /\ tracked' = {}
  /\ UNCHANGED <<doc, stored, expired, conn, timerToken, faults>>
  /\ UNCHANGED history

RegisterFails(s) ==
  /\ registering[s] # "none"
  /\ Fault
  /\ registering' = [registering EXCEPT ![s] = "none"]
  /\ UNCHANGED <<doc, stored, expired, conn, token>>
  /\ UNCHANGED timerVars /\ UNCHANGED history

--------------------------------------------------------------------------------
(* disconnect and the timer                                                *)

Disconnect(s) ==
  /\ conn[s] = "open"
  /\ conn' = [conn EXCEPT ![s] = "closing"]
  /\ UNCHANGED <<doc, stored, expired, token, registering, faults>>
  /\ UNCHANGED timerVars /\ UNCHANGED history

(* The sender's socket id is cleared; a socket that speaks for a claimant  *)
(* arms a timer, and its entry replaces one that may be there.             *)
DisconnectResume(s) ==
  /\ conn[s] = "closing"
  /\ conn' = [conn EXCEPT ![s] = "closed"]
  /\ IF token[s] = "none"
     THEN UNCHANGED timerVars /\ UNCHANGED crowded
     ELSE /\ timer' = [timer EXCEPT ![s] = "pending"]
          /\ timerToken' = [timerToken EXCEPT ![s] = token[s]]
          /\ tracked' = {s}
          /\ crowded' = (crowded \/ Pending # {})
  /\ UNCHANGED <<doc, stored, expired, token, registering, burnedBy, faults>>

(* The update throws: the error is logged and no timer is armed.           *)
DisconnectFails(s) ==
  /\ conn[s] = "closing"
  /\ Fault
  /\ conn' = [conn EXCEPT ![s] = "closed"]
  /\ UNCHANGED <<doc, stored, expired, token, registering>>
  /\ UNCHANGED timerVars /\ UNCHANGED history

(* The entry of the code goes, also when it is another timer's.            *)
TimerFires(s) ==
  /\ timer[s] = "pending"
  /\ timer' = [timer EXCEPT ![s] = "fired"]
  /\ tracked' = {}
  /\ UNCHANGED <<doc, stored, expired, timerToken, faults>>
  /\ UNCHANGED socketVars /\ UNCHANGED history

MutantAnyClaimant(s) == ~doc.isDeleted
TimerFilter(s) == doc.claimantToken = timerToken[s] /\ ~doc.isDeleted

TimerFind(s) ==
  /\ timer[s] = "fired"
  /\ timer' = [timer EXCEPT ![s] = IF TimerFilter(s) THEN "found" ELSE "over"]
  /\ UNCHANGED <<doc, stored, expired, timerToken, tracked, faults>>
  /\ UNCHANGED socketVars /\ UNCHANGED history

(* The update neither looks at isDeleted nor deletes or unsets anything.   *)
MutantBurnWithReason(d) ==
  [d EXCEPT !.isDeleted = TRUE, !.burnFinalizedAt = TRUE,
            !.deletionReason = "burn"]
MutantReasonNotInSchema(d) ==
  [d EXCEPT !.isDeleted = TRUE, !.burnFinalizedAt = TRUE,
            !.deletionReason = "grace"]
TimerBurnUpdate(d) == [d EXCEPT !.isDeleted = TRUE, !.burnFinalizedAt = TRUE]

TimerBurn(s) ==
  /\ timer[s] = "found"
  /\ timer' = [timer EXCEPT ![s] = "over"]
  /\ doc' = TimerBurnUpdate(doc)
  /\ burnedBy' = burnedBy \cup {s}
  /\ UNCHANGED <<stored, expired, timerToken, tracked, crowded, faults>>
  /\ UNCHANGED socketVars

--------------------------------------------------------------------------------
(* The rest of the server and the world.                                   *)

OthersUnchanged ==
  UNCHANGED <<expired, faults>> /\ UNCHANGED socketVars
  /\ UNCHANGED timerVars /\ UNCHANGED history

Claim(t) ==
  /\ doc.burn /\ ~doc.isDeleted /\ ~IsClaimed(doc)
  /\ doc' = [doc EXCEPT !.claimantToken = t, !.burnClaimOwner = "finger",
                        !.lastActive = "recent"]
  /\ UNCHANGED stored /\ OthersUnchanged

(* Deletion by the other paths: the objects go with the document.          *)
Purge(marked) ==
  /\ ~doc.isDeleted
  /\ doc' = marked
  /\ stored' = FALSE
  /\ OthersUnchanged

Cancel ==
  Purge([MarkDeleted(doc) EXCEPT !.cancelledAt = TRUE,
                                 !.deletionReason = "manual"])

BurnFinalize ==
  /\ doc.burnClaimOwner # "none"
  /\ Purge([MarkDeleted(doc) EXCEPT !.burnFinalizedAt = TRUE])

ExpireOne ==
  /\ expired
  /\ Purge([MarkDeleted(doc) EXCEPT !.deletionReason = "expired"])

FinalizeStaleBurn ==
  /\ doc.burn /\ doc.burnClaimOwner # "none" /\ doc.lastActive = "idle"
  /\ ~expired
  /\ Purge([MarkDeleted(doc) EXCEPT !.deletionReason = "burn",
                                    !.burnFinalizedAt = TRUE])

IdlePeriodPasses ==
  /\ doc.lastActive = "recent"
  /\ doc' = [doc EXCEPT !.lastActive = "idle"]
  /\ UNCHANGED stored /\ OthersUnchanged

ExpiryPasses ==
  /\ ~expired
  /\ expired' = TRUE
  /\ UNCHANGED <<doc, stored, faults>> /\ UNCHANGED socketVars
  /\ UNCHANGED timerVars /\ UNCHANGED history

(* Sockets and timers live in the memory of the process.                   *)
Crash ==
  /\ Fault
  /\ conn' = [s \in Sockets |-> IF conn[s] = "new" THEN "new" ELSE "closed"]
  /\ token' = [s \in Sockets |-> "none"]
  /\ registering' = [s \in Sockets |-> "none"]
  /\ timer' = [s \in Sockets |-> IF timer[s] = "none" THEN "none" ELSE "over"]
  /\ tracked' = {}
  /\ UNCHANGED <<doc, stored, expired, timerToken>> /\ UNCHANGED history

SocketStep(s) ==
  \/ Connect(s) \/ Disconnect(s)
  \/ \E t \in Tokens : RegisterUpdate(s, t)
  \/ RegisterResume(s) \/ RegisterFails(s)
  \/ DisconnectResume(s) \/ DisconnectFails(s)

TimerStep(s) == TimerFires(s) \/ TimerFind(s) \/ TimerBurn(s)

Cleanup == ExpireOne \/ FinalizeStaleBurn

Next ==
  \/ \E s \in Sockets : SocketStep(s) \/ TimerStep(s)
  \/ \E t \in Tokens : Claim(t)
  \/ Cancel \/ BurnFinalize \/ Cleanup
  \/ IdlePeriodPasses \/ ExpiryPasses
  \/ Crash

Spec == Init /\ [][Next]_vars

(* A timer that is armed fires and runs to its end, unless it is cancelled *)
(* or the process dies; node-cron keeps starting the cleanup.              *)
FairSpec ==
  Spec /\ WF_vars(Cleanup) /\ \A s \in Sockets : WF_vars(TimerStep(s))

--------------------------------------------------------------------------------
(* Properties.                                                             *)

Docs ==
  [ burn: BOOLEAN, isDeleted: BOOLEAN, deletionReason: DeletionReasons,
    cancelledAt: BOOLEAN, burnFinalizedAt: BOOLEAN,
    claimantToken: Tokens \cup {"none"}, burnClaimOwner: {"none", "finger"},
    lastActive: {"never", "recent", "idle"}, secrets: BOOLEAN,
    downloadCount: Nat, sessions: {{}} ]

(* Every variable keeps its shape; gracePeriodTimers holds one timer.      *)
TypeOK ==
  /\ doc \in Docs
  /\ stored \in BOOLEAN
  /\ expired \in BOOLEAN
  /\ conn \in [Sockets -> {"new", "open", "closing", "closed"}]
  /\ token \in [Sockets -> Tokens \cup {"none"}]
  /\ registering \in [Sockets -> Tokens \cup {"none"}]
  /\ timer \in [Sockets -> {"none", "pending", "fired", "found", "over"}]
  /\ timerToken \in [Sockets -> Tokens \cup {"none"}]
  /\ tracked \in SUBSET Sockets
  /\ crowded \in BOOLEAN
  /\ burnedBy \in SUBSET Sockets
  /\ faults \in 0..MaxFaults

(* A socket may register any token before the transfer is claimed, so      *)
(* strangers arm timers too; only a timer armed for the claimant's own     *)
(* token ever burns, and only a claimed burn transfer.                     *)
OnlyClaimantsTimerBurns ==
  \A s \in burnedBy : doc.burn /\ doc.claimantToken = timerToken[s]

(* The status virtual of a deleted transfer.                               *)
DeletedStatus(d) ==
  CASE d.cancelledAt -> "CANCELLED"
    [] ~d.cancelledAt /\ d.deletionReason = "burn" -> "CLAIMED"
    [] ~d.cancelledAt /\ d.deletionReason = "expired" -> "EXPIRED"
    [] OTHER -> "DELETED"

(* The grace timer writes without a guard, perhaps after the sender        *)
(* cancelled or the sweep expired the transfer: what the status virtual    *)
(* reports of a deleted transfer is still what it first reported.          *)
DeletedStatusStands ==
  [][doc.isDeleted =>
       doc'.isDeleted /\ DeletedStatus(doc') = DeletedStatus(doc)]_vars

(* A claimant with one socket at a time, when no two timers are armed at   *)
(* once, has no timer running against it while its socket is registered:   *)
(* registering after the disconnect was processed cancels the timer.       *)
TimerAgainstConnected(s, x) ==
  timer[s] = "pending" /\ conn[x] = "open" /\ token[x] = timerToken[s]

SoleClaimantIsSpared ==
  ~crowded => \A s, x \in Sockets : ~TimerAgainstConnected(s, x)

(* README, "a 15-second claimant disconnect grace period": on a transfer   *)
(* that is claimed, the timer of a socket that went away does not fire     *)
(* while the claimant is registered on another, open socket.               *)
ConnectedClaimantIsSpared ==
  [][\A s, x \in Sockets :
       TimerFires(s) /\ TimerAgainstConnected(s, x) =>
         doc.isDeleted \/ doc.claimantToken # timerToken[s]]_vars

(* README, "expired transfers purged from R2 + DB", models/Transfer.js,    *)
(* "safely $unset upon expiration": a transfer whose expiry has passed     *)
(* loses its objects and its secrets in the end.                           *)
ExpiredIsPurged == expired ~> (~stored /\ ~doc.secrets)

--------------------------------------------------------------------------------
(* The inductive strengthening of the invariants.                          *)

(* Nobody else acts for a token when a socket starts to, so no two do.     *)
OneSocketPerToken ==
  \A s, x \in Sockets : \A t \in Tokens :
    ActsFor(s, t) /\ ActsFor(x, t) => s = x

SocketInv(s) ==
  /\ timer[s] # "none" => conn[s] = "closed"
  /\ timer[s] \in {"pending", "fired", "found"} => timerToken[s] # "none"
  /\ timer[s] = "found" => doc.claimantToken = timerToken[s]
  /\ conn[s] = "new" => token[s] = "none" /\ registering[s] = "none"
  /\ s \in burnedBy => doc.isDeleted /\ timer[s] = "over"
  /\ s \in tracked => timer[s] = "pending"

TimerInv ==
  /\ OnlyClaimantsTimerBurns
  /\ SoleClaimantIsSpared
  /\ doc.claimantToken # "none" => doc.burn
  /\ \A s \in Sockets : SocketInv(s)
  /\ \A s, x \in tracked : s = x
  /\ ~crowded => Pending \subseteq tracked /\ OneSocketPerToken
================================================================================
