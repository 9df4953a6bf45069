----------------------------- MODULE BurnDownload ------------------------------
(***************************************************************************)
(* One transfer and everybody who races for it: download and preview       *)
(* requests (routes/download.js), burn-finalize and cancel requests        *)
(* (routes/transfer.js) and the cleanup job (services/cleanupService.js).  *)
(*                                                                         *)
(* Every handler is a process that is cut at its awaits: an action is one  *)
(* database or R2 call together with the synchronous code up to the next   *)
(* await.  What a handler read from the database stays in snap[r] and is   *)
(* what its later decisions are taken on, while doc is the document as it  *)
(* is now.  The server may crash at any moment: every handler in flight is *)
(* gone, the document and the R2 objects stay.                             *)
(*                                                                         *)
(* Two more writers delete without looking at isDeleted: the grace timer,  *)
(* which GracePeriod has, and the admin's force-expire (routes/admin.js),  *)
(* which is not modelled here.                                             *)
(*                                                                         *)
(* A definition named Mutant... is a broken variant of the one below it:   *)
(* no action uses it, it shows that a property can tell the two apart.     *)
(***************************************************************************)
EXTENDS TransferDoc, Naturals, FiniteSets

CONSTANTS
  Requests,          \* identities of HTTP requests, each used once
  Tokens,            \* claimant tokens that are not empty
  Fingers,           \* requester fingerprints
  Sessions,          \* download session ids ("none" : none sent)
  Files,             \* the R2 objects of the transfer
  Profiles,          \* the requests that clients send
  PasswordProtected, \* whether a password guards the transfer
  MaxFaults          \* bound: crashes, failing R2 deletes, failing updates

Kinds == {"download", "preview", "burnFinalize", "cancel"}

(* want: all files for GET /:code, one for /single/:index and for the      *)
(* preview, none when the index is out of range.                           *)
AllProfiles ==
  [ kind: Kinds, token: Tokens \cup {"none"}, finger: Fingers, role: Roles,
    session: Sessions \cup {"none"}, want: SUBSET Files ]

ASSUME ConstantsAreSound ==
  /\ "none" \notin Tokens /\ "none" \notin Fingers /\ "none" \notin Sessions
  /\ Profiles \subseteq AllProfiles
  /\ PasswordProtected \in BOOLEAN
  /\ MaxFaults \in Nat

VARIABLES
  doc,        \* the document in MongoDB
  r2,         \* the objects of the transfer present in R2
  expired,    \* expiresAt < now
  pc, req, snap,  \* per request: next step, what was sent, what was read
  claimers,   \* history: requests answered by the claiming update
  served,     \* history: requests whose stream was completed
  sweep,      \* next step of the cleanup job
  faults

vars == <<doc, r2, expired, pc, req, snap, claimers, served, sweep, faults>>
history == <<claimers, served>>
requestVars == <<pc, req, snap>>

(* What handlers read and use of the document.                             *)
View(d) ==
  [ isDeleted |-> d.isDeleted, claimantToken |-> d.claimantToken,
    burnClaimOwner |-> d.burnClaimOwner, secrets |-> d.secrets,
    sessions |-> d.sessions ]

NoRequest ==
  [ kind |-> "download", token |-> "none", finger |-> "none", role |-> "receiver",
    session |-> "none", want |-> {} ]

Init ==
  /\ \E burn \in BOOLEAN : doc = NewTransfer(burn)
  /\ r2 = Files
  /\ expired = FALSE
  /\ pc = [r \in Requests |-> "idle"]
  /\ req = [r \in Requests |-> NoRequest]
  /\ snap = [r \in Requests |-> View(NewTransfer(FALSE))]
  /\ claimers = {}
  /\ served = {}
  /\ sweep = "idle"
  /\ faults = 0

Goto(r, step) == pc' = [pc EXCEPT ![r] = step]
Fault == faults < MaxFaults /\ faults' = faults + 1

--------------------------------------------------------------------------------
(* Reading the transfer, and the answer when it is unavailable.            *)

FindTransfer(r, q) ==
  /\ pc[r] = "idle"
  /\ req' = [req EXCEPT ![r] = q]
  /\ snap' = [snap EXCEPT ![r] = View(doc)]
  /\ Goto(r, q.kind)
  /\ UNCHANGED <<doc, r2, expired, sweep, faults>> /\ UNCHANGED history

IsDownload(r) == pc[r] \in {"download", "preview"}

MutantIgnoresTheClaim(r) == expired \/ snap[r].isDeleted
IsUnavailable(r) ==
  \/ expired
  \/ snap[r].isDeleted
  \/ /\ doc.burn
     /\ IsClaimed(snap[r])
     /\ ~IsOwnerViaQuery(snap[r], req[r])
     /\ ~IsBurnClaimOwner(snap[r], req[r])

RejectUnavailable(r) ==
  /\ IsDownload(r)
  /\ IsUnavailable(r)
  /\ Goto(r, "rejected")
  /\ UNCHANGED <<doc, r2, expired, req, snap, sweep, faults>>
  /\ UNCHANGED history

(* A wrong or missing password, or too many attempts.                      *)
RejectPassword(r) ==
  /\ IsDownload(r)
  /\ ~IsUnavailable(r)
  /\ PasswordProtected
  /\ ~IsOwnerViaQuery(snap[r], req[r])
  /\ ~IsBurnClaimOwner(snap[r], req[r])
  /\ Goto(r, "rejected")
  /\ UNCHANGED <<doc, r2, expired, req, snap, sweep, faults>>
  /\ UNCHANGED history

IsSenderRequest(r) == ValidateOwnershipToken(snap[r], req[r])

(* The step after the claim, or instead of one: 404 for a bad index; a     *)
(* preview first reads the head of its object.                             *)
StreamOr404(r) ==
  CASE req[r].want = {}        -> "rejected"
    [] req[r].kind = "preview" -> "head"
    [] OTHER                   -> "stream"

Admit(r) ==
  /\ IsDownload(r)
  /\ ~IsUnavailable(r)
  /\ IF /\ pc[r] = "download"
        /\ doc.burn
        /\ ~IsSenderRequest(r)
     THEN Goto(r, "claim")
     ELSE Goto(r, StreamOr404(r))
  /\ UNCHANGED <<doc, r2, expired, req, snap, sweep, faults>>
  /\ UNCHANGED history

--------------------------------------------------------------------------------
(* claimBurnDownload: the branch is taken on the snapshot, the update on   *)
(* the document.                                                           *)

Claimable == ~doc.isDeleted /\ doc.burn

(* The updated document replaces the handler's copy.                       *)
Proceed(r) ==
  /\ snap' = [snap EXCEPT ![r] = View(doc')]
  /\ Goto(r, StreamOr404(r))

ClaimAsOwner(r) ==
  /\ pc[r] = "claim"
  /\ IsBurnClaimOwner(snap[r], req[r])
  /\ IF Claimable
     THEN doc' = [doc EXCEPT !.lastActive = "recent"] /\ Proceed(r)
     ELSE Goto(r, "rejected") /\ UNCHANGED <<doc, snap>>
  /\ UNCHANGED <<r2, expired, req, sweep, faults>> /\ UNCHANGED history

ClaimDenied(r) ==
  /\ pc[r] = "claim"
  /\ IsClaimed(snap[r])
  /\ ~IsBurnClaimOwner(snap[r], req[r])
  /\ Goto(r, "rejected")
  /\ UNCHANGED <<doc, r2, expired, req, snap, sweep, faults>>
  /\ UNCHANGED history

(* The filter and the update of the claiming findOneAndUpdate.             *)
MutantAnyClaim == TRUE
UnclaimedFilter == doc.claimantToken = "none"

MutantClaimWithoutActivity(d, q) ==
  [d EXCEPT !.claimantToken = q.token, !.burnClaimOwner = q.finger]
MutantClaimSwapped(d, q) ==
  [d EXCEPT !.claimantToken = q.finger, !.burnClaimOwner = q.token,
            !.lastActive = "recent"]
ClaimUpdate(d, q) ==
  [d EXCEPT !.claimantToken = q.token, !.burnClaimOwner = q.finger,
            !.lastActive = "recent"]

ClaimOpen(r) ==
  /\ pc[r] = "claim"
  /\ ~IsClaimed(snap[r])
  /\ IF Claimable /\ UnclaimedFilter
     THEN /\ doc' = ClaimUpdate(doc, req[r])
          /\ Proceed(r)
          /\ claimers' = claimers \cup {r}
     ELSE /\ Goto(r, "reclaim")
          /\ UNCHANGED <<doc, snap, claimers>>
  /\ UNCHANGED <<r2, expired, req, served, sweep, faults>>

(* The race was lost, perhaps to a request of the same claimant.           *)
MutantAnyToken(r) == TRUE
SameTokenFilter(r) == doc.claimantToken = req[r].token

ClaimAfterLostRace(r) ==
  /\ pc[r] = "reclaim"
  /\ IF Claimable /\ SameTokenFilter(r)
     THEN doc' = [doc EXCEPT !.lastActive = "recent"] /\ Proceed(r)
     ELSE Goto(r, "rejected") /\ UNCHANGED <<doc, snap>>
  /\ UNCHANGED <<r2, expired, req, sweep, faults>> /\ UNCHANGED history

--------------------------------------------------------------------------------
(* Previewing: HEAD ends with the object's head, GET goes on to its bytes  *)
(* unless the range is bad.  A preview claims and counts nothing.          *)

AnswerHead(r) ==
  /\ pc[r] = "head"
  /\ req[r].want \subseteq r2
  /\ Goto(r, "done")
  /\ UNCHANGED <<doc, r2, expired, req, snap, sweep, faults>>
  /\ UNCHANGED history

RejectRange(r) ==
  /\ pc[r] = "head"
  /\ req[r].want \subseteq r2
  /\ Goto(r, "rejected")
  /\ UNCHANGED <<doc, r2, expired, req, snap, sweep, faults>>
  /\ UNCHANGED history

HeadPreview(r) ==
  /\ pc[r] = "head"
  /\ Goto(r, IF req[r].want \subseteq r2 THEN "stream" ELSE "failed")
  /\ UNCHANGED <<doc, r2, expired, req, snap, sweep, faults>>
  /\ UNCHANGED history

CompletePreview(r) ==
  /\ pc[r] = "streaming"
  /\ req[r].kind = "preview"
  /\ served' = served \cup {r}
  /\ Goto(r, "done")
  /\ UNCHANGED <<doc, r2, expired, req, snap, claimers, sweep, faults>>

--------------------------------------------------------------------------------
(* Streaming from R2 and counting the download.                            *)

OpenStream(r) ==
  /\ pc[r] = "stream"
  /\ Goto(r, IF req[r].want \subseteq r2 THEN "streaming" ELSE "failed")
  /\ UNCHANGED <<doc, r2, expired, req, snap, sweep, faults>>
  /\ UNCHANGED history

CompleteStream(r) ==
  /\ pc[r] = "streaming"
  /\ req[r].kind = "download"
  /\ served' = served \cup {r}
  /\ Goto(r, IF IsSenderRequest(r) THEN "done" ELSE "finalize")
  /\ UNCHANGED <<doc, r2, expired, req, snap, claimers, sweep, faults>>

(* The client went away or R2 failed in the middle.                        *)
AbortStream(r) ==
  /\ pc[r] = "streaming"
  /\ Goto(r, "failed")
  /\ UNCHANGED <<doc, r2, expired, req, snap, sweep, faults>>
  /\ UNCHANGED history

(* Whether the session was counted before is decided on the handler's copy *)
(* of the document; the update does not look at isDeleted.                 *)
MutantAnySessionCounted(r) == snap[r].sessions # {}
AlreadyCounted(r) == req[r].session # "none" /\ req[r].session \in snap[r].sessions

SessionToRecord(r) == {req[r].session} \ {"none"}

FinalizeDownload(r) ==
  /\ pc[r] = "finalize"
  /\ doc' = [doc EXCEPT
       !.downloadCount = IF AlreadyCounted(r) THEN @ ELSE @ + 1,
       !.sessions = @ \cup SessionToRecord(r),
       !.lastActive = IF doc.burn THEN "recent" ELSE @]
  /\ Goto(r, "done")
  /\ UNCHANGED <<r2, expired, req, snap, sweep, faults>> /\ UNCHANGED history

--------------------------------------------------------------------------------
(* deleteFilesFromR2 swallows the errors of single objects: after a fault  *)
(* any of them may be left.                                                *)
DeleteFiles ==
  \/ r2' = {} /\ UNCHANGED faults
  \/ \E left \in SUBSET r2 : left # {} /\ r2' = left /\ Fault

(* The filter isDeleted: false of every update that deletes: marked is     *)
(* what the update makes of the document.                                  *)
MutantMarkAgain(marked) == marked
MutantMarkIdle(marked) ==
  IF doc.isDeleted \/ doc.lastActive = "recent" THEN doc ELSE marked
MarkOnce(marked) == IF doc.isDeleted THEN doc ELSE marked

(* POST /:code/burn-finalize deletes the objects before it marks.          *)
BurnFinalizeCheck(r) ==
  /\ pc[r] = "burnFinalize"
  /\ Goto(r, IF ~doc.burn \/ snap[r].isDeleted THEN "done"
             ELSE IF \/ snap[r].burnClaimOwner = "none"
                     \/ ~IsBurnClaimOwner(snap[r], req[r]) THEN "rejected"
             ELSE "burnDelete")
  /\ UNCHANGED <<doc, r2, expired, req, snap, sweep, faults>>
  /\ UNCHANGED history

BurnFinalizeDelete(r) ==
  /\ pc[r] = "burnDelete"
  /\ DeleteFiles
  /\ Goto(r, "burnMark")
  /\ UNCHANGED <<doc, expired, req, snap, sweep>> /\ UNCHANGED history

BurnFinalizeMark(r) ==
  /\ pc[r] = "burnMark"
  /\ doc' = MarkOnce([MarkDeleted(doc) EXCEPT !.burnFinalizedAt = TRUE,
                                              !.lastActive = "recent"])
  /\ Goto(r, "done")
  /\ UNCHANGED <<r2, expired, req, snap, sweep, faults>> /\ UNCHANGED history

(* DELETE /:code marks first and deletes the objects only if it marked.    *)
CancelCheck(r) ==
  /\ pc[r] = "cancel"
  /\ Goto(r, IF ~IsSenderRequest(r) THEN "rejected"
             ELSE IF snap[r].isDeleted THEN "done" ELSE "cancelMark")
  /\ UNCHANGED <<doc, r2, expired, req, snap, sweep, faults>>
  /\ UNCHANGED history

MutantCancelKeepsFiles(r) ==
  /\ pc[r] = "cancelMark"
  /\ doc' = MarkOnce([MarkDeleted(doc) EXCEPT !.cancelledAt = TRUE,
                                              !.deletionReason = "manual"])
  /\ Goto(r, "done")
  /\ UNCHANGED <<r2, expired, req, snap, sweep, faults>> /\ UNCHANGED history

CancelMark(r) ==
  /\ pc[r] = "cancelMark"
  /\ IF doc.isDeleted
     THEN Goto(r, "done") /\ UNCHANGED doc
     ELSE /\ doc' = [MarkDeleted(doc) EXCEPT !.cancelledAt = TRUE,
                                             !.deletionReason = "manual"]
          /\ Goto(r, "cancelDelete")
  /\ UNCHANGED <<r2, expired, req, snap, sweep, faults>> /\ UNCHANGED history

CancelDelete(r) ==
  /\ pc[r] = "cancelDelete"
  /\ DeleteFiles
  /\ Goto(r, "done")
  /\ UNCHANGED <<doc, expired, req, snap, sweep>> /\ UNCHANGED history

--------------------------------------------------------------------------------
(* The cleanup job as this transfer sees it: one pass first selects the    *)
(* expired transfers, then the stale burn sessions; a selected transfer    *)
(* has its objects deleted and is then marked, without a second look at    *)
(* the condition it was selected for.                                      *)

SweepUnchanged == UNCHANGED <<expired, pc, req, snap>> /\ UNCHANGED history

MutantSparesClaimed == expired /\ ~doc.isDeleted /\ ~IsClaimed(doc)
IsExpiredTransfer == expired /\ ~doc.isDeleted

SelectExpired ==
  /\ sweep = "idle"
  /\ sweep' = IF IsExpiredTransfer THEN "expiredDelete" ELSE "stale"
  /\ UNCHANGED <<doc, r2, faults>> /\ SweepUnchanged

IsStaleBurn ==
  /\ doc.burn /\ ~doc.isDeleted
  /\ doc.burnClaimOwner # "none"
  /\ doc.lastActive = "idle"
  /\ ~expired

SelectStaleBurn ==
  /\ sweep = "stale"
  /\ sweep' = IF IsStaleBurn THEN "staleDelete" ELSE "idle"
  /\ UNCHANGED <<doc, r2, faults>> /\ SweepUnchanged

SweepDelete ==
  /\ sweep \in {"expiredDelete", "staleDelete"}
  /\ DeleteFiles
  /\ sweep' = IF sweep = "expiredDelete" THEN "expiredMark" ELSE "staleMark"
  /\ UNCHANGED doc /\ SweepUnchanged

ExpireOneMark ==
  /\ sweep = "expiredMark"
  /\ doc' = MarkOnce([MarkDeleted(doc) EXCEPT !.deletionReason = "expired"])
  /\ sweep' = "stale"
  /\ UNCHANGED <<r2, faults>> /\ SweepUnchanged

FinalizeStaleBurnMark ==
  /\ sweep = "staleMark"
  /\ doc' = MarkOnce([MarkDeleted(doc) EXCEPT !.deletionReason = "burn",
                                              !.burnFinalizedAt = TRUE])
  /\ sweep' = "idle"
  /\ UNCHANGED <<r2, faults>> /\ SweepUnchanged

(* The update throws; the error is logged and the pass goes on.            *)
SweepMarkFails ==
  /\ sweep \in {"expiredMark", "staleMark"}
  /\ Fault
  /\ sweep' = IF sweep = "expiredMark" THEN "stale" ELSE "idle"
  /\ UNCHANGED <<doc, r2>> /\ SweepUnchanged

--------------------------------------------------------------------------------
(* Time and the process.                                                   *)

ExpiryPasses ==
  /\ ~expired
  /\ expired' = TRUE
  /\ UNCHANGED <<doc, r2, sweep, faults>>
  /\ UNCHANGED requestVars /\ UNCHANGED history

IdlePeriodPasses ==
  /\ doc.lastActive = "recent"
  /\ doc' = [doc EXCEPT !.lastActive = "idle"]
  /\ UNCHANGED <<r2, expired, sweep, faults>>
  /\ UNCHANGED requestVars /\ UNCHANGED history

Terminal == {"rejected", "failed", "done"}

Crash ==
  /\ Fault
  /\ pc' = [r \in Requests |->
              IF pc[r] \in Terminal \cup {"idle"} THEN pc[r] ELSE "failed"]
  /\ sweep' = "idle"
  /\ UNCHANGED <<doc, r2, expired, req, snap>> /\ UNCHANGED history

ClaimBurnDownload(r) ==
  ClaimAsOwner(r) \/ ClaimDenied(r) \/ ClaimOpen(r) \/ ClaimAfterLostRace(r)

RequestStep(r) ==
  \/ \E q \in Profiles : FindTransfer(r, q)
  \/ RejectUnavailable(r) \/ RejectPassword(r) \/ Admit(r)
  \/ ClaimBurnDownload(r)
  \/ AnswerHead(r) \/ RejectRange(r) \/ HeadPreview(r) \/ CompletePreview(r)
  \/ OpenStream(r) \/ CompleteStream(r) \/ AbortStream(r)
  \/ FinalizeDownload(r)
  \/ BurnFinalizeCheck(r) \/ BurnFinalizeDelete(r) \/ BurnFinalizeMark(r)
  \/ CancelCheck(r) \/ CancelMark(r) \/ CancelDelete(r)

RunCleanup ==
  \/ SelectExpired \/ SelectStaleBurn \/ SweepDelete
  \/ ExpireOneMark \/ FinalizeStaleBurnMark \/ SweepMarkFails

Next ==
  \/ \E r \in Requests : RequestStep(r)
  \/ RunCleanup
  \/ ExpiryPasses \/ IdlePeriodPasses
  \/ Crash

Spec == Init /\ [][Next]_vars

(* node-cron starts a pass every five minutes and a pass runs to its end;  *)
(* the clock of the idle cut-off moves; a handler that has taken on a      *)
(* deletion is run to its end by the event loop, unless the server         *)
(* crashes.  Nothing is assumed of clients, streams or the expiry date.    *)
Fairness ==
  /\ WF_vars(RunCleanup)
  /\ WF_vars(IdlePeriodPasses)
  /\ \A r \in Requests :
       WF_vars(BurnFinalizeDelete(r) \/ BurnFinalizeMark(r) \/ CancelDelete(r))

FairSpec == Spec /\ Fairness

--------------------------------------------------------------------------------
(* Properties.                                                             *)

Steps ==
  Kinds \cup Terminal \cup
  { "idle", "claim", "reclaim", "head", "stream", "streaming", "finalize",
    "burnDelete", "burnMark", "cancelMark", "cancelDelete" }

SweepSteps ==
  { "idle", "expiredDelete", "expiredMark", "stale", "staleDelete", "staleMark" }

Docs ==
  [ burn: BOOLEAN, isDeleted: BOOLEAN, deletionReason: DeletionReasons,
    cancelledAt: BOOLEAN, burnFinalizedAt: BOOLEAN,
    claimantToken: Tokens \cup {"none"}, burnClaimOwner: Fingers \cup {"none"},
    lastActive: {"never", "recent", "idle"}, secrets: BOOLEAN,
    downloadCount: Nat, sessions: SUBSET Sessions ]

Views ==
  [ isDeleted: BOOLEAN, claimantToken: Tokens \cup {"none"},
    burnClaimOwner: Fingers \cup {"none"}, secrets: BOOLEAN,
    sessions: SUBSET Sessions ]

(* Every variable keeps the shape the code gives it.                       *)
TypeOK ==
  /\ doc \in Docs
  /\ r2 \subseteq Files
  /\ expired \in BOOLEAN
  /\ pc \in [Requests -> Steps]
  /\ req \in [Requests -> Profiles \cup {NoRequest}]
  /\ snap \in [Requests -> Views]
  /\ claimers \subseteq Requests
  /\ served \subseteq Requests
  /\ sweep \in SweepSteps
  /\ faults \in 0..MaxFaults

(* Whatever clients send a claimant token that is not empty.               *)
TokensAreSent == \A q \in Profiles : q.token # "none"

(* README, "claimed exactly once": however many downloads race on copies   *)
(* of the document that show it unclaimed, at most one of them is answered *)
(* by the claiming update of claimBurnDownload.                            *)
SingleClaim == \A a, b \in claimers : a = b

(* Burn-finalize, cancel, expiry and the stale sweep race for one document *)
(* and only one of them ever writes its marks: the guard isDeleted: false  *)
(* of each update decides, whatever the handlers read before.              *)
SingleCauseOfDeletion ==
  LET hasExpired == doc.deletionReason = "expired" IN
  /\ doc.isDeleted <=> doc.cancelledAt \/ doc.burnFinalizedAt \/ hasExpired
  /\ ~(doc.cancelledAt /\ doc.burnFinalizedAt)
  /\ hasExpired => ~doc.cancelledAt /\ ~doc.burnFinalizedAt

Marking ==
  \/ \E r \in Requests : pc[r] = "burnMark"
  \/ sweep \in {"expiredMark", "staleMark"}

(* Barring faults, objects disappear from R2 under a transfer that is not  *)
(* yet deleted only in the moment before the same handler marks it.        *)
FilesOutliveTheTransfer ==
  r2 # Files => doc.isDeleted \/ Marking \/ faults > 0

(* Barring faults, a deleted transfer leaves no object behind, except      *)
(* while the cancel that marked it first is still deleting them.           *)
NothingIsOrphaned ==
  doc.isDeleted =>
    \/ r2 = {}
    \/ \E r \in Requests : pc[r] = "cancelDelete"
    \/ faults > 0

ReceiverStreams ==
  { r \in served : req[r].kind = "download" /\ req[r].role # "sender" }

(* The download count covers every recorded session and never exceeds the  *)
(* receivers' completed streams, although each finalizeDownload decides on *)
(* its own stale copy of downloadSessions.                                 *)
CountMatchesDownloads ==
  /\ Cardinality(doc.sessions) <= doc.downloadCount
  /\ doc.downloadCount <= Cardinality(ReceiverStreams)

(* The stale-burn sweep alone gets rid of a claimed transfer: its claimant *)
(* may vanish, the server may crash in the middle of burn-finalize and the *)
(* expiry date may be far away.                                            *)
ClaimedTransferIsReaped == (doc.burn /\ IsClaimed(doc)) ~> doc.isDeleted

(* An expired transfer is deleted in the end, also when an update or a     *)
(* server failed half-way through a pass.                                  *)
ExpiredTransferIsReaped == expired ~> doc.isDeleted

(* Barring faults, the objects of a deleted transfer go away, also when    *)
(* the sender cancels.                                                     *)
DeletedFilesAreRemoved == doc.isDeleted ~> (r2 = {} \/ faults > 0)

(* The abstract promise, under the tokens that requests carry: downloads   *)
(* that were completed, previews that were asked for on a copy of the      *)
(* document that allows them, and previews that were completed.  What the  *)
(* sender is shown of its own transfer is no part of it.                   *)
ReceiverServed(r) ==
  /\ r \in served
  /\ doc.burn
  /\ req[r].kind = "download"
  /\ req[r].role # "sender"

ReceiverPreview(r) ==
  /\ doc.burn
  /\ req[r].kind = "preview"
  /\ req[r].role = "receiver"

MayBeShown(r) ==
  /\ ~snap[r].isDeleted
  /\ snap[r].claimantToken \in {"none", req[r].token}

ReceiverAsked(r) == pc[r] # "idle" /\ ReceiverPreview(r) /\ MayBeShown(r)
ReceiverShown(r) == r \in served /\ ReceiverPreview(r)

ServedTokens == { req[r].token : r \in { x \in Requests : ReceiverServed(x) } }
AskedTokens == { req[r].token : r \in { x \in Requests : ReceiverAsked(x) } }
ShownTokens == { req[r].token : r \in { x \in Requests : ReceiverShown(x) } }

Promise == INSTANCE ClaimOnce WITH
  owner <- doc.claimantToken, served <- ServedTokens,
  asked <- AskedTokens, shown <- ShownTokens, closed <- doc.isDeleted

(* Downloading, previewing and deleting a burn transfer implement          *)
(* ClaimOnce: one owner, downloads for the owner alone, previews for the   *)
(* owner and for those who asked on a copy read before any claim, no claim *)
(* after the end.                                                          *)
ImplementsClaimOnce == Promise!Spec

--------------------------------------------------------------------------------
(* The inductive strengthening of SingleClaim and of the refinement.       *)

(* The secrets go with the deletion; an owner is recorded with its token.  *)
Whole(v) ==
  /\ v.secrets <=> ~v.isDeleted
  /\ v.claimantToken = "none" => v.burnClaimOwner = "none"

Admitted == {"claim", "reclaim", "head", "stream", "streaming", "finalize"}

(* A receiver that was let through by the claim.                           *)
HoldsClaim(r) ==
  /\ doc.burn
  /\ req[r].kind = "download"
  /\ req[r].role # "sender"
  /\ pc[r] \in {"stream", "streaming", "finalize"} \/ r \in served

(* A receiver whose preview was let through.                               *)
HoldsPreview(r) ==
  /\ ReceiverPreview(r)
  /\ pc[r] \in {"head", "stream", "streaming"} \/ r \in served

(* When tokens are sent, a token once seen in a copy is the token of the   *)
(* document, and whoever was let through carries it; a preview was let     *)
(* through on its own copy, which it keeps.                                *)
ClaimInv ==
  /\ Whole(doc)
  /\ \A r \in Requests :
       /\ Whole(snap[r])
       /\ snap[r].claimantToken # "none" =>
            doc.claimantToken = snap[r].claimantToken
       /\ pc[r] # "idle" => req[r] \in Profiles
       /\ pc[r] = "idle" => r \notin served
       /\ pc[r] \in Kinds => req[r].kind = pc[r]
       /\ pc[r] = "head" => req[r].kind = "preview"
       /\ pc[r] \in {"claim", "reclaim"} => req[r].kind = "download"
       /\ pc[r] \in Admitted => snap[r].secrets
       /\ HoldsClaim(r) => doc.claimantToken = req[r].token
       /\ HoldsPreview(r) => MayBeShown(r)
  /\ claimers # {} => doc.claimantToken # "none"
  /\ SingleClaim

(* The strengthening of FilesOutliveTheTransfer and NothingIsOrphaned.     *)
FilesInv ==
  /\ FilesOutliveTheTransfer
  /\ NothingIsOrphaned
  /\ Marking => r2 = {} \/ faults > 0
  /\ \A r \in Requests : pc[r] = "cancelDelete" => doc.isDeleted

(* The strengthening of CountMatchesDownloads: no copy is ahead of the      *)
(* document, and a stream that is about to be counted is not counted yet.  *)
MayBeCounted == { r \in ReceiverStreams : pc[r] # "finalize" }

CountInv ==
  /\ IsFiniteSet(doc.sessions) /\ IsFiniteSet(served)
  /\ Cardinality(doc.sessions) <= doc.downloadCount
  /\ doc.downloadCount <= Cardinality(MayBeCounted)
  /\ \A r \in Requests :
       /\ snap[r].sessions \subseteq doc.sessions
       /\ r \in served => pc[r] \in Terminal \cup {"finalize"}
       /\ pc[r] = "finalize" => r \in ReceiverStreams
================================================================================
