-------------------------- MODULE BurnDownload_proofs --------------------------
(***************************************************************************)
(* Theorems about BurnDownload, for any set of requests, tokens, files and *)
(* request profiles and any bound on faults.                               *)
(***************************************************************************)
EXTENDS BurnDownload, FiniteSetTheorems, TLAPS

(* Marking a document deleted, with any marks, keeps its type.             *)
LEMMA MarkedDocs ==
  ASSUME doc \in Docs
  PROVE  /\ [MarkDeleted(doc) EXCEPT !.burnFinalizedAt = TRUE,
                                     !.lastActive = "recent"] \in Docs
         /\ [MarkDeleted(doc) EXCEPT !.cancelledAt = TRUE,
                                     !.deletionReason = "manual"] \in Docs
         /\ [MarkDeleted(doc) EXCEPT !.deletionReason = "expired"] \in Docs
         /\ [MarkDeleted(doc) EXCEPT !.deletionReason = "burn",
                                     !.burnFinalizedAt = TRUE] \in Docs
BY DEF Docs, MarkDeleted, DeletionReasons

LEMMA ViewOfDocs == ASSUME NEW d \in Docs PROVE View(d) \in Views
BY DEF Docs, Views, View

(* A request profile in use has the types of AllProfiles.                  *)
LEMMA RequestTypes ==
  ASSUME TypeOK, NEW r \in Requests
  PROVE  /\ req[r].token \in Tokens \cup {"none"}
         /\ req[r].finger \in Fingers \cup {"none"}
         /\ req[r].session \in Sessions \cup {"none"}
         /\ req[r].want \subseteq Files
         /\ req[r].kind \in Kinds
<1>1. req[r] \in Profiles \cup {NoRequest}
  BY DEF TypeOK
<1>2. CASE req[r] \in Profiles
  <2>1. req[r] \in AllProfiles
    BY <1>2, ConstantsAreSound DEF ConstantsAreSound
  <2>2. QED
    BY <2>1 DEF AllProfiles
<1>3. CASE req[r] = NoRequest
  <2>1. /\ NoRequest.token = "none" /\ NoRequest.finger = "none"
        /\ NoRequest.session = "none" /\ NoRequest.want = {}
        /\ NoRequest.kind = "download"
    BY DEF NoRequest
  <2>2. QED
    BY <1>3, <2>1 DEF Kinds
<1>4. QED
  BY <1>1, <1>2, <1>3

(* A fault keeps the bound; deleting objects never adds one.               *)
LEMMA FaultType ==
  ASSUME TypeOK, Fault
  PROVE  /\ faults' \in 0..MaxFaults
         /\ faults' > 0
BY ConstantsAreSound DEF ConstantsAreSound, Fault, TypeOK

LEMMA DeleteFilesType ==
  ASSUME TypeOK, DeleteFiles
  PROVE  /\ r2' \subseteq Files
         /\ faults' \in 0..MaxFaults
         /\ r2' = {} \/ faults' > 0
         /\ faults > 0 => faults' > 0
<1>1. CASE r2' = {} /\ UNCHANGED faults
  BY <1>1 DEF TypeOK
<1>2. CASE \E left \in SUBSET r2 : left # {} /\ r2' = left /\ Fault
  BY <1>2, FaultType DEF TypeOK
<1>3. QED
  BY <1>1, <1>2 DEF DeleteFiles

LEMMA InitTypeOK == Init => TypeOK
<1> SUFFICES ASSUME Init PROVE TypeOK
  OBVIOUS
<1>1. ASSUME NEW burn \in BOOLEAN PROVE NewTransfer(burn) \in Docs
  BY DEF Docs, NewTransfer, DeletionReasons
<1>2. View(NewTransfer(FALSE)) \in Views
  BY <1>1, ViewOfDocs
<1>3. 0 \in 0..MaxFaults
  BY ConstantsAreSound DEF ConstantsAreSound
<1>4. QED
  BY <1>1, <1>2, <1>3 DEF Init, TypeOK, Steps, Terminal, SweepSteps

(* The step lemma, first for the requests.                                 *)
LEMMA RequestTypeOK ==
  ASSUME TypeOK, NEW r \in Requests, RequestStep(r)
  PROVE  TypeOK'
<1> USE DEF Goto, history, Steps, Terminal, Kinds
<1>1. ASSUME NEW q \in Profiles, FindTransfer(r, q) PROVE TypeOK'
  <2>1. View(doc) \in Views
    BY ViewOfDocs DEF TypeOK
  <2>2. q.kind \in Kinds
    BY ConstantsAreSound DEF ConstantsAreSound, AllProfiles
  <2>3. QED
    BY <1>1, <2>1, <2>2 DEF FindTransfer, TypeOK
<1>2. CASE RejectUnavailable(r)
  BY <1>2 DEF RejectUnavailable, TypeOK
<1>3. CASE RejectPassword(r)
  BY <1>3 DEF RejectPassword, TypeOK
<1>4. CASE Admit(r)
  BY <1>4 DEF Admit, StreamOr404, TypeOK
<1>5. CASE ClaimAsOwner(r)
  <2>1. doc' \in Docs
    BY <1>5 DEF ClaimAsOwner, TypeOK, Docs
  <2>2. View(doc') \in Views
    BY <2>1, ViewOfDocs
  <2>3. QED
    BY <1>5, <2>1, <2>2 DEF ClaimAsOwner, Proceed, StreamOr404, TypeOK
<1>6. CASE ClaimDenied(r)
  BY <1>6 DEF ClaimDenied, TypeOK
<1>7. CASE ClaimOpen(r)
  <2>1. req[r].token \in Tokens \cup {"none"} /\ req[r].finger \in Fingers \cup {"none"}
    BY RequestTypes
  <2>2. doc' \in Docs
    BY <1>7, <2>1 DEF ClaimOpen, ClaimUpdate, TypeOK, Docs
  <2>3. View(doc') \in Views
    BY <2>2, ViewOfDocs
  <2>4. QED
    BY <1>7, <2>2, <2>3 DEF ClaimOpen, Proceed, StreamOr404, TypeOK
<1>8. CASE ClaimAfterLostRace(r)
  <2>1. doc' \in Docs
    BY <1>8 DEF ClaimAfterLostRace, TypeOK, Docs
  <2>2. View(doc') \in Views
    BY <2>1, ViewOfDocs
  <2>3. QED
    BY <1>8, <2>1, <2>2 DEF ClaimAfterLostRace, Proceed, StreamOr404, TypeOK
<1>9. CASE OpenStream(r) \/ AnswerHead(r) \/ RejectRange(r) \/ HeadPreview(r)
  BY <1>9 DEF OpenStream, AnswerHead, RejectRange, HeadPreview, TypeOK
<1>10. CASE CompleteStream(r) \/ CompletePreview(r)
  BY <1>10 DEF CompleteStream, CompletePreview, TypeOK
<1>11. CASE AbortStream(r)
  BY <1>11 DEF AbortStream, TypeOK
<1>12. CASE FinalizeDownload(r)
  <2>1. SessionToRecord(r) \subseteq Sessions
    BY RequestTypes DEF SessionToRecord
  <2>2. PICK n \in Nat, l \in {"never", "recent", "idle"} :
          doc' = [doc EXCEPT !.downloadCount = n,
                             !.sessions = @ \cup SessionToRecord(r),
                             !.lastActive = l]
    <3>1. doc.downloadCount \in Nat /\ doc.lastActive \in {"never", "recent", "idle"}
      BY DEF TypeOK, Docs
    <3>2. (IF AlreadyCounted(r) THEN doc.downloadCount
                                ELSE doc.downloadCount + 1) \in Nat
      BY <3>1
    <3>3. (IF doc.burn THEN "recent" ELSE doc.lastActive)
            \in {"never", "recent", "idle"}
      BY <3>1
    <3>4. QED
      BY <1>12, <3>2, <3>3 DEF FinalizeDownload
  <2>3. doc' \in Docs
    BY <2>1, <2>2 DEF TypeOK, Docs
  <2>4. QED
    BY <1>12, <2>3 DEF FinalizeDownload, TypeOK
<1>13. CASE BurnFinalizeCheck(r)
  BY <1>13 DEF BurnFinalizeCheck, TypeOK
<1>14. CASE BurnFinalizeDelete(r)
  BY <1>14, DeleteFilesType DEF BurnFinalizeDelete, TypeOK
<1>15. CASE BurnFinalizeMark(r)
  <2>1. doc' \in Docs
    BY <1>15, MarkedDocs DEF BurnFinalizeMark, MarkOnce, TypeOK
  <2>2. QED
    BY <1>15, <2>1 DEF BurnFinalizeMark, TypeOK
<1>16. CASE CancelCheck(r)
  BY <1>16 DEF CancelCheck, TypeOK
<1>17. CASE CancelMark(r)
  <2>1. doc' \in Docs
    BY <1>17, MarkedDocs DEF CancelMark, TypeOK
  <2>2. QED
    BY <1>17, <2>1 DEF CancelMark, TypeOK
<1>18. CASE CancelDelete(r)
  BY <1>18, DeleteFilesType DEF CancelDelete, TypeOK
<1>19. QED
  BY <1>1, <1>2, <1>3, <1>4, <1>5, <1>6, <1>7, <1>8, <1>9, <1>10, <1>11, <1>12,
     <1>13, <1>14, <1>15, <1>16, <1>17, <1>18 DEF RequestStep, ClaimBurnDownload

(* Then for the cleanup job, the clock and the crash.                      *)
LEMMA RunCleanupTypeOK == ASSUME TypeOK, RunCleanup PROVE TypeOK'
<1> USE DEF SweepUnchanged, history, SweepSteps
<1>1. CASE SelectExpired
  BY <1>1 DEF SelectExpired, TypeOK
<1>2. CASE SelectStaleBurn
  BY <1>2 DEF SelectStaleBurn, TypeOK
<1>3. CASE SweepDelete
  BY <1>3, DeleteFilesType DEF SweepDelete, TypeOK
<1>4. CASE ExpireOneMark
  <2>1. doc' \in Docs
    BY <1>4, MarkedDocs DEF ExpireOneMark, MarkOnce, TypeOK
  <2>2. QED
    BY <1>4, <2>1 DEF ExpireOneMark, TypeOK
<1>5. CASE FinalizeStaleBurnMark
  <2>1. doc' \in Docs
    BY <1>5, MarkedDocs DEF FinalizeStaleBurnMark, MarkOnce, TypeOK
  <2>2. QED
    BY <1>5, <2>1 DEF FinalizeStaleBurnMark, TypeOK
<1>6. CASE SweepMarkFails
  BY <1>6, FaultType DEF SweepMarkFails, TypeOK
<1>7. QED
  BY <1>1, <1>2, <1>3, <1>4, <1>5, <1>6 DEF RunCleanup

LEMMA NextTypeOK == TypeOK /\ [Next]_vars => TypeOK'
<1> SUFFICES ASSUME TypeOK, [Next]_vars PROVE TypeOK'
  OBVIOUS
<1>1. CASE \E r \in Requests : RequestStep(r)
  BY <1>1, RequestTypeOK
<1>2. CASE RunCleanup
  BY <1>2, RunCleanupTypeOK
<1>3. CASE ExpiryPasses
  BY <1>3 DEF ExpiryPasses, requestVars, history, TypeOK
<1>4. CASE IdlePeriodPasses
  <2>1. doc' \in Docs
    BY <1>4 DEF IdlePeriodPasses, TypeOK, Docs
  <2>2. QED
    BY <1>4, <2>1 DEF IdlePeriodPasses, requestVars, history, TypeOK
<1>5. CASE Crash
  BY <1>5, FaultType
     DEF Crash, history, Steps, SweepSteps, Terminal, TypeOK
<1>6. CASE UNCHANGED vars
  BY <1>6 DEF vars, TypeOK
<1>7. QED
  BY <1>1, <1>2, <1>3, <1>4, <1>5, <1>6 DEF Next

(* Every variable keeps its type in every reachable state.                 *)
THEOREM TypeCorrect == Spec => []TypeOK
BY InitTypeOK, NextTypeOK, PTL DEF Spec
--------------------------------------------------------------------------------
(* Deletion.                                                               *)

(* An update that leaves the marks of the document alone.                  *)
SameMarks ==
  /\ doc'.isDeleted = doc.isDeleted
  /\ doc'.cancelledAt = doc.cancelledAt
  /\ doc'.burnFinalizedAt = doc.burnFinalizedAt
  /\ doc'.deletionReason = doc.deletionReason

LEMMA NextSingleCause ==
  TypeOK /\ SingleCauseOfDeletion /\ [Next]_vars => SingleCauseOfDeletion'
<1> SUFFICES ASSUME TypeOK, SingleCauseOfDeletion, [Next]_vars
             PROVE  SingleCauseOfDeletion'
  OBVIOUS
<1>0. doc \in Docs
  BY DEF TypeOK
<1>1. ASSUME SameMarks PROVE SingleCauseOfDeletion'
  BY <1>1 DEF SameMarks, SingleCauseOfDeletion
<1>2. ASSUME UNCHANGED doc PROVE SingleCauseOfDeletion'
  BY <1>2 DEF SingleCauseOfDeletion
<1>3. ASSUME NEW r \in Requests, RequestStep(r) PROVE SingleCauseOfDeletion'
  <2>1. CASE ClaimAsOwner(r) \/ ClaimOpen(r) \/ ClaimAfterLostRace(r)
    <3>1. SameMarks
      BY <1>0, <2>1
         DEF ClaimAsOwner, ClaimOpen, ClaimAfterLostRace, ClaimUpdate, SameMarks, Docs
    <3>2. QED
      BY <1>1, <3>1
  <2>2. CASE FinalizeDownload(r)
    <3>1. SameMarks
      BY <1>0, <2>2 DEF FinalizeDownload, SameMarks, Docs
    <3>2. QED
      BY <1>1, <3>1
  <2>3. CASE BurnFinalizeMark(r)
    BY <1>0, <2>3
       DEF BurnFinalizeMark, MarkOnce, MarkDeleted, Docs, SingleCauseOfDeletion
  <2>4. CASE CancelMark(r)
    BY <1>0, <2>4 DEF CancelMark, MarkDeleted, Docs, SingleCauseOfDeletion
  <2>5. QED
    BY <1>2, <1>3, <2>1, <2>2, <2>3, <2>4
       DEF RequestStep, ClaimBurnDownload, FindTransfer, RejectUnavailable,
           RejectPassword, Admit, ClaimDenied, OpenStream, CompleteStream,
           AbortStream, AnswerHead, RejectRange, HeadPreview, CompletePreview,
           BurnFinalizeCheck, BurnFinalizeDelete, CancelCheck, CancelDelete
<1>4. CASE RunCleanup
  <2>1. CASE ExpireOneMark
    BY <1>0, <2>1
       DEF ExpireOneMark, MarkOnce, MarkDeleted, Docs, SingleCauseOfDeletion
  <2>2. CASE FinalizeStaleBurnMark
    BY <1>0, <2>2
       DEF FinalizeStaleBurnMark, MarkOnce, MarkDeleted, Docs, SingleCauseOfDeletion
  <2>3. QED
    BY <1>2, <1>4, <2>1, <2>2
       DEF RunCleanup, SelectExpired, SelectStaleBurn, SweepDelete, SweepMarkFails
<1>5. CASE IdlePeriodPasses
  <2>1. SameMarks
    BY <1>0, <1>5 DEF IdlePeriodPasses, SameMarks, Docs
  <2>2. QED
    BY <1>1, <2>1
<1>6. CASE ExpiryPasses \/ Crash \/ UNCHANGED vars
  BY <1>2, <1>6 DEF ExpiryPasses, Crash, vars
<1>7. QED
  BY <1>3, <1>4, <1>5, <1>6 DEF Next

(* One cause of deletion, whoever races for it: the updates of burning,    *)
(* cancelling, expiring and the stale sweep never overwrite each other.    *)
THEOREM DeletedOnce == Spec => []SingleCauseOfDeletion
<1>1. Init => SingleCauseOfDeletion
  BY DEF Init, NewTransfer, SingleCauseOfDeletion
<1>2. QED
  BY <1>1, TypeCorrect, NextSingleCause, PTL DEF Spec
--------------------------------------------------------------------------------
(* The claim.                                                              *)

(* The steps after which a request holds nothing it did not hold before.   *)
Exits ==
  Terminal \cup { "reclaim", "burnDelete", "burnMark", "cancelMark", "cancelDelete" }

(* The document keeps its claimant.                                        *)
SameClaimant ==
  /\ doc'.claimantToken = doc.claimantToken
  /\ doc'.burn = doc.burn
  /\ Whole(doc')

LEMMA HarmlessStep ==
  ASSUME TypeOK, ClaimInv, SameClaimant,
         NEW r \in Requests, pc[r] # "idle",
         NEW step \in Exits, Goto(r, step),
         step = "reclaim" => pc[r] = "claim",
         UNCHANGED <<req, snap, claimers, served>>
  PROVE  ClaimInv'
<1>1. pc' \in [Requests -> Steps] /\ pc'[r] = step
      /\ \A x \in Requests : x # r => pc'[x] = pc[x]
  BY DEF TypeOK, Goto, Exits, Steps, Terminal
<1>2. \A x \in Requests : HoldsClaim(x)' => HoldsClaim(x)
  BY <1>1 DEF HoldsClaim, SameClaimant, Exits, Terminal
<1>3. \A x \in Requests : HoldsPreview(x)' => HoldsPreview(x)
  BY <1>1 DEF HoldsPreview, ReceiverPreview, SameClaimant, Exits, Terminal
<1>4. \A x \in Requests : MayBeShown(x)' <=> MayBeShown(x)
  BY DEF MayBeShown
<1>5. pc'[r] \notin Kinds \cup {"idle", "head", "claim"}
  BY <1>1 DEF Exits, Terminal, Kinds
<1>6. ASSUME NEW x \in Requests
      PROVE  /\ pc'[x] \in Kinds \cup {"idle", "head", "claim"} => pc'[x] = pc[x]
             /\ pc'[x] \in Admitted => pc[x] \in Admitted
             /\ pc'[x] = "reclaim" /\ pc[x] # "reclaim" => pc[x] = "claim"
  BY <1>1, <1>5 DEF Exits, Terminal, Admitted
<1>7. QED
  BY <1>1, <1>2, <1>3, <1>4, <1>6 DEF ClaimInv, SingleClaim, SameClaimant

LEMMA SystemStep ==
  ASSUME TypeOK, ClaimInv, SameClaimant, UNCHANGED <<req, snap, claimers, served>>,
         \A x \in Requests : pc'[x] = pc[x] \/ (pc[x] # "idle" /\ pc'[x] = "failed")
  PROVE  ClaimInv'
<1>1. \A x \in Requests : HoldsClaim(x)' => HoldsClaim(x)
  BY DEF HoldsClaim, SameClaimant
<1>2. \A x \in Requests : HoldsPreview(x)' => HoldsPreview(x)
  BY DEF HoldsPreview, ReceiverPreview, SameClaimant
<1>3. \A x \in Requests : MayBeShown(x)' <=> MayBeShown(x)
  BY DEF MayBeShown
<1>4. QED
  BY <1>1, <1>2, <1>3 DEF ClaimInv, SingleClaim, SameClaimant, Admitted, Kinds

(* A request is let through by the claim with the document's new claimant. *)
LEMMA ClaimStep ==
  ASSUME TypeOK, TokensAreSent, ClaimInv,
         NEW r \in Requests, pc[r] \in {"claim", "reclaim"},
         doc' \in Docs, doc'.burn = doc.burn, Whole(doc'), ~doc'.isDeleted,
         doc'.claimantToken = req[r].token,
         doc.claimantToken # "none" => doc'.claimantToken = doc.claimantToken,
         doc'.claimantToken # "none",
         Proceed(r), UNCHANGED <<req, served>>,
         \/ claimers' = claimers
         \/ claimers' = claimers \cup {r} /\ doc.claimantToken = "none"
  PROVE  ClaimInv'
<1>1. /\ pc' \in [Requests -> Steps]
      /\ pc'[r] \in {"rejected", "stream"}
      /\ req[r].kind = "download"
      /\ \A x \in Requests : x # r => pc'[x] = pc[x]
  BY DEF TypeOK, Proceed, Goto, StreamOr404, Steps, Terminal, ClaimInv
<1>2. /\ snap'[r] = View(doc')
      /\ \A x \in Requests : x # r => snap'[x] = snap[x]
  BY DEF TypeOK, Proceed
<1>3. /\ View(doc').claimantToken = doc'.claimantToken
      /\ View(doc').secrets /\ Whole(View(doc'))
  BY DEF View, Whole
<1>4. /\ Whole(snap'[r]) /\ snap'[r].secrets
      /\ snap'[r].claimantToken = doc'.claimantToken
  BY <1>2, <1>3
<1>5. \A x \in Requests : x # r /\ HoldsClaim(x)' => HoldsClaim(x)
  BY <1>1 DEF HoldsClaim
<1>6. ASSUME NEW x \in Requests, HoldsClaim(x)
      PROVE  doc'.claimantToken = req[x].token
  <2>1. doc.claimantToken = req[x].token /\ pc[x] # "idle" /\ req[x] \in Profiles
    BY <1>6 DEF ClaimInv, HoldsClaim, Admitted
  <2>2. req[x].token # "none"
    BY <2>1 DEF TokensAreSent
  <2>3. QED
    BY <2>1, <2>2
<1>7. ASSUME NEW x \in Requests
      PROVE  /\ Whole(snap'[x])
             /\ snap'[x].claimantToken # "none" =>
                  doc'.claimantToken = snap'[x].claimantToken
             /\ pc'[x] # "idle" => req'[x] \in Profiles
             /\ pc'[x] = "idle" => x \notin served'
             /\ pc'[x] \in Kinds => req'[x].kind = pc'[x]
             /\ pc'[x] = "head" => req'[x].kind = "preview"
             /\ pc'[x] \in {"claim", "reclaim"} => req'[x].kind = "download"
             /\ pc'[x] \in Admitted => snap'[x].secrets
             /\ HoldsClaim(x)' => doc'.claimantToken = req'[x].token
             /\ HoldsPreview(x)' => MayBeShown(x)'
  <2>1. CASE x = r
    <3>1. ~HoldsPreview(x)'
      BY <1>1, <2>1 DEF HoldsPreview, ReceiverPreview
    <3>2. QED
      BY <1>1, <1>4, <2>1, <3>1 DEF ClaimInv, Admitted, Kinds
  <2>2. CASE x # r
    <3>1. HoldsPreview(x)' => HoldsPreview(x) /\ (MayBeShown(x)' <=> MayBeShown(x))
      BY <1>1, <1>2, <2>2 DEF HoldsPreview, ReceiverPreview, MayBeShown
    <3>2. QED
      BY <1>1, <1>2, <1>5, <1>6, <2>2, <3>1 DEF ClaimInv
  <2>3. QED
    BY <2>1, <2>2
<1>8. SingleClaim' /\ (claimers' # {} => doc'.claimantToken # "none")
  BY DEF ClaimInv, SingleClaim
<1>9. QED
  BY <1>7, <1>8 DEF ClaimInv

LEMMA RequestClaimInv ==
  ASSUME TypeOK, TokensAreSent, ClaimInv, NEW r \in Requests, RequestStep(r)
  PROVE  ClaimInv'
<1>0. doc \in Docs /\ snap[r] \in Views /\ Whole(doc)
  BY DEF TypeOK, ClaimInv
<1>1. ASSUME UNCHANGED doc PROVE SameClaimant
  BY <1>1 DEF SameClaimant, ClaimInv
<1>2. pc[r] # "idle" => req[r].token # "none"
  BY DEF TokensAreSent, ClaimInv
<1>3. IsClaimed(snap[r]) <=> snap[r].claimantToken # "none"
  BY DEF IsClaimed, ClaimInv, Whole
<1>4. IsBurnClaimOwner(snap[r], req[r]) => doc.claimantToken = req[r].token
  BY <1>3 DEF IsBurnClaimOwner, ClaimInv
<1>5. ASSUME NEW step \in Exits, Goto(r, step), pc[r] # "idle",
             step = "reclaim" => pc[r] = "claim",
             UNCHANGED <<doc, req, snap, claimers, served>>
      PROVE  ClaimInv'
  BY <1>1, <1>5, HarmlessStep
<1> USE DEF history, Exits, Terminal
<1>6. ASSUME NEW q \in Profiles, FindTransfer(r, q) PROVE ClaimInv'
  <2>1. /\ pc' \in [Requests -> Steps]
        /\ pc'[r] = q.kind
        /\ req'[r] = q
        /\ snap'[r] = View(doc)
        /\ \A x \in Requests : x # r =>
             pc'[x] = pc[x] /\ req'[x] = req[x] /\ snap'[x] = snap[x]
    BY <1>6, RequestTypeOK DEF FindTransfer, Goto, TypeOK
  <2>2. q.kind \in Kinds
    BY ConstantsAreSound DEF ConstantsAreSound, AllProfiles
  <2>3. /\ View(doc).claimantToken = doc.claimantToken /\ Whole(View(doc))
    BY DEF View, Whole, ClaimInv
  <2>4. Whole(snap'[r]) /\ snap'[r].claimantToken = doc.claimantToken
    BY <2>1, <2>3
  <2>5. r \notin served /\ UNCHANGED <<doc, claimers, served>>
    BY <1>6 DEF FindTransfer, ClaimInv
  <2>6. ASSUME NEW x \in Requests, x # r PROVE HoldsClaim(x)' <=> HoldsClaim(x)
    BY <2>1, <2>5, <2>6 DEF HoldsClaim
  <2>7. ~HoldsClaim(r)' /\ ~HoldsPreview(r)'
    BY <2>1, <2>2, <2>5 DEF HoldsClaim, HoldsPreview, Kinds
  <2>8. ASSUME NEW x \in Requests, x # r
        PROVE  /\ HoldsPreview(x)' <=> HoldsPreview(x)
               /\ MayBeShown(x)' <=> MayBeShown(x)
    BY <2>1, <2>5, <2>8 DEF HoldsPreview, ReceiverPreview, MayBeShown
  <2>9. QED
    BY <2>1, <2>2, <2>4, <2>5, <2>6, <2>7, <2>8
       DEF ClaimInv, SingleClaim, Kinds, Admitted
<1>7. CASE \/ RejectUnavailable(r) \/ RejectPassword(r) \/ ClaimDenied(r)
           \/ AbortStream(r) \/ AnswerHead(r) \/ RejectRange(r)
  BY <1>5, <1>7
     DEF RejectUnavailable, RejectPassword, ClaimDenied, AbortStream, IsDownload,
         AnswerHead, RejectRange
<1>8. CASE Admit(r)
  <2>1. /\ pc[r] \in {"download", "preview"}
        /\ req[r].kind = pc[r]
        /\ ~snap[r].isDeleted /\ snap[r].secrets
        /\ UNCHANGED <<doc, req, snap, claimers, served>>
    BY <1>8 DEF Admit, IsDownload, IsUnavailable, ClaimInv, Whole, Kinds
  <2>2. ReceiverPreview(r) => MayBeShown(r)
    BY <1>3, <1>8, <2>1
       DEF Admit, IsUnavailable, ReceiverPreview, MayBeShown, IsOwnerViaQuery,
           ValidateOwnershipToken, IsBurnClaimOwner
  <2>3. PICK step \in {"claim", "rejected", "head", "stream"} :
          /\ Goto(r, step)
          /\ step = "claim" => pc[r] = "download"
          /\ step = "head" => pc[r] = "preview"
          /\ step = "stream" => pc[r] = "download" /\ (~doc.burn \/ req[r].role = "sender")
    BY <1>8, <2>1
       DEF Admit, StreamOr404, IsSenderRequest, ValidateOwnershipToken
  <2>4. /\ pc'[r] = step
        /\ \A x \in Requests : x # r => pc'[x] = pc[x]
    BY <2>3 DEF Goto, TypeOK
  <2>5. \A x \in Requests : HoldsClaim(x)' => HoldsClaim(x)
    BY <2>1, <2>3, <2>4 DEF HoldsClaim
  <2>6. ASSUME NEW x \in Requests, HoldsPreview(x)' PROVE MayBeShown(x)'
    <3>1. MayBeShown(x)' <=> MayBeShown(x)
      BY <2>1 DEF MayBeShown
    <3>2. x = r \/ HoldsPreview(x)
      BY <2>1, <2>4, <2>6 DEF HoldsPreview, ReceiverPreview
    <3>3. ReceiverPreview(x)
      BY <2>1, <2>6 DEF HoldsPreview, ReceiverPreview
    <3>4. QED
      BY <2>2, <3>1, <3>2, <3>3 DEF ClaimInv
  <2>7. QED
    BY <2>1, <2>3, <2>4, <2>5, <2>6 DEF ClaimInv, SingleClaim, Kinds
<1>9. CASE ClaimAsOwner(r)
  <2>1. CASE Claimable
    <3>1. /\ doc' \in Docs /\ Whole(doc') /\ ~doc'.isDeleted
          /\ doc'.burn = doc.burn /\ doc'.claimantToken = doc.claimantToken
      BY <1>0, <1>9, <2>1 DEF ClaimAsOwner, Claimable, Docs, Whole
    <3>2. /\ pc[r] = "claim" /\ Proceed(r) /\ UNCHANGED <<req, served, claimers>>
          /\ doc'.claimantToken = req[r].token
      BY <1>4, <1>9, <2>1, <3>1 DEF ClaimAsOwner
    <3>3. doc'.claimantToken # "none"
      BY <1>2, <3>2
    <3>4. QED
      BY <3>1, <3>2, <3>3, ClaimStep
  <2>2. CASE ~Claimable
    BY <1>5, <1>9, <2>2 DEF ClaimAsOwner
  <2>3. QED
    BY <2>1, <2>2
<1>10. CASE ClaimOpen(r)
  <2>1. CASE Claimable /\ UnclaimedFilter
    <3>1. req[r].token \in Tokens \cup {"none"}
          /\ req[r].finger \in Fingers \cup {"none"}
      BY RequestTypes
    <3>2. pc[r] # "idle" /\ doc' = ClaimUpdate(doc, req[r])
      BY <1>10, <2>1 DEF ClaimOpen
    <3>3. /\ doc' \in Docs /\ Whole(doc') /\ ~doc'.isDeleted
          /\ doc'.burn = doc.burn /\ doc'.claimantToken = req[r].token
      BY <1>0, <1>2, <2>1, <3>1, <3>2 DEF ClaimUpdate, Claimable, Docs, Whole
    <3>4. QED
      BY <1>2, <1>10, <2>1, <3>2, <3>3, ClaimStep DEF ClaimOpen, UnclaimedFilter
  <2>2. CASE ~(Claimable /\ UnclaimedFilter)
    BY <1>5, <1>10, <2>2 DEF ClaimOpen
  <2>3. QED
    BY <2>1, <2>2
<1>11. CASE ClaimAfterLostRace(r)
  <2>1. CASE Claimable /\ SameTokenFilter(r)
    <3>1. /\ doc' \in Docs /\ Whole(doc') /\ ~doc'.isDeleted
          /\ doc'.burn = doc.burn /\ doc'.claimantToken = doc.claimantToken
      BY <1>0, <1>11, <2>1 DEF ClaimAfterLostRace, Claimable, Docs, Whole
    <3>2. /\ pc[r] = "reclaim" /\ Proceed(r) /\ UNCHANGED <<req, served, claimers>>
          /\ doc'.claimantToken = req[r].token
      BY <1>11, <2>1, <3>1 DEF ClaimAfterLostRace, SameTokenFilter
    <3>3. doc'.claimantToken # "none"
      BY <1>2, <3>2
    <3>4. QED
      BY <3>1, <3>2, <3>3, ClaimStep
  <2>2. CASE ~(Claimable /\ SameTokenFilter(r))
    BY <1>5, <1>11, <2>2 DEF ClaimAfterLostRace
  <2>3. QED
    BY <2>1, <2>2
<1>12. CASE HeadPreview(r) \/ OpenStream(r) \/ CompleteStream(r) \/ CompletePreview(r)
  <2>1. /\ pc[r] \in {"head", "stream", "streaming"}
        /\ \E step \in {"stream", "streaming", "failed", "finalize", "done"} :
              Goto(r, step) /\ (step = "stream" => pc[r] = "head")
        /\ UNCHANGED <<doc, req, snap, claimers>>
        /\ served' = served \/ (served' = served \cup {r} /\ pc[r] = "streaming")
    BY <1>12 DEF HeadPreview, OpenStream, CompleteStream, CompletePreview
  <2>2. /\ pc'[r] \in {"stream", "streaming", "failed", "finalize", "done"}
        /\ pc'[r] = "stream" => pc[r] = "head"
        /\ \A x \in Requests : x # r => pc'[x] = pc[x]
    BY <2>1 DEF Goto, TypeOK
  <2>3. pc[r] = "head" => req[r].kind = "preview"
    BY DEF ClaimInv
  <2>4. \A x \in Requests : HoldsClaim(x)' => HoldsClaim(x)
    BY <2>1, <2>2, <2>3 DEF HoldsClaim
  <2>5. ASSUME NEW x \in Requests
        PROVE  /\ HoldsPreview(x)' => HoldsPreview(x)
               /\ MayBeShown(x)' <=> MayBeShown(x)
    BY <2>1, <2>2 DEF HoldsPreview, ReceiverPreview, MayBeShown
  <2>6. QED
    BY <2>1, <2>2, <2>4, <2>5 DEF ClaimInv, SingleClaim, Admitted, Kinds
<1>13. CASE FinalizeDownload(r)
  <2>1. SameClaimant
    BY <1>0, <1>13 DEF FinalizeDownload, SameClaimant, Docs, Whole
  <2>2. QED
    BY <1>13, <2>1, HarmlessStep DEF FinalizeDownload
<1>14. CASE BurnFinalizeCheck(r) \/ CancelCheck(r)
  BY <1>5, <1>14 DEF BurnFinalizeCheck, CancelCheck
<1>15. CASE BurnFinalizeDelete(r) \/ CancelDelete(r)
  BY <1>5, <1>15 DEF BurnFinalizeDelete, CancelDelete
<1>16. CASE BurnFinalizeMark(r)
  <2>1. SameClaimant
    BY <1>0, <1>16
       DEF BurnFinalizeMark, MarkOnce, MarkDeleted, SameClaimant, Docs, Whole
  <2>2. QED
    BY <1>16, <2>1, HarmlessStep DEF BurnFinalizeMark
<1>17. CASE CancelMark(r)
  <2>1. SameClaimant
    BY <1>0, <1>17 DEF CancelMark, MarkDeleted, SameClaimant, Docs, Whole
  <2>2. PICK step \in {"done", "cancelDelete"} : Goto(r, step)
    BY <1>17 DEF CancelMark
  <2>3. QED
    BY <1>17, <2>1, <2>2, HarmlessStep DEF CancelMark
<1>18. QED
  BY <1>6, <1>7, <1>8, <1>9, <1>10, <1>11, <1>12, <1>13, <1>14, <1>15, <1>16, <1>17
     DEF RequestStep, ClaimBurnDownload

LEMMA NextClaimInv ==
  ASSUME TokensAreSent, TypeOK, ClaimInv, [Next]_vars
  PROVE  ClaimInv'
<1>0. doc \in Docs
  BY DEF TypeOK
<1>1. ASSUME UNCHANGED doc PROVE SameClaimant
  BY <1>1 DEF SameClaimant, ClaimInv
<1>2. CASE \E r \in Requests : RequestStep(r)
  BY <1>2, RequestClaimInv
<1>3. CASE RunCleanup
  <2>1. SameClaimant
    <3>1. CASE ExpireOneMark
      BY <1>0, <3>1
         DEF ExpireOneMark, MarkOnce, MarkDeleted, SameClaimant, Docs, Whole, ClaimInv
    <3>2. CASE FinalizeStaleBurnMark
      BY <1>0, <3>2
         DEF FinalizeStaleBurnMark, MarkOnce, MarkDeleted, SameClaimant, Docs, Whole,
             ClaimInv
    <3>3. QED
      BY <1>1, <1>3, <3>1, <3>2
         DEF RunCleanup, SelectExpired, SelectStaleBurn, SweepDelete, SweepMarkFails
  <2>2. UNCHANGED <<pc, req, snap, claimers, served>>
    BY <1>3 DEF RunCleanup, SelectExpired, SelectStaleBurn, SweepDelete, ExpireOneMark,
                FinalizeStaleBurnMark, SweepMarkFails, SweepUnchanged, history
  <2>3. QED
    BY <2>1, <2>2, SystemStep
<1>4. CASE ExpiryPasses
  BY <1>1, <1>4, SystemStep DEF ExpiryPasses, requestVars, history
<1>5. CASE IdlePeriodPasses
  <2>1. SameClaimant
    BY <1>0, <1>5 DEF IdlePeriodPasses, SameClaimant, Docs, Whole, ClaimInv
  <2>2. QED
    BY <1>5, <2>1, SystemStep DEF IdlePeriodPasses, requestVars, history
<1>6. CASE Crash
  BY <1>1, <1>6, SystemStep DEF Crash, history, Terminal
<1>7. CASE UNCHANGED vars
  BY <1>1, <1>7, SystemStep DEF vars
<1>8. QED
  BY <1>2, <1>3, <1>4, <1>5, <1>6, <1>7 DEF Next

LEMMA InitClaimInv == Init => ClaimInv
<1> SUFFICES ASSUME Init PROVE ClaimInv
  OBVIOUS
<1>1. ASSUME NEW burn \in BOOLEAN PROVE Whole(NewTransfer(burn))
  BY DEF Whole, NewTransfer
<1>2. /\ Whole(View(NewTransfer(FALSE)))
      /\ View(NewTransfer(FALSE)).claimantToken = "none"
  BY DEF Whole, NewTransfer, View
<1>3. \A r \in Requests : snap[r] = View(NewTransfer(FALSE)) /\ pc[r] = "idle"
  BY DEF Init
<1>4. \A r \in Requests : Whole(snap[r]) /\ snap[r].claimantToken = "none"
  BY <1>2, <1>3
<1>5. Whole(doc) /\ claimers = {} /\ served = {}
  BY <1>1 DEF Init
<1>6. QED
  BY <1>3, <1>4, <1>5
     DEF ClaimInv, HoldsClaim, HoldsPreview, SingleClaim, Admitted, Kinds

(* The claim invariant, provided that no claimant token is empty.          *)
THEOREM ClaimIsConsistent ==
  ASSUME TokensAreSent
  PROVE  Spec => []ClaimInv
<1>1. TypeOK /\ ClaimInv /\ [Next]_vars => ClaimInv'
  BY NextClaimInv
<1>2. QED
  BY <1>1, InitClaimInv, TypeCorrect, PTL DEF Spec

(* A transfer is claimed once: however many requests race, one is answered *)
(* by the claiming update of claimBurnDownload.                            *)
THEOREM ClaimedOnce ==
  ASSUME TokensAreSent
  PROVE  Spec => []SingleClaim
<1>1. ClaimInv => SingleClaim
  BY DEF ClaimInv
<1>2. QED
  BY <1>1, ClaimIsConsistent, PTL

--------------------------------------------------------------------------------
(* The refinement.                                                         *)

LEMMA PromiseInit == Init => Promise!Init
<1> SUFFICES ASSUME Init PROVE Promise!Init
  OBVIOUS
<1>1. doc.claimantToken = "none" /\ doc.isDeleted = FALSE
  BY DEF Init, NewTransfer
<1>2. ServedTokens = {} /\ ShownTokens = {}
  BY DEF Init, ServedTokens, ReceiverServed, ShownTokens, ReceiverShown
<1>3. AskedTokens = {}
  BY DEF Init, AskedTokens, ReceiverAsked
<1>4. QED
  BY <1>1, <1>2, <1>3 DEF Promise!Init

(* Nothing is asked or handed out: requests under way keep what they asked *)
(* for, and previews the copy they were let through on.                    *)
SameService ==
  /\ served' = served
  /\ doc'.burn = doc.burn
  /\ \A r \in Requests :
       /\ pc[r] = "idle" <=> pc'[r] = "idle"
       /\ pc[r] # "idle" =>
            /\ req'[r] = req[r]
            /\ req[r].kind = "preview" => snap'[r] = snap[r]

SameTokens ==
  /\ ServedTokens' = ServedTokens
  /\ AskedTokens' = AskedTokens
  /\ ShownTokens' = ShownTokens

LEMMA SameTokensKept ==
  ASSUME TypeOK, ClaimInv, SameService PROVE SameTokens
<1>1. \A r \in served : r \in Requests /\ req'[r] = req[r]
  BY DEF SameService, ClaimInv, TypeOK
<1>2. ServedTokens' = ServedTokens
  <2>1. \A r \in Requests : ReceiverServed(r)' <=> ReceiverServed(r)
    BY <1>1 DEF ReceiverServed, SameService
  <2>2. \A r \in Requests : ReceiverServed(r) => req'[r] = req[r]
    BY <1>1 DEF ReceiverServed
  <2>3. QED
    BY <2>1, <2>2 DEF ServedTokens
<1>3. ShownTokens' = ShownTokens
  <2>1. \A r \in Requests : ReceiverShown(r)' <=> ReceiverShown(r)
    BY <1>1 DEF ReceiverShown, ReceiverPreview, SameService
  <2>2. \A r \in Requests : ReceiverShown(r) => req'[r] = req[r]
    BY <1>1 DEF ReceiverShown
  <2>3. QED
    BY <2>1, <2>2 DEF ShownTokens
<1>4. AskedTokens' = AskedTokens
  <2>1. \A r \in Requests : ReceiverAsked(r)' <=> ReceiverAsked(r)
    BY DEF ReceiverAsked, ReceiverPreview, MayBeShown, SameService
  <2>2. \A r \in Requests : ReceiverAsked(r) => req'[r] = req[r]
    BY DEF ReceiverAsked, SameService
  <2>3. QED
    BY <2>1, <2>2 DEF AskedTokens
<1>5. QED
  BY <1>2, <1>3, <1>4 DEF SameTokens

(* Leaving the claimant alone, a document is closed or stays as it is.     *)
LEMMA PromiseClose ==
  ASSUME TypeOK, ClaimInv, SameService, doc' \in Docs,
         doc'.claimantToken = doc.claimantToken,
         doc.isDeleted => doc'.isDeleted
  PROVE  [Promise!Next]_Promise!vars
<1>1. SameTokens
  BY SameTokensKept
<1>2. doc \in Docs
  BY DEF TypeOK
<1>3. CASE doc'.isDeleted = doc.isDeleted
  BY <1>1, <1>3 DEF Promise!vars, SameTokens
<1>4. CASE doc'.isDeleted # doc.isDeleted
  <2>1. ~doc.isDeleted /\ doc'.isDeleted
    BY <1>2, <1>4 DEF Docs
  <2>2. doc'.isDeleted = TRUE
    BY <1>2, <2>1 DEF Docs
  <2>3. Promise!Close
    BY <1>1, <2>1, <2>2 DEF Promise!Close, SameTokens
  <2>4. QED
    BY <2>3 DEF Promise!Next
<1>5. QED
  BY <1>3, <1>4

(* A request under way moves on; only a download takes a newer copy.       *)
LEMMA RequestService ==
  ASSUME TypeOK, NEW r \in Requests, NEW step, step # "idle", pc[r] # "idle",
         Goto(r, step), UNCHANGED <<req, served>>, doc'.burn = doc.burn,
         snap' = snap \/ (Proceed(r) /\ req[r].kind = "download")
  PROVE  SameService
<1>1. /\ pc'[r] = step
      /\ \A x \in Requests : x # r => pc'[x] = pc[x] /\ snap'[x] = snap[x]
  BY DEF Goto, Proceed, TypeOK
<1>2. req[r].kind = "preview" => snap'[r] = snap[r]
  OBVIOUS
<1>3. QED
  BY <1>1, <1>2 DEF SameService

(* Reading the transfer for a preview asks for it, when the copy allows.   *)
LEMMA PromiseAsk ==
  ASSUME TokensAreSent, TypeOK, ClaimInv, NEW r \in Requests,
         NEW q \in Profiles, FindTransfer(r, q)
  PROVE  [Promise!Next]_Promise!vars
<1>1. /\ pc[r] = "idle" /\ pc'[r] = q.kind /\ req'[r] = q /\ snap'[r] = View(doc)
      /\ \A x \in Requests : x # r =>
           pc'[x] = pc[x] /\ req'[x] = req[x] /\ snap'[x] = snap[x]
  BY DEF FindTransfer, Goto, TypeOK
<1>2. UNCHANGED <<doc, served>> /\ r \notin served
  BY <1>1 DEF FindTransfer, ClaimInv, history
<1>3. q.kind \in Kinds /\ q.token \in Tokens
  BY ConstantsAreSound DEF ConstantsAreSound, AllProfiles, TokensAreSent
<1>4. ServedTokens' = ServedTokens
  <2>1. \A x \in Requests : ReceiverServed(x)' <=> ReceiverServed(x)
    BY <1>1, <1>2 DEF ReceiverServed
  <2>2. \A x \in Requests : ReceiverServed(x) => req'[x] = req[x]
    BY <1>1, <1>2 DEF ReceiverServed
  <2>3. QED
    BY <2>1, <2>2 DEF ServedTokens
<1>5. ShownTokens' = ShownTokens
  <2>1. \A x \in Requests : ReceiverShown(x)' <=> ReceiverShown(x)
    BY <1>1, <1>2 DEF ReceiverShown, ReceiverPreview
  <2>2. \A x \in Requests : ReceiverShown(x) => req'[x] = req[x]
    BY <1>1, <1>2 DEF ReceiverShown
  <2>3. QED
    BY <2>1, <2>2 DEF ShownTokens
<1>6. ASSUME NEW x \in Requests, x # r
      PROVE  /\ ReceiverAsked(x)' <=> ReceiverAsked(x)
             /\ req'[x] = req[x]
  BY <1>1, <1>2, <1>6 DEF ReceiverAsked, ReceiverPreview, MayBeShown
<1>7. ~ReceiverAsked(r)
  BY <1>1 DEF ReceiverAsked
<1>8. CASE ReceiverAsked(r)'
  <2>1. AskedTokens' = AskedTokens \cup {q.token}
    BY <1>1, <1>6, <1>7, <1>8 DEF AskedTokens
  <2>2. ~doc.isDeleted /\ doc.claimantToken \in {"none", q.token}
    BY <1>1, <1>8 DEF ReceiverAsked, MayBeShown, View
  <2>3. Promise!Ask(q.token)
    BY <1>2, <1>4, <1>5, <2>1, <2>2 DEF Promise!Ask
  <2>4. QED
    BY <1>3, <2>3 DEF Promise!Next
<1>9. CASE ~ReceiverAsked(r)'
  <2>1. AskedTokens' = AskedTokens
    BY <1>6, <1>7, <1>9 DEF AskedTokens
  <2>2. QED
    BY <1>2, <1>4, <1>5, <2>1 DEF Promise!vars
<1>10. QED
  BY <1>8, <1>9

(* A completed stream serves its owner, or shows a preview asked for.      *)
LEMMA PromiseHandOut ==
  ASSUME TokensAreSent, TypeOK, ClaimInv, NEW r \in Requests,
         CompleteStream(r) \/ CompletePreview(r)
  PROVE  [Promise!Next]_Promise!vars
<1>1. /\ served' = served \cup {r} /\ UNCHANGED <<doc, req, snap>>
      /\ pc[r] = "streaming" /\ pc'[r] # "idle"
      /\ \A x \in Requests : x # r => pc'[x] = pc[x]
  BY DEF CompleteStream, CompletePreview, Goto, TypeOK
<1>2. req[r].token \in Tokens
  BY <1>1, RequestTypes DEF ClaimInv, TokensAreSent
<1>3. AskedTokens' = AskedTokens
  <2>1. \A x \in Requests : ReceiverAsked(x)' <=> ReceiverAsked(x)
    BY <1>1 DEF ReceiverAsked, ReceiverPreview, MayBeShown
  <2>2. QED
    BY <1>1, <2>1 DEF AskedTokens
<1>4. ASSUME NEW x \in Requests
      PROVE  /\ ReceiverServed(x)' <=> ReceiverServed(x) \/ (x = r /\ ReceiverServed(r)')
             /\ ReceiverShown(x)' <=> ReceiverShown(x) \/ (x = r /\ ReceiverShown(r)')
  BY <1>1 DEF ReceiverServed, ReceiverShown, ReceiverPreview
<1>5. ~ReceiverServed(r)' => ServedTokens' = ServedTokens
  BY <1>1, <1>4 DEF ServedTokens
<1>6. ~ReceiverShown(r)' => ShownTokens' = ShownTokens
  BY <1>1, <1>4 DEF ShownTokens
<1>7. CASE ReceiverServed(r)'
  <2>1. HoldsClaim(r) /\ ~ReceiverShown(r)'
    BY <1>1, <1>7 DEF HoldsClaim, ReceiverServed, ReceiverShown, ReceiverPreview
  <2>2. doc.claimantToken = req[r].token
    BY <2>1 DEF ClaimInv
  <2>3. ServedTokens' = ServedTokens \cup {req[r].token}
    BY <1>1, <1>4, <1>7 DEF ServedTokens
  <2>4. Promise!Serve(req[r].token)
    BY <1>1, <1>3, <1>6, <2>1, <2>2, <2>3 DEF Promise!Serve
  <2>5. QED
    BY <1>2, <2>4 DEF Promise!Next
<1>8. CASE ReceiverShown(r)'
  <2>1. HoldsPreview(r) /\ ~ReceiverServed(r)'
    BY <1>1, <1>8 DEF HoldsPreview, ReceiverServed, ReceiverShown, ReceiverPreview
  <2>2. ReceiverAsked(r)
    BY <1>1, <2>1 DEF ClaimInv, ReceiverAsked, HoldsPreview
  <2>3. req[r].token \in AskedTokens
    BY <2>2 DEF AskedTokens
  <2>4. ShownTokens' = ShownTokens \cup {req[r].token}
    BY <1>1, <1>4, <1>8 DEF ShownTokens
  <2>5. Promise!Show(req[r].token)
    BY <1>1, <1>3, <1>5, <2>1, <2>3, <2>4 DEF Promise!Show
  <2>6. QED
    BY <1>2, <2>5 DEF Promise!Next
<1>9. CASE ~ReceiverServed(r)' /\ ~ReceiverShown(r)'
  BY <1>1, <1>3, <1>5, <1>6, <1>9 DEF Promise!vars
<1>10. QED
  BY <1>7, <1>8, <1>9

LEMMA PromiseRequest ==
  ASSUME TokensAreSent, TypeOK, TypeOK', ClaimInv, NEW r \in Requests, RequestStep(r)
  PROVE  [Promise!Next]_Promise!vars
<1>0. doc \in Docs /\ doc' \in Docs
  BY DEF TypeOK
<1> USE DEF history
<1>1. pc[r] \in {"claim", "reclaim"} => req[r].kind = "download"
  BY DEF ClaimInv
<1>2. ASSUME NEW step, step # "idle", pc[r] # "idle", Goto(r, step),
             UNCHANGED <<req, served>>, doc'.burn = doc.burn,
             snap' = snap \/ (Proceed(r) /\ req[r].kind = "download"),
             doc'.claimantToken = doc.claimantToken, doc.isDeleted => doc'.isDeleted
      PROVE  [Promise!Next]_Promise!vars
  BY <1>0, <1>2, RequestService, PromiseClose
<1>3. ASSUME NEW step, step # "idle", pc[r] # "idle", Goto(r, step),
             UNCHANGED <<doc, req, snap, served>>
      PROVE  [Promise!Next]_Promise!vars
  BY <1>2, <1>3
<1>4. CASE ClaimOpen(r) /\ Claimable /\ UnclaimedFilter
  <2>1. doc' = ClaimUpdate(doc, req[r]) /\ Proceed(r) /\ pc[r] = "claim"
        /\ UNCHANGED <<req, served>>
    BY <1>4 DEF ClaimOpen
  <2>2. /\ doc'.claimantToken = req[r].token /\ doc'.isDeleted = doc.isDeleted
        /\ doc'.burn = doc.burn
    BY <1>0, <2>1 DEF ClaimUpdate, Docs
  <2>3. req[r].token \in Tokens
    BY <2>1, RequestTypes DEF ClaimInv, TokensAreSent
  <2>4. PICK step \in {"stream", "head", "rejected"} : Goto(r, step)
    BY <2>1 DEF Proceed, StreamOr404
  <2>5. SameService
    BY <1>1, <2>1, <2>2, <2>4, RequestService
  <2>6. SameTokens
    BY <2>5, SameTokensKept
  <2>7. Promise!Claim(req[r].token)
    BY <1>4, <2>2, <2>6 DEF Promise!Claim, Claimable, UnclaimedFilter, SameTokens
  <2>8. QED
    BY <2>3, <2>7 DEF Promise!Next
<1>5. CASE ClaimOpen(r) /\ ~(Claimable /\ UnclaimedFilter)
  BY <1>3, <1>5 DEF ClaimOpen
<1>6. CASE ClaimAsOwner(r) \/ ClaimAfterLostRace(r)
  <2>1. /\ pc[r] \in {"claim", "reclaim"} /\ UNCHANGED <<req, served>>
        /\ doc' = doc \/ doc' = [doc EXCEPT !.lastActive = "recent"]
        /\ snap' = snap \/ Proceed(r)
        /\ \E step \in {"head", "stream", "rejected"} : Goto(r, step)
    BY <1>6 DEF ClaimAsOwner, ClaimAfterLostRace, Proceed, StreamOr404
  <2>2. /\ doc'.burn = doc.burn /\ doc'.claimantToken = doc.claimantToken
        /\ doc'.isDeleted = doc.isDeleted
    BY <1>0, <2>1 DEF Docs
  <2>3. QED
    BY <1>1, <1>2, <2>1, <2>2
<1>7. CASE FinalizeDownload(r)
  <2>1. /\ doc'.burn = doc.burn /\ doc'.claimantToken = doc.claimantToken
        /\ doc'.isDeleted = doc.isDeleted
    BY <1>0, <1>7 DEF FinalizeDownload, Docs
  <2>2. QED
    BY <1>2, <1>7, <2>1 DEF FinalizeDownload
<1>8. CASE BurnFinalizeMark(r)
  <2>1. /\ doc'.burn = doc.burn /\ doc'.claimantToken = doc.claimantToken
        /\ doc.isDeleted => doc'.isDeleted
    BY <1>0, <1>8 DEF BurnFinalizeMark, MarkOnce, MarkDeleted, Docs
  <2>2. QED
    BY <1>2, <1>8, <2>1 DEF BurnFinalizeMark
<1>9. CASE CancelMark(r)
  <2>1. /\ doc'.burn = doc.burn /\ doc'.claimantToken = doc.claimantToken
        /\ doc.isDeleted => doc'.isDeleted
    BY <1>0, <1>9 DEF CancelMark, MarkDeleted, Docs
  <2>2. /\ \E step \in {"done", "cancelDelete"} : Goto(r, step)
        /\ pc[r] = "cancelMark" /\ UNCHANGED <<req, snap, served>>
    BY <1>9 DEF CancelMark
  <2>3. QED
    BY <1>2, <2>1, <2>2
<1>10. CASE \/ RejectUnavailable(r) \/ RejectPassword(r) \/ ClaimDenied(r)
            \/ AnswerHead(r) \/ RejectRange(r) \/ AbortStream(r)
            \/ BurnFinalizeDelete(r) \/ CancelDelete(r)
  BY <1>3, <1>10
     DEF RejectUnavailable, RejectPassword, ClaimDenied, AnswerHead, RejectRange,
         AbortStream, BurnFinalizeDelete, CancelDelete, IsDownload
<1>11. CASE \/ Admit(r) \/ HeadPreview(r) \/ OpenStream(r)
            \/ BurnFinalizeCheck(r) \/ CancelCheck(r)
  <2>1. /\ pc[r] # "idle" /\ UNCHANGED <<doc, req, snap, served>>
        /\ \E step \in Steps \ {"idle"} : Goto(r, step)
    BY <1>11
       DEF Admit, HeadPreview, OpenStream, BurnFinalizeCheck, CancelCheck, IsDownload,
           StreamOr404, Steps, Terminal
  <2>2. QED
    BY <1>3, <2>1
<1>12. QED
  BY <1>4, <1>5, <1>6, <1>7, <1>8, <1>9, <1>10, <1>11, PromiseAsk, PromiseHandOut
     DEF RequestStep, ClaimBurnDownload

LEMMA PromiseNext ==
  ASSUME TokensAreSent, TypeOK, TypeOK', ClaimInv, [Next]_vars
  PROVE  [Promise!Next]_Promise!vars
<1>0. doc \in Docs /\ doc' \in Docs
  BY DEF TypeOK
<1>1. ASSUME UNCHANGED <<pc, req, snap, served>>, doc'.burn = doc.burn,
             doc'.claimantToken = doc.claimantToken, doc.isDeleted => doc'.isDeleted
      PROVE  [Promise!Next]_Promise!vars
  BY <1>0, <1>1, PromiseClose DEF SameService
<1>2. CASE \E r \in Requests : RequestStep(r)
  BY <1>2, PromiseRequest
<1>3. CASE RunCleanup
  <2>1. UNCHANGED <<pc, req, snap, served>>
    BY <1>3 DEF RunCleanup, SelectExpired, SelectStaleBurn, SweepDelete, ExpireOneMark,
                FinalizeStaleBurnMark, SweepMarkFails, SweepUnchanged, history
  <2>2. CASE ExpireOneMark
    BY <1>0, <1>1, <2>1, <2>2 DEF ExpireOneMark, MarkOnce, MarkDeleted, Docs
  <2>3. CASE FinalizeStaleBurnMark
    BY <1>0, <1>1, <2>1, <2>3 DEF FinalizeStaleBurnMark, MarkOnce, MarkDeleted, Docs
  <2>4. QED
    BY <1>1, <1>3, <2>1, <2>2, <2>3
       DEF RunCleanup, SelectExpired, SelectStaleBurn, SweepDelete, SweepMarkFails
<1>4. CASE IdlePeriodPasses
  BY <1>0, <1>1, <1>4 DEF IdlePeriodPasses, requestVars, history, Docs
<1>5. CASE ExpiryPasses \/ UNCHANGED vars
  BY <1>1, <1>5 DEF ExpiryPasses, requestVars, history, vars
<1>6. CASE Crash
  <2>1. SameService
    BY <1>6 DEF Crash, SameService, history, Terminal
  <2>2. QED
    BY <1>0, <1>6, <2>1, PromiseClose DEF Crash
<1>7. QED
  BY <1>2, <1>3, <1>4, <1>5, <1>6 DEF Next

(* The handlers implement the abstract promise: one owner, downloads for   *)
(* the owner alone, previews for the owner and for those who asked on a    *)
(* copy read before any claim, and no claim once the transfer is closed.   *)
THEOREM RefinesClaimOnce ==
  ASSUME TokensAreSent
  PROVE  Spec => ImplementsClaimOnce
<1>1. TypeOK /\ TypeOK' /\ ClaimInv /\ [Next]_vars => [Promise!Next]_Promise!vars
  BY PromiseNext
<1>2. QED
  BY <1>1, PromiseInit, TypeCorrect, ClaimIsConsistent, PTL
     DEF Spec, ImplementsClaimOnce, Promise!Spec

--------------------------------------------------------------------------------
(* The objects in R2.                                                      *)

(* A request moves between steps outside the deletions, or to its end.     *)
LEMMA FilesQuiet ==
  ASSUME TypeOK, FilesInv, NEW r \in Requests, NEW step, Goto(r, step),
         pc[r] \notin {"burnMark", "cancelDelete"},
         step \notin {"burnMark", "cancelDelete"},
         doc'.isDeleted = doc.isDeleted, UNCHANGED <<r2, sweep, faults>>
  PROVE  FilesInv'
<1>1. /\ pc'[r] = step
      /\ \A x \in Requests : x # r => pc'[x] = pc[x]
  BY DEF Goto, TypeOK
<1>2. Marking' <=> Marking
  BY <1>1 DEF Marking
<1>3. (\E x \in Requests : pc'[x] = "cancelDelete")
      <=> \E x \in Requests : pc[x] = "cancelDelete"
  BY <1>1
<1>4. QED
  BY <1>1, <1>2, <1>3 DEF FilesInv, FilesOutliveTheTransfer, NothingIsOrphaned

LEMMA RequestFilesInv ==
  ASSUME TypeOK, FilesInv, NEW r \in Requests, RequestStep(r)
  PROVE  FilesInv'
<1>0. doc \in Docs /\ r2 \subseteq Files /\ faults \in Nat
  BY ConstantsAreSound DEF ConstantsAreSound, TypeOK
<1> DEFINE quiet == {"rejected", "failed", "done", "claim", "reclaim", "head",
                     "stream", "streaming", "finalize", "burnDelete", "cancelMark"}
                    \cup Kinds
<1>1. ASSUME NEW step \in quiet, Goto(r, step),
             pc[r] \notin {"burnMark", "cancelDelete"},
             doc'.isDeleted = doc.isDeleted, UNCHANGED <<r2, sweep, faults>>
      PROVE  FilesInv'
  BY <1>1, FilesQuiet DEF Kinds
<1> USE DEF history, Kinds
<1>2. ASSUME NEW q \in Profiles, FindTransfer(r, q) PROVE FilesInv'
  <2>1. q.kind \in Kinds
    BY ConstantsAreSound DEF ConstantsAreSound, AllProfiles
  <2>2. QED
    BY <1>1, <1>2, <2>1 DEF FindTransfer
<1>3. CASE RejectUnavailable(r) \/ RejectPassword(r) \/ ClaimDenied(r) \/ AbortStream(r)
  BY <1>1, <1>3
     DEF RejectUnavailable, RejectPassword, ClaimDenied, AbortStream, IsDownload
<1>4. CASE Admit(r)
  BY <1>1, <1>4 DEF Admit, IsDownload, StreamOr404
<1>5. CASE ClaimAsOwner(r) \/ ClaimOpen(r) \/ ClaimAfterLostRace(r)
  <2>1. doc'.isDeleted = doc.isDeleted /\ UNCHANGED <<r2, sweep, faults>>
    BY <1>0, <1>5
       DEF ClaimAsOwner, ClaimOpen, ClaimAfterLostRace, ClaimUpdate, Docs
  <2>2. /\ pc[r] \in {"claim", "reclaim"}
        /\ \E step \in {"head", "stream", "rejected", "reclaim"} : Goto(r, step)
    BY <1>5
       DEF ClaimAsOwner, ClaimOpen, ClaimAfterLostRace, Proceed, StreamOr404
  <2>3. QED
    BY <1>1, <2>1, <2>2
<1>6. CASE \/ OpenStream(r) \/ CompleteStream(r) \/ AnswerHead(r)
           \/ RejectRange(r) \/ HeadPreview(r) \/ CompletePreview(r)
  BY <1>1, <1>6
     DEF OpenStream, CompleteStream, AnswerHead, RejectRange, HeadPreview, CompletePreview
<1>7. CASE FinalizeDownload(r)
  <2>1. doc'.isDeleted = doc.isDeleted
    BY <1>0, <1>7 DEF FinalizeDownload, Docs
  <2>2. QED
    BY <1>1, <1>7, <2>1 DEF FinalizeDownload
<1>8. CASE BurnFinalizeCheck(r) \/ CancelCheck(r)
  BY <1>1, <1>8 DEF BurnFinalizeCheck, CancelCheck
<1>9. CASE BurnFinalizeDelete(r)
  <2>1. /\ pc'[r] = "burnMark" /\ pc[r] = "burnDelete"
        /\ \A x \in Requests : x # r => pc'[x] = pc[x]
        /\ UNCHANGED <<doc, sweep>>
    BY <1>9 DEF BurnFinalizeDelete, Goto, TypeOK
  <2>2. (r2' = {} \/ faults' > 0) /\ (faults > 0 => faults' > 0)
    BY <1>9, DeleteFilesType DEF BurnFinalizeDelete
  <2>3. QED
    BY <2>1, <2>2 DEF FilesInv, FilesOutliveTheTransfer, NothingIsOrphaned, Marking
<1>10. CASE BurnFinalizeMark(r)
  <2>1. /\ pc'[r] = "done" /\ pc[r] = "burnMark"
        /\ \A x \in Requests : x # r => pc'[x] = pc[x]
        /\ UNCHANGED <<r2, sweep, faults>>
    BY <1>10 DEF BurnFinalizeMark, Goto, TypeOK
  <2>2. doc'.isDeleted
    BY <1>0, <1>10 DEF BurnFinalizeMark, MarkOnce, MarkDeleted, Docs
  <2>3. r2 = {} \/ faults > 0
    BY <2>1 DEF FilesInv, Marking
  <2>4. QED
    BY <2>1, <2>2, <2>3 DEF FilesInv, FilesOutliveTheTransfer, NothingIsOrphaned, Marking
<1>11. CASE CancelMark(r)
  <2>1. CASE doc.isDeleted
    BY <1>1, <1>11, <2>1 DEF CancelMark
  <2>2. CASE ~doc.isDeleted
    <3>1. /\ pc'[r] = "cancelDelete" /\ pc[r] = "cancelMark"
          /\ \A x \in Requests : x # r => pc'[x] = pc[x]
          /\ UNCHANGED <<r2, sweep, faults>>
      BY <1>11, <2>2 DEF CancelMark, Goto, TypeOK
    <3>2. doc'.isDeleted
      BY <1>0, <1>11, <2>2 DEF CancelMark, MarkDeleted, Docs
    <3>3. QED
      BY <3>1, <3>2 DEF FilesInv, FilesOutliveTheTransfer, NothingIsOrphaned, Marking
  <2>3. QED
    BY <2>1, <2>2
<1>12. CASE CancelDelete(r)
  <2>1. /\ pc'[r] = "done" /\ pc[r] = "cancelDelete"
        /\ \A x \in Requests : x # r => pc'[x] = pc[x]
        /\ UNCHANGED <<doc, sweep>>
    BY <1>12 DEF CancelDelete, Goto, TypeOK
  <2>2. (r2' = {} \/ faults' > 0) /\ (faults > 0 => faults' > 0)
    BY <1>12, DeleteFilesType DEF CancelDelete
  <2>3. QED
    BY <2>1, <2>2 DEF FilesInv, FilesOutliveTheTransfer, NothingIsOrphaned, Marking
<1>13. QED
  BY <1>2, <1>3, <1>4, <1>5, <1>6, <1>7, <1>8, <1>9, <1>10, <1>11, <1>12
     DEF RequestStep, ClaimBurnDownload

LEMMA SystemFilesInv ==
  ASSUME TypeOK, FilesInv,
         RunCleanup \/ ExpiryPasses \/ IdlePeriodPasses \/ Crash \/ UNCHANGED vars
  PROVE  FilesInv'
<1>0. doc \in Docs /\ r2 \subseteq Files /\ faults \in Nat
  BY ConstantsAreSound DEF ConstantsAreSound, TypeOK
<1> USE DEF FilesInv, FilesOutliveTheTransfer, NothingIsOrphaned, Marking,
            SweepUnchanged, requestVars
<1>1. CASE SelectExpired \/ SelectStaleBurn
  BY <1>1 DEF SelectExpired, SelectStaleBurn
<1>2. CASE SweepDelete
  <2>1. (r2' = {} \/ faults' > 0) /\ (faults > 0 => faults' > 0)
    BY <1>2, DeleteFilesType DEF SweepDelete
  <2>2. UNCHANGED <<doc, pc>> /\ sweep' \in {"expiredMark", "staleMark"}
    BY <1>2 DEF SweepDelete
  <2>3. QED
    BY <2>1, <2>2
<1>3. CASE ExpireOneMark \/ FinalizeStaleBurnMark
  <2>1. /\ sweep \in {"expiredMark", "staleMark"} /\ sweep' \in {"stale", "idle"}
        /\ UNCHANGED <<r2, pc, faults>>
    BY <1>3 DEF ExpireOneMark, FinalizeStaleBurnMark
  <2>2. doc'.isDeleted
    BY <1>0, <1>3
       DEF ExpireOneMark, FinalizeStaleBurnMark, MarkOnce, MarkDeleted, Docs
  <2>3. QED
    BY <2>1, <2>2
<1>4. CASE SweepMarkFails
  <2>1. faults' > 0 /\ UNCHANGED <<doc, r2, pc>>
    BY <1>4, FaultType DEF SweepMarkFails
  <2>2. QED
    BY <2>1
<1>5. CASE IdlePeriodPasses
  <2>1. doc'.isDeleted = doc.isDeleted /\ UNCHANGED <<r2, pc, sweep, faults>>
    BY <1>0, <1>5 DEF IdlePeriodPasses, Docs
  <2>2. QED
    BY <2>1
<1>6. CASE Crash
  <2>1. /\ faults' > 0 /\ UNCHANGED <<doc, r2>>
        /\ \A r \in Requests : pc'[r] \in {pc[r], "failed"}
    BY <1>6, FaultType DEF Crash
  <2>2. QED
    BY <2>1
<1>7. CASE ExpiryPasses \/ UNCHANGED vars
  BY <1>7 DEF ExpiryPasses, vars
<1>8. QED
  BY <1>1, <1>2, <1>3, <1>4, <1>5, <1>6, <1>7 DEF RunCleanup

LEMMA FilesInvariant == Spec => []FilesInv
<1>1. Init => FilesInv
  <2> SUFFICES ASSUME Init PROVE FilesInv
    OBVIOUS
  <2>1. ~doc.isDeleted
    BY DEF Init, NewTransfer
  <2>2. QED
    BY <2>1 DEF Init, FilesInv, FilesOutliveTheTransfer, NothingIsOrphaned, Marking
<1>2. TypeOK /\ FilesInv /\ [Next]_vars => FilesInv'
  BY RequestFilesInv, SystemFilesInv DEF Next
<1>3. QED
  BY <1>1, <1>2, TypeCorrect, PTL DEF Spec

(* Objects vanish under a live transfer only right before it is marked.    *)
THEOREM FilesOutlive == Spec => []FilesOutliveTheTransfer
<1>1. FilesInv => FilesOutliveTheTransfer
  BY DEF FilesInv
<1>2. QED
  BY <1>1, FilesInvariant, PTL

(* A deleted transfer leaves no objects, barring faults.                   *)
THEOREM NoOrphans == Spec => []NothingIsOrphaned
<1>1. FilesInv => NothingIsOrphaned
  BY DEF FilesInv
<1>2. QED
  BY <1>1, FilesInvariant, PTL
--------------------------------------------------------------------------------
(* Counting downloads.                                                     *)

(* More of a finite set counts for no less, one more for one more.         *)
LEMMA CountGrows ==
  ASSUME NEW S, IsFiniteSet(S), NEW T \in SUBSET S
  PROVE  /\ IsFiniteSet(T)
         /\ Cardinality(T) \in Nat /\ Cardinality(S) \in Nat
         /\ Cardinality(T) <= Cardinality(S)
BY FS_Subset, FS_CardinalityType

LEMMA OneMoreCounts ==
  ASSUME NEW S, IsFiniteSet(S), NEW x
  PROVE  /\ IsFiniteSet(S \cup {x})
         /\ Cardinality(S) \in Nat
         /\ Cardinality(S \cup {x}) <= Cardinality(S) + 1
         /\ x \notin S => Cardinality(S \cup {x}) = Cardinality(S) + 1
<1>1. IsFiniteSet(S \cup {x}) /\ Cardinality(S) \in Nat
  BY FS_AddElement, FS_CardinalityType
<1>2. CASE x \in S
  <2>1. S \cup {x} = S
    BY <1>2
  <2> QED
    BY <1>1, <1>2, <2>1
<1>3. CASE x \notin S
  <2>1. Cardinality(S \cup {x}) = Cardinality(S) + 1
    BY <1>3, FS_AddElement
  <2> QED
    BY <1>1, <1>3, <2>1
<1> QED
  BY <1>2, <1>3

(* Steps that complete no stream and count none.                           *)
LEMMA NothingCounted ==
  ASSUME CountInv, served' = served,
         doc'.sessions = doc.sessions, doc'.downloadCount = doc.downloadCount,
         doc.downloadCount \in Nat,
         \A r \in Requests :
           /\ snap'[r].sessions \subseteq doc.sessions
           /\ r \in served =>
                req'[r] = req[r] /\ pc'[r] \in Terminal \cup {pc[r]}
           /\ pc'[r] = "finalize" => pc[r] = "finalize",
         served \subseteq Requests
  PROVE  CountInv'
<1>1. MayBeCounted \subseteq MayBeCounted'
  BY DEF MayBeCounted, ReceiverStreams, Terminal
<1>2. IsFiniteSet(MayBeCounted')
  BY CountGrows DEF CountInv, MayBeCounted, ReceiverStreams
<1>3. Cardinality(MayBeCounted) <= Cardinality(MayBeCounted')
      /\ Cardinality(MayBeCounted) \in Nat /\ Cardinality(MayBeCounted') \in Nat
  BY <1>1, <1>2, CountGrows
<1>4. doc'.downloadCount <= Cardinality(MayBeCounted')
  BY <1>3 DEF CountInv
<1>5. ASSUME NEW r \in Requests
      PROVE  /\ snap'[r].sessions \subseteq doc'.sessions
             /\ r \in served' => pc'[r] \in Terminal \cup {"finalize"}
             /\ pc'[r] = "finalize" => r \in ReceiverStreams'
  BY DEF CountInv, ReceiverStreams
<1> QED
  BY <1>4, <1>5 DEF CountInv

LEMMA CompleteStreamCounts ==
  ASSUME TypeOK, CountInv, NEW r \in Requests, CompleteStream(r) \/ CompletePreview(r)
  PROVE  CountInv'
<1>1. /\ served' = served \cup {r} /\ pc[r] = "streaming"
      /\ UNCHANGED <<doc, req, snap>>
      /\ pc'[r] \in {"finalize", "done"}
      /\ pc'[r] = "finalize" => req[r].kind = "download" /\ req[r].role # "sender"
      /\ \A x \in Requests \ {r} : pc'[x] = pc[x]
  BY DEF CompleteStream, CompletePreview, Goto, IsSenderRequest,
         ValidateOwnershipToken, TypeOK
<1>2. r \notin served
  BY <1>1 DEF CountInv, Terminal
<1>3. MayBeCounted \subseteq MayBeCounted'
  BY <1>1, <1>2 DEF MayBeCounted, ReceiverStreams, TypeOK
<1>4. IsFiniteSet(served')
  BY <1>1, OneMoreCounts DEF CountInv
<1>5. IsFiniteSet(MayBeCounted')
  BY <1>4, CountGrows DEF MayBeCounted, ReceiverStreams
<1>6. Cardinality(MayBeCounted) <= Cardinality(MayBeCounted')
      /\ Cardinality(MayBeCounted) \in Nat /\ Cardinality(MayBeCounted') \in Nat
  BY <1>3, <1>5, CountGrows
<1>7. doc'.downloadCount <= Cardinality(MayBeCounted')
  <2>1. doc.downloadCount \in Nat /\ doc.downloadCount <= Cardinality(MayBeCounted)
    BY DEF TypeOK, Docs, CountInv
  <2> QED
    BY <1>1, <1>6, <2>1
<1>8. ASSUME NEW x \in Requests
      PROVE  /\ snap'[x].sessions \subseteq doc'.sessions
             /\ x \in served' => pc'[x] \in Terminal \cup {"finalize"}
             /\ pc'[x] = "finalize" => x \in ReceiverStreams'
  BY <1>1 DEF CountInv, ReceiverStreams, Terminal
<1> QED
  BY <1>1, <1>4, <1>7, <1>8 DEF CountInv

(* The copy may miss sessions of the document but has none in advance, so  *)
(* a session that is not counted again is on record.                       *)
LEMMA FinalizeDownloadCounts ==
  ASSUME TypeOK, CountInv, NEW r \in Requests, FinalizeDownload(r)
  PROVE  CountInv'
<1>1. /\ pc[r] = "finalize" /\ pc'[r] = "done"
      /\ UNCHANGED <<req, snap, served>>
      /\ \A x \in Requests \ {r} : pc'[x] = pc[x]
  BY DEF FinalizeDownload, Goto, history, TypeOK
<1>2. /\ doc'.sessions = doc.sessions \cup SessionToRecord(r)
      /\ doc'.downloadCount = IF AlreadyCounted(r) THEN doc.downloadCount
                              ELSE doc.downloadCount + 1
      /\ doc.downloadCount \in Nat
  BY DEF FinalizeDownload, TypeOK, Docs
<1>3. MayBeCounted' = MayBeCounted \cup {r} /\ r \notin MayBeCounted
  <2>1. r \in ReceiverStreams /\ ReceiverStreams' = ReceiverStreams
    BY <1>1 DEF CountInv, ReceiverStreams
  <2>2. ReceiverStreams \subseteq Requests
    BY DEF ReceiverStreams, TypeOK
  <2> QED
    BY <1>1, <2>1, <2>2 DEF MayBeCounted
<1>4. IsFiniteSet(MayBeCounted)
  BY CountGrows DEF CountInv, MayBeCounted, ReceiverStreams
<1>5. /\ Cardinality(MayBeCounted') = Cardinality(MayBeCounted) + 1
      /\ Cardinality(MayBeCounted) \in Nat
  BY <1>3, <1>4, OneMoreCounts
<1>6. doc'.downloadCount <= Cardinality(MayBeCounted')
  <2>1. doc.downloadCount <= Cardinality(MayBeCounted)
    BY DEF CountInv
  <2> QED
    BY <1>2, <1>5, <2>1
<1>7. IsFiniteSet(doc'.sessions) /\ Cardinality(doc'.sessions) <= doc'.downloadCount
  <2>1. IsFiniteSet(doc.sessions) /\ Cardinality(doc.sessions) <= doc.downloadCount
    BY DEF CountInv
  <2>2. CASE AlreadyCounted(r)
    <3>1. doc'.sessions = doc.sessions
      BY <1>2, <2>2 DEF AlreadyCounted, SessionToRecord, CountInv
    <3> QED
      BY <1>2, <2>1, <2>2, <3>1
  <2>3. CASE ~AlreadyCounted(r) /\ SessionToRecord(r) = {}
    <3>1. doc'.sessions = doc.sessions
      BY <1>2, <2>3
    <3>2. Cardinality(doc.sessions) \in Nat
      BY <2>1, FS_CardinalityType
    <3> QED
      BY <1>2, <2>1, <2>3, <3>1, <3>2
  <2>4. CASE ~AlreadyCounted(r) /\ SessionToRecord(r) # {}
    <3>1. doc'.sessions = doc.sessions \cup {req[r].session}
      BY <1>2, <2>4 DEF SessionToRecord
    <3>2. /\ IsFiniteSet(doc'.sessions) /\ Cardinality(doc.sessions) \in Nat
          /\ Cardinality(doc'.sessions) <= Cardinality(doc.sessions) + 1
      BY <2>1, <3>1, OneMoreCounts
    <3>3. Cardinality(doc'.sessions) \in Nat
      BY <3>2, FS_CardinalityType
    <3> QED
      BY <1>2, <2>1, <2>4, <3>2, <3>3
  <2> QED
    BY <2>2, <2>3, <2>4
<1>8. ASSUME NEW x \in Requests
      PROVE  /\ snap'[x].sessions \subseteq doc'.sessions
             /\ x \in served' => pc'[x] \in Terminal \cup {"finalize"}
             /\ pc'[x] = "finalize" => x \in ReceiverStreams'
  BY <1>1, <1>2 DEF CountInv, ReceiverStreams, Terminal
<1> QED
  BY <1>1, <1>6, <1>7, <1>8 DEF CountInv

(* What a handler keeps after its read: its own copy or the new document.  *)
LEMMA RequestCountInv ==
  ASSUME TypeOK, CountInv, NEW r \in Requests, RequestStep(r)
  PROVE  CountInv'
<1>1. CASE CompleteStream(r) \/ CompletePreview(r)
  BY <1>1, CompleteStreamCounts
<1>2. CASE FinalizeDownload(r)
  BY <1>2, FinalizeDownloadCounts
<1>3. CASE ~CompleteStream(r) /\ ~CompletePreview(r) /\ ~FinalizeDownload(r)
  <2>1. doc \in Docs /\ doc.downloadCount \in Nat /\ served \subseteq Requests
    BY DEF TypeOK, Docs
  <2>2. /\ served' = served
        /\ doc'.sessions = doc.sessions /\ doc'.downloadCount = doc.downloadCount
    BY <1>3, <2>1
       DEF RequestStep, ClaimBurnDownload, FindTransfer, RejectUnavailable,
           RejectPassword, Admit, ClaimAsOwner, ClaimDenied, ClaimOpen, ClaimUpdate,
           ClaimAfterLostRace, OpenStream, AbortStream, AnswerHead, RejectRange,
           HeadPreview, BurnFinalizeCheck, BurnFinalizeDelete, BurnFinalizeMark,
           CancelCheck, CancelMark, CancelDelete, MarkOnce, MarkDeleted, history, Docs
  <2>3. /\ pc[r] \notin Terminal \cup {"finalize"}
        /\ pc'[r] # "finalize"
        /\ \A x \in Requests \ {r} : pc'[x] = pc[x] /\ req'[x] = req[x]
    <3>1. CASE \E q \in Profiles : FindTransfer(r, q)
      <4>1. PICK q \in Profiles : FindTransfer(r, q)
        BY <3>1
      <4>2. q.kind \in Kinds
        BY ConstantsAreSound DEF ConstantsAreSound, AllProfiles
      <4> QED
        BY <4>1, <4>2 DEF FindTransfer, Goto, TypeOK, Kinds, Terminal
    <3>2. CASE ~ \E q \in Profiles : FindTransfer(r, q)
      BY <1>3, <3>2
         DEF RequestStep, ClaimBurnDownload, RejectUnavailable, RejectPassword,
             Admit, StreamOr404, ClaimAsOwner, ClaimDenied, ClaimOpen,
             ClaimAfterLostRace, Proceed, OpenStream, AbortStream,
             AnswerHead, RejectRange, HeadPreview, BurnFinalizeCheck, BurnFinalizeDelete, BurnFinalizeMark, CancelCheck,
             CancelMark, CancelDelete, Goto, IsDownload, Terminal, TypeOK
    <3> QED
      BY <3>1, <3>2
  <2>4. \A x \in Requests : snap'[x] = snap[x] \/ snap'[x] \in {View(doc), View(doc')}
    BY <1>3
       DEF RequestStep, ClaimBurnDownload, FindTransfer, RejectUnavailable,
           RejectPassword, Admit, ClaimAsOwner, ClaimDenied, ClaimOpen,
           ClaimAfterLostRace, Proceed, OpenStream, AbortStream, AnswerHead,
           RejectRange, HeadPreview, BurnFinalizeCheck, BurnFinalizeDelete,
           BurnFinalizeMark, CancelCheck, CancelMark, CancelDelete, history, TypeOK
  <2>5. \A x \in Requests : snap'[x].sessions \subseteq doc.sessions
    <3>1. View(doc).sessions = doc.sessions /\ View(doc').sessions = doc.sessions
      BY <2>2 DEF View
    <3> QED
      BY <2>4, <3>1 DEF CountInv
  <2>6. r \notin served
    BY <2>3 DEF CountInv
  <2> QED
    BY <2>1, <2>2, <2>3, <2>5, <2>6, NothingCounted
<1> QED
  BY <1>1, <1>2, <1>3

LEMMA NextCountInv == TypeOK /\ CountInv /\ [Next]_vars => CountInv'
<1> SUFFICES ASSUME TypeOK, CountInv, [Next]_vars PROVE CountInv'
  OBVIOUS
<1>1. CASE \E r \in Requests : RequestStep(r)
  BY <1>1, RequestCountInv
<1>2. CASE ~ \E r \in Requests : RequestStep(r)
  <2>1. doc \in Docs /\ doc.downloadCount \in Nat /\ served \subseteq Requests
    BY DEF TypeOK, Docs
  <2>2. /\ UNCHANGED <<req, snap, served>>
        /\ doc'.sessions = doc.sessions /\ doc'.downloadCount = doc.downloadCount
    BY <1>2, <2>1
       DEF Next, RunCleanup, SelectExpired, SelectStaleBurn, SweepDelete,
           ExpireOneMark, FinalizeStaleBurnMark, SweepMarkFails, SweepUnchanged,
           ExpiryPasses, IdlePeriodPasses, Crash, requestVars, history, vars,
           MarkOnce, MarkDeleted, Docs
  <2>3. \A x \in Requests : pc'[x] = pc[x] \/ pc'[x] = "failed"
    BY <1>2
       DEF Next, RunCleanup, SelectExpired, SelectStaleBurn, SweepDelete,
           ExpireOneMark, FinalizeStaleBurnMark, SweepMarkFails, SweepUnchanged,
           ExpiryPasses, IdlePeriodPasses, Crash, requestVars, vars
  <2> QED
    BY <2>1, <2>2, <2>3, NothingCounted DEF CountInv, Terminal
<1> QED
  BY <1>1, <1>2

(* Whoever downloads, previews, repeats a session or races for the burn:   *)
(* downloadCount of the document covers its downloadSessions and no more   *)
(* than the receivers' completed streams (finalizeDownload).               *)
THEOREM DownloadsAreCounted == Spec => []CountMatchesDownloads
<1>1. Init => CountInv
  <2> SUFFICES ASSUME Init PROVE CountInv
    OBVIOUS
  <2>1. doc.sessions = {} /\ doc.downloadCount = 0 /\ served = {}
    BY DEF Init, NewTransfer
  <2>2. MayBeCounted = {}
    BY <2>1 DEF MayBeCounted, ReceiverStreams
  <2>3. IsFiniteSet({}) /\ Cardinality({}) = 0
    BY FS_EmptySet
  <2>4. \A r \in Requests : pc[r] = "idle" /\ snap[r].sessions = {}
    BY DEF Init, View, NewTransfer
  <2>5. /\ IsFiniteSet(doc.sessions) /\ IsFiniteSet(served)
        /\ Cardinality(doc.sessions) = 0 /\ Cardinality(MayBeCounted) = 0
    BY <2>1, <2>2, <2>3
  <2> QED
    BY <2>1, <2>4, <2>5 DEF CountInv
<1>2. TypeOK /\ CountInv => CountMatchesDownloads
  <2> SUFFICES ASSUME TypeOK, CountInv PROVE CountMatchesDownloads
    OBVIOUS
  <2>1. doc.downloadCount \in Nat /\ doc.downloadCount <= Cardinality(MayBeCounted)
    BY DEF TypeOK, Docs, CountInv
  <2>2. IsFiniteSet(ReceiverStreams)
    BY CountGrows DEF CountInv, ReceiverStreams
  <2>3. /\ Cardinality(MayBeCounted) <= Cardinality(ReceiverStreams)
        /\ Cardinality(MayBeCounted) \in Nat /\ Cardinality(ReceiverStreams) \in Nat
    BY <2>2, CountGrows DEF MayBeCounted
  <2> QED
    BY <2>1, <2>3 DEF CountInv, CountMatchesDownloads
<1> QED
  BY <1>1, <1>2, TypeCorrect, NextCountInv, PTL DEF Spec
================================================================================
