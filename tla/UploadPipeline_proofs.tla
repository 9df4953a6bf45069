------------------------ MODULE UploadPipeline_proofs --------------------------
(***************************************************************************)
(* The upload pipeline, for any set of forms and any limits.               *)
(***************************************************************************)
EXTENDS UploadPipeline, TLAPS

(* The total stops at the limit: the chunk that breaks it aborts.          *)
TotalInv == ~aborted => total <= MaxChunks

(* While the parse is unsettled nothing was aborted or lost; it is         *)
(* resolved by the close handler alone, when no upload is open.            *)
SettleInv ==
  /\ settled = "no" =>
       ~aborted /\ \A f \in PartIds : put[f] \in {"none", "open", "stored"}
  /\ settled = "resolved" =>
       closed = "done" /\ \A f \in PartIds : put[f] \in {"none", "stored"}
  /\ closed # "no" => begun = Len(form)

(* What breaks a limit rejects the parse, which nothing resolves later.    *)
LimitInv ==
  settled # "rejected" =>
    /\ total <= MaxChunks
    /\ begun <= MaxFiles
    /\ \A f \in 1..begun : form[f].kind # "blocked"

(* A verdict is the true one, and a bad one rejects the parse or is late.  *)
VerdictInv ==
  \A f \in PartIds :
    /\ check[f] = "ok" => form[f].kind # "dangerous"
    /\ check[f] = "bad" => f \in late \/ settled = "rejected"

(* The handler goes on only behind a resolved parse and all verdicts.      *)
HandlerInv ==
  /\ handler \in {"validating", "finalizing", "succeeded"} => settled = "resolved"
  /\ handler \in {"finalizing", "succeeded"} =>
       \A f \in PartIds : Received(f) => check[f] \in {"ok", "bad"}

PipelineInv == TotalInv /\ SettleInv /\ LimitInv /\ VerdictInv /\ HandlerInv

(* The bytes of a stored part are those its object holds.                  *)
StoredInv == \A f \in PartIds : put[f] = "stored" => object[form[f].name] = f

(* No two parts of a body carry one name.  Browsers send such bodies too,  *)
(* and for those the guarantee about the stored objects fails.             *)
NamesAreDistinct ==
  \A F \in Forms : \A f, g \in 1..Len(F) : F[f].name = F[g].name => f = g

--------------------------------------------------------------------------------
LEMMA FormIsSequence ==
  ASSUME form \in Forms
  PROVE  /\ Len(form) \in Nat
         /\ \A f \in PartIds :
              form[f].name \in Names /\ form[f].chunks \in Nat /\ form[f].kind \in Kinds
<1>1. form \in Seq(Parts)
  BY ConstantsAreSound DEF ConstantsAreSound
<1>2. Len(form) \in Nat
  BY <1>1
<1>3. \A f \in 1..Len(form) : form[f] \in Parts
  BY <1>1
<1> QED
  BY <1>2, <1>3 DEF Parts, PartIds

(* The steps that leave a group of variables alone, in one place.          *)
LEMMA SameForm == Next => form' = form
BY DEF Next, Receive, Background, Handle, FilePart, Chunk, FileEnd, ClientAborts,
       PutCompletes, PutFails, PutAborts, CheckDone, Close, CloseResume,
       HandlerStep, ParseRejected, ParseResolved, ValidationsAwaited,
       RejectFields, FinalizeTransfer, CreateRecord, streamVars

--------------------------------------------------------------------------------
(* Types, and with them the total: only a chunk raises it.                 *)
LEMMA TypeReceive ==
  ASSUME TypeOK, TotalInv, NEW f \in PartIds, FilePart(f) \/ Chunk(f) \/ FileEnd(f)
  PROVE  TypeOK' /\ TotalInv'
<1> USE DEF TypeOK
<1>1. form' = form /\ PartIds' = PartIds
  BY DEF FilePart, Chunk, FileEnd, PartIds
<1>2. Len(form) \in Nat /\ PartIds = 1..Len(form) /\ MaxChunks \in Nat
  BY FormIsSequence, ConstantsAreSound DEF PartIds, ConstantsAreSound
<1>3. CASE FilePart(f)
  <2>1. begun' \in 0..Len(form)
    BY <1>2, <1>3 DEF FilePart
  <2>2. /\ UNCHANGED <<got, total, object, check, late, closed, handler, record>>
        /\ ended' \in SUBSET PartIds
        /\ put' \in [PartIds -> {"none", "open", "stored", "failed", "aborted"}]
    BY <1>3 DEF FilePart, answerVars
  <2>3. aborted' \in BOOLEAN /\ settled' \in {"no", "resolved", "rejected"}
        /\ (~aborted' => ~aborted)
    BY <1>3 DEF FilePart, AbortAll, NoAbort
  <2> QED
    BY <1>1, <2>1, <2>2, <2>3 DEF TotalInv
<1>4. CASE Chunk(f)
  <2>1. total \in Nat /\ total <= MaxChunks /\ total' = total + 1
    BY <1>2, <1>4 DEF Chunk, Flowing, TotalInv
  <2>2. total' \in 0..(MaxChunks + 1)
    BY <1>2, <2>1
  <2>3. ~aborted' => total' <= MaxChunks
    BY <1>2, <1>4, <2>1 DEF Chunk, OverLimit, AbortAll
  <2>4. UNCHANGED <<begun, ended, put, object, late, closed, handler, record>>
    BY <1>4 DEF Chunk, answerVars
  <2>5. got' \in [PartIds -> Nat]
    BY <1>4 DEF Chunk
  <2>6. check' \in [PartIds -> {"none", "running", "ok", "bad"}]
    BY <1>4 DEF Chunk, StartCheck
  <2>7. aborted' \in BOOLEAN /\ settled' \in {"no", "resolved", "rejected"}
    BY <1>4 DEF Chunk, AbortAll, NoAbort
  <2> QED
    BY <1>1, <2>2, <2>3, <2>4, <2>5, <2>6, <2>7 DEF TotalInv
<1>5. CASE FileEnd(f)
  <2>1. /\ UNCHANGED <<begun, got, total, put, object, late, handler, record>>
        /\ UNCHANGED <<aborted, settled, closed>>
        /\ ended' \in SUBSET PartIds
    BY <1>5 DEF FileEnd, answerVars, parserVars
  <2>2. check' \in [PartIds -> {"none", "running", "ok", "bad"}]
    BY <1>5 DEF FileEnd, StartCheck
  <2> QED
    BY <1>1, <2>1, <2>2 DEF TotalInv
<1> QED
  BY <1>3, <1>4, <1>5

LEMMA TypeBackground ==
  ASSUME TypeOK, TotalInv, NEW f \in PartIds,
         PutCompletes(f) \/ PutFails(f) \/ PutAborts(f) \/ CheckDone(f)
  PROVE  TypeOK' /\ TotalInv'
<1> USE DEF TypeOK
<1>1. /\ PartIds' = PartIds
      /\ UNCHANGED <<form, begun, got, ended, total, closed, handler, record>>
  BY DEF PutCompletes, PutFails, PutAborts, CheckDone, PartIds, streamVars,
         parserVars, answerVars
<1>2. Len(form) \in Nat /\ f \in 1..Len(form) /\ form[f].name \in Names
  BY FormIsSequence DEF PartIds
<1>3. put' \in [PartIds -> {"none", "open", "stored", "failed", "aborted"}]
  BY DEF PutCompletes, PutFails, PutAborts, CheckDone
<1>4. object' \in [Names -> 0..Len(form)]
  BY <1>2 DEF PutCompletes, PutFails, PutAborts, CheckDone
<1>5. check' \in [PartIds -> {"none", "running", "ok", "bad"}] /\ late' \in SUBSET PartIds
  BY DEF PutCompletes, PutFails, PutAborts, CheckDone
<1>6. aborted' \in BOOLEAN /\ settled' \in {"no", "resolved", "rejected"}
      /\ (~aborted' => ~aborted)
  BY DEF PutCompletes, PutFails, PutAborts, CheckDone, AbortAll, NoAbort,
         OnBadVerdict, parserVars
<1> QED
  BY <1>1, <1>3, <1>4, <1>5, <1>6 DEF TotalInv

LEMMA TypeRest ==
  ASSUME TypeOK, TotalInv, ClientAborts \/ Close \/ Handle
  PROVE  TypeOK' /\ TotalInv'
<1> USE DEF TypeOK
<1>1. /\ PartIds' = PartIds
      /\ UNCHANGED <<form, begun, got, ended, total, put, object, check, late>>
  BY DEF ClientAborts, Close, Handle, CloseResume, HandlerStep, ParseRejected,
         ParseResolved, ValidationsAwaited, RejectFields, FinalizeTransfer,
         CreateRecord, PartIds, streamVars
<1>2. /\ aborted' \in BOOLEAN /\ settled' \in {"no", "resolved", "rejected"}
      /\ (~aborted' => ~aborted)
  BY DEF ClientAborts, Close, Handle, CloseResume, HandlerStep, ParseRejected,
         ParseResolved, ValidationsAwaited, RejectFields, FinalizeTransfer,
         CreateRecord, AbortAll, parserVars
<1>3. /\ closed' \in {"no", "waiting", "done"}
      /\ handler' \in {"parsing", "validating", "finalizing", "succeeded", "failed"}
      /\ record' \in {"none", "pending", "created", "lost"}
  BY DEF ClientAborts, Close, Handle, CloseResume, HandlerStep, ParseRejected,
         ParseResolved, ValidationsAwaited, RejectFields, FinalizeTransfer,
         CreateRecord, parserVars, answerVars
<1> QED
  BY <1>1, <1>2, <1>3 DEF TotalInv

LEMMA TypeStep ==
  ASSUME TypeOK, TotalInv, Next
  PROVE  TypeOK' /\ TotalInv'
BY TypeReceive, TypeBackground, TypeRest DEF Next, Receive, Background

LEMMA TypeInit == Init => TypeOK /\ TotalInv
<1> SUFFICES ASSUME Init PROVE TypeOK /\ TotalInv
  OBVIOUS
<1>1. Len(form) \in Nat /\ MaxChunks \in Nat /\ form \in Forms
  BY FormIsSequence, ConstantsAreSound DEF Init, ConstantsAreSound
<1>2. begun \in 0..Len(form) /\ total \in 0..(MaxChunks + 1) /\ total <= MaxChunks
  BY <1>1 DEF Init
<1>3. got \in [PartIds -> Nat]
  BY DEF Init
<1>4. object \in [Names -> 0..Len(form)]
  BY <1>1 DEF Init
<1>5. /\ put \in [PartIds -> {"none", "open", "stored", "failed", "aborted"}]
      /\ check \in [PartIds -> {"none", "running", "ok", "bad"}]
      /\ ended \in SUBSET PartIds /\ late \in SUBSET PartIds
  BY DEF Init
<1>6. /\ aborted \in BOOLEAN /\ settled = "no" /\ closed = "no"
      /\ handler = "parsing" /\ record = "none"
  BY DEF Init
<1> QED
  BY <1>1, <1>2, <1>3, <1>4, <1>5, <1>6 DEF TypeOK, TotalInv

(* Every variable keeps its shape, and no more than the chunk that breaks  *)
(* the limit is ever counted, whatever the clients send.                   *)
THEOREM TypeCorrect == Spec => [](TypeOK /\ TotalInv)
<1>1. TypeOK /\ TotalInv /\ UNCHANGED vars => TypeOK' /\ TotalInv'
  BY DEF TypeOK, TotalInv, PartIds, vars, streamVars, parserVars, answerVars
<1> QED
  BY <1>1, TypeInit, TypeStep, PTL DEF Spec

--------------------------------------------------------------------------------
(* The control of the pipeline.                                            *)

(* While the request flows the promise is not resolved, so an abort        *)
(* rejects it.                                                             *)
LEMMA AbortRejects ==
  ASSUME TypeOK, SettleInv, Flowing, AbortAll
  PROVE  settled' = "rejected"
BY DEF TypeOK, SettleInv, Flowing, AbortAll

LEMMA FilePartInv ==
  ASSUME TypeOK, PipelineInv, NEW f \in PartIds, FilePart(f)
  PROVE  SettleInv' /\ LimitInv' /\ VerdictInv' /\ HandlerInv'
<1> USE DEF PipelineInv
<1>1. /\ Flowing /\ f = begun + 1 /\ begun' = f
      /\ UNCHANGED <<form, total, check, late, closed, handler>>
      /\ PartIds' = PartIds /\ closed = "no"
  BY DEF FilePart, Flowing, PartIds, answerVars
<1>2. /\ Len(form) \in Nat /\ begun \in Nat /\ f \in Nat /\ MaxFiles \in Nat
      /\ settled # "resolved" /\ handler \notin {"validating", "finalizing", "succeeded"}
  BY <1>1, FormIsSequence, ConstantsAreSound
     DEF TypeOK, PartIds, ConstantsAreSound, SettleInv, HandlerInv
<1>3. CASE TooManyFiles(f) \/ form[f].kind = "blocked"
  <2>1. AbortAll /\ put' = put
    BY <1>3 DEF FilePart
  <2>2. settled' = "rejected"
    BY <1>1, <2>1, AbortRejects
  <2> QED
    BY <1>1, <1>2, <2>2 DEF SettleInv, LimitInv, VerdictInv, HandlerInv
<1>4. CASE ~(TooManyFiles(f) \/ form[f].kind = "blocked")
  <2>1. UNCHANGED <<aborted, settled>>
    BY <1>4 DEF FilePart, NoAbort
  <2>2. \A g \in PartIds : put'[g] \in {put[g], "open"}
    BY <1>4 DEF FilePart, TypeOK
  <2>3. SettleInv'
    BY <1>1, <1>2, <2>1, <2>2 DEF SettleInv
  <2>4. f <= MaxFiles /\ \A g \in 1..f : g \in 1..begun \/ g = f
    BY <1>1, <1>2, <1>4 DEF TooManyFiles
  <2>5. LimitInv'
    BY <1>1, <1>4, <2>1, <2>4 DEF LimitInv
  <2> QED
    BY <1>1, <1>2, <2>1, <2>3, <2>5 DEF VerdictInv, HandlerInv
<1> QED
  BY <1>3, <1>4

LEMMA ChunkInv ==
  ASSUME TypeOK, PipelineInv, NEW f \in PartIds, Chunk(f)
  PROVE  SettleInv' /\ LimitInv' /\ VerdictInv' /\ HandlerInv'
<1> USE DEF PipelineInv
<1>1. /\ Flowing /\ total' = total + 1
      /\ UNCHANGED <<form, begun, put, late, closed, handler>>
      /\ PartIds' = PartIds /\ closed = "no"
  BY DEF Chunk, Flowing, PartIds, answerVars
<1>2. /\ settled # "resolved" /\ handler \notin {"validating", "finalizing", "succeeded"}
      /\ total \in Nat /\ MaxChunks \in Nat
  BY <1>1, ConstantsAreSound DEF TypeOK, ConstantsAreSound, SettleInv, HandlerInv
<1>3. \A g \in PartIds : check'[g] = check[g] \/ check'[g] = "running"
  BY DEF Chunk, StartCheck, TypeOK
<1>4. CASE OverLimit(f)
  <2>1. settled' = "rejected"
    BY <1>1, <1>4, AbortRejects DEF Chunk
  <2> QED
    BY <1>1, <1>2, <1>3, <2>1 DEF SettleInv, LimitInv, VerdictInv, HandlerInv
<1>5. CASE ~OverLimit(f)
  <2>1. UNCHANGED <<aborted, settled>>
    BY <1>5 DEF Chunk, NoAbort
  <2>2. total' <= MaxChunks
    BY <1>1, <1>2, <1>5 DEF OverLimit
  <2> QED
    BY <1>1, <1>2, <1>3, <2>1, <2>2 DEF SettleInv, LimitInv, VerdictInv, HandlerInv
<1> QED
  BY <1>4, <1>5

LEMMA FileEndInv ==
  ASSUME TypeOK, PipelineInv, NEW f \in PartIds, FileEnd(f)
  PROVE  SettleInv' /\ LimitInv' /\ VerdictInv' /\ HandlerInv'
<1> USE DEF PipelineInv
<1>1. /\ UNCHANGED <<form, begun, total, put, late, aborted, settled, closed, handler>>
      /\ PartIds' = PartIds /\ closed = "no"
  BY DEF FileEnd, Flowing, PartIds, parserVars, answerVars
<1>2. handler \notin {"validating", "finalizing", "succeeded"}
  BY <1>1 DEF SettleInv, HandlerInv
<1>3. \A g \in PartIds : check'[g] = check[g] \/ check'[g] = "running"
  BY DEF FileEnd, StartCheck, TypeOK
<1> QED
  BY <1>1, <1>2, <1>3 DEF SettleInv, LimitInv, VerdictInv, HandlerInv

LEMMA PutInv ==
  ASSUME TypeOK, PipelineInv, NEW f \in PartIds,
         PutCompletes(f) \/ PutFails(f) \/ PutAborts(f)
  PROVE  SettleInv' /\ LimitInv' /\ VerdictInv' /\ HandlerInv'
<1> USE DEF PipelineInv
<1>1. /\ UNCHANGED <<form, begun, total, check, late, closed, handler>>
      /\ PartIds' = PartIds /\ put[f] = "open"
      /\ \A g \in PartIds \ {f} : put'[g] = put[g]
  BY DEF PutCompletes, PutFails, PutAborts, PartIds, streamVars, parserVars,
         answerVars, TypeOK
<1>2. settled # "resolved" /\ handler \notin {"validating", "finalizing", "succeeded"}
  BY <1>1 DEF SettleInv, HandlerInv
<1>3. CASE PutCompletes(f) \/ PutAborts(f)
  <2>1. UNCHANGED <<aborted, settled>>
    BY <1>3 DEF PutCompletes, PutAborts, parserVars
  <2>2. put'[f] = "stored" \/ (put'[f] = "aborted" /\ aborted)
    BY <1>3 DEF PutCompletes, PutAborts, TypeOK
  <2> QED
    BY <1>1, <1>2, <2>1, <2>2 DEF SettleInv, LimitInv, VerdictInv, HandlerInv
<1>4. CASE PutFails(f)
  <2>1. settled' = "rejected"
    BY <1>2, <1>4 DEF PutFails, AbortAll, TypeOK
  <2> QED
    BY <1>1, <1>2, <2>1 DEF SettleInv, LimitInv, VerdictInv, HandlerInv
<1> QED
  BY <1>3, <1>4

LEMMA CheckInv ==
  ASSUME TypeOK, PipelineInv, NEW f \in PartIds, CheckDone(f)
  PROVE  SettleInv' /\ LimitInv' /\ VerdictInv' /\ HandlerInv'
<1> USE DEF PipelineInv
<1>1. /\ UNCHANGED <<form, begun, total, put, closed, handler>>
      /\ PartIds' = PartIds /\ check[f] = "running"
      /\ \A g \in PartIds \ {f} : check'[g] = check[g]
  BY DEF CheckDone, PartIds, streamVars, answerVars, TypeOK
<1>2. HandlerInv' \/ settled' # settled
  <2>1. check'[f] \in {"ok", "bad"}
    BY DEF CheckDone, TypeOK
  <2> QED
    BY <1>1, <2>1 DEF HandlerInv, Received
<1>3. CASE form[f].kind = "dangerous"
  <2>1. check'[f] = "bad" /\ AbortAll
    BY <1>3 DEF CheckDone, OnBadVerdict, TypeOK
  <2>2. late \subseteq late' /\ (settled # "no" => f \in late')
    BY <1>3 DEF CheckDone
  <2>3. settled' = IF settled = "no" THEN "rejected" ELSE settled
    BY <2>1 DEF AbortAll
  <2>4. VerdictInv'
    BY <1>1, <2>1, <2>2, <2>3 DEF VerdictInv
  <2>5. SettleInv' /\ LimitInv'
    BY <1>1, <2>3 DEF SettleInv, LimitInv
  <2>6. HandlerInv'
    BY <1>1, <1>2, <2>3 DEF HandlerInv
  <2> QED
    BY <2>4, <2>5, <2>6
<1>4. CASE form[f].kind # "dangerous"
  <2>1. check'[f] = "ok" /\ UNCHANGED <<aborted, settled, late>>
    BY <1>4 DEF CheckDone, NoAbort, TypeOK
  <2> QED
    BY <1>1, <1>2, <1>4, <2>1 DEF SettleInv, LimitInv, VerdictInv
<1> QED
  BY <1>3, <1>4

LEMMA CloseInv ==
  ASSUME TypeOK, PipelineInv, ClientAborts \/ Close \/ CloseResume
  PROVE  SettleInv' /\ LimitInv' /\ VerdictInv' /\ HandlerInv'
<1> USE DEF PipelineInv
<1>1. /\ UNCHANGED <<form, begun, total, put, check, late, handler>>
      /\ PartIds' = PartIds
  BY DEF ClientAborts, Close, CloseResume, PartIds, streamVars, answerVars
<1>2. settled' = settled \/ (settled = "no" /\ settled' \in {"rejected", "resolved"})
  BY DEF ClientAborts, Close, CloseResume, AbortAll
<1>3. LimitInv' /\ VerdictInv' /\ HandlerInv'
  BY <1>1, <1>2 DEF LimitInv, VerdictInv, HandlerInv, Received
<1>4. CASE ClientAborts
  <2>1. settled' = "rejected" /\ closed' = closed
    BY <1>4, AbortRejects DEF ClientAborts
  <2> QED
    BY <1>1, <1>3, <2>1 DEF SettleInv
<1>5. CASE Close
  <2>1. closed = "no" /\ closed' = "waiting" /\ begun = Len(form) /\ UNCHANGED <<aborted, settled>>
    BY <1>5 DEF Close, Flowing
  <2> QED
    BY <1>1, <1>3, <2>1 DEF SettleInv
<1>6. CASE CloseResume
  <2>1. /\ closed = "waiting" /\ closed' = "done" /\ aborted' = aborted
        /\ \A f \in PartIds : put[f] # "open"
        /\ settled' # "no"
    BY <1>6 DEF CloseResume, UploadsSettled
  <2>2. settled = "no" => \A f \in PartIds : put[f] \in {"none", "stored"}
    BY <2>1 DEF SettleInv
  <2> QED
    BY <1>1, <1>2, <1>3, <2>1, <2>2 DEF SettleInv
<1> QED
  BY <1>4, <1>5, <1>6

LEMMA HandleInv ==
  ASSUME TypeOK, PipelineInv, Handle, ~CloseResume
  PROVE  SettleInv' /\ LimitInv' /\ VerdictInv' /\ HandlerInv'
<1> USE DEF PipelineInv
<1>1. /\ UNCHANGED <<form, begun, total, put, check, late, aborted, settled, closed>>
      /\ PartIds' = PartIds
  BY DEF Handle, HandlerStep, ParseRejected, ParseResolved, ValidationsAwaited,
         RejectFields, FinalizeTransfer, CreateRecord, PartIds, streamVars, parserVars
<1>2. \/ handler' \in {handler, "failed"}
      \/ handler' = "validating" /\ settled = "resolved"
      \/ /\ handler = "validating" /\ handler' = "finalizing"
         /\ \A f \in PartIds : Received(f) => check[f] \in {"ok", "bad"}
      \/ handler = "finalizing" /\ handler' = "succeeded"
  BY DEF Handle, HandlerStep, ParseRejected, ParseResolved, ValidationsAwaited,
         RejectFields, FinalizeTransfer, CreateRecord
<1>3. HandlerInv'
  BY <1>1, <1>2 DEF HandlerInv, Received
<1> QED
  BY <1>1, <1>3 DEF SettleInv, LimitInv, VerdictInv

LEMMA PipelineStep ==
  ASSUME TypeOK, PipelineInv, Next
  PROVE  PipelineInv'
<1>1. TotalInv'
  BY TypeStep DEF PipelineInv
<1> QED
  BY <1>1, FilePartInv, ChunkInv, FileEndInv, PutInv, CheckInv, CloseInv, HandleInv
     DEF PipelineInv, Next, Receive, Background, Handle

LEMMA PipelineInit == Init => PipelineInv
<1> SUFFICES ASSUME Init PROVE PipelineInv
  OBVIOUS
<1>1. TotalInv /\ MaxChunks \in Nat /\ MaxFiles \in Nat
  BY TypeInit, ConstantsAreSound DEF ConstantsAreSound
<1>2. LimitInv
  BY <1>1 DEF Init, LimitInv
<1>3. SettleInv /\ VerdictInv /\ HandlerInv
  BY DEF Init, SettleInv, VerdictInv, HandlerInv
<1> QED
  BY <1>1, <1>2, <1>3 DEF PipelineInv

(* The inductive invariant of the pipeline: how far each part and each     *)
(* verdict is, against whether the parse is settled and the handler's step.*)
THEOREM PipelineHolds == Spec => []PipelineInv
<1>1. PipelineInv /\ UNCHANGED vars => PipelineInv'
  BY DEF PipelineInv, TotalInv, SettleInv, LimitInv, VerdictInv, HandlerInv, Received,
         PartIds, vars, streamVars, parserVars, answerVars
<1> QED
  BY <1>1, PipelineInit, PipelineStep, TypeCorrect, PTL DEF Spec

(* A success is answered only for what is within the limits of size and    *)
(* number and carries no blocked name.                                     *)
THEOREM PublishedWithinLimits == Spec => []PublishedIsWithinLimits
<1>1. TypeOK /\ PipelineInv => PublishedIsWithinLimits
  <2> SUFFICES ASSUME TypeOK, PipelineInv, Published
               PROVE  /\ total <= MaxChunks /\ Len(form) <= MaxFiles
                      /\ \A f \in PartIds : form[f].kind # "blocked"
    BY DEF PublishedIsWithinLimits
  <2>1. settled = "resolved" /\ begun = Len(form)
    BY DEF PipelineInv, HandlerInv, SettleInv, Published
  <2> QED
    BY <2>1 DEF PipelineInv, LimitInv, PartIds
<1> QED
  BY <1>1, TypeCorrect, PipelineHolds, PTL

(* A dangerous file slips through only by a verdict that came after the    *)
(* parse was settled.                                                      *)
THEOREM LateVerdictsOnly == Spec => []OnlyLateVerdictsSlip
<1>1. PipelineInv => OnlyLateVerdictsSlip
  <2> SUFFICES ASSUME PipelineInv, Published, NEW f \in PartIds, Received(f),
                      form[f].kind = "dangerous"
               PROVE  f \in late
    BY DEF OnlyLateVerdictsSlip
  <2>1. settled = "resolved" /\ check[f] \in {"ok", "bad"}
    BY DEF PipelineInv, HandlerInv, Published
  <2> QED
    BY <2>1 DEF PipelineInv, VerdictInv
<1> QED
  BY <1>1, PipelineHolds, PTL

--------------------------------------------------------------------------------
(* What the objects hold.                                                  *)
LEMMA StoredStep ==
  ASSUME NamesAreDistinct, TypeOK, StoredInv, [Next]_vars
  PROVE  StoredInv'
<1>1. form' = form /\ PartIds' = PartIds
  BY SameForm DEF vars, streamVars, PartIds
<1>2. CASE \E f \in PartIds : PutCompletes(f)
  <2>1. PICK f \in PartIds : PutCompletes(f)
    BY <1>2
  <2>2. /\ put' = [put EXCEPT ![f] = "stored"]
        /\ object' = [object EXCEPT ![form[f].name] = f]
    BY <2>1 DEF PutCompletes
  <2>3. object'[form[f].name] = f
    BY <2>2, FormIsSequence DEF TypeOK
  <2>4. \A g \in PartIds \ {f} : form[g].name # form[f].name
    BY DEF NamesAreDistinct, TypeOK, PartIds
  <2>5. \A g \in PartIds \ {f} :
          put'[g] = put[g] /\ object'[form[g].name] = object[form[g].name]
    BY <2>2, <2>4, FormIsSequence DEF TypeOK
  <2> QED
    BY <1>1, <2>3, <2>5 DEF StoredInv
<1>3. CASE ~\E f \in PartIds : PutCompletes(f)
  <2>1. object' = object
    BY <1>3 DEF Next, Receive, Background, Handle, FilePart, Chunk, FileEnd,
           ClientAborts, PutFails, PutAborts, CheckDone, Close, CloseResume,
           HandlerStep, ParseRejected, ParseResolved, ValidationsAwaited,
           RejectFields, FinalizeTransfer, CreateRecord, vars
  <2>2. \A f \in PartIds : put'[f] = "stored" => put[f] = "stored"
    BY <1>3 DEF Next, Receive, Background, Handle, FilePart, Chunk, FileEnd,
           ClientAborts, PutFails, PutAborts, CheckDone, Close, CloseResume,
           HandlerStep, ParseRejected, ParseResolved, ValidationsAwaited,
           RejectFields, FinalizeTransfer, CreateRecord, vars, TypeOK
  <2> QED
    BY <1>1, <2>1, <2>2 DEF StoredInv
<1> QED
  BY <1>2, <1>3

(* With distinct names a success is answered only when the object of every *)
(* received part holds that part: no upload is open, failed or aborted any *)
(* more, and none overwrote another.                                       *)
THEOREM PublishedStored ==
  NamesAreDistinct => (Spec => []PublishedFilesAreStored)
<1>1. NamesAreDistinct /\ TypeOK /\ StoredInv /\ [Next]_vars => StoredInv'
  BY StoredStep
<1>2. Init => StoredInv
  BY DEF Init, StoredInv
<1>3. TypeOK /\ PipelineInv /\ StoredInv => PublishedFilesAreStored
  BY DEF PipelineInv, HandlerInv, SettleInv, StoredInv, Received, Published,
         PublishedFilesAreStored
<1>4. NamesAreDistinct => (Spec => []StoredInv)
  <2> SUFFICES ASSUME NamesAreDistinct PROVE Spec => []StoredInv
    OBVIOUS
  <2>1. TypeOK /\ StoredInv /\ [Next]_vars => StoredInv'
    BY <1>1
  <2> QED
    BY <1>2, <2>1, TypeCorrect, PTL DEF Spec
<1> QED
  BY <1>3, <1>4, TypeCorrect, PipelineHolds, PTL
================================================================================
