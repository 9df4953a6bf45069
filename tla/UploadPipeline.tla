---------------------------- MODULE UploadPipeline -----------------------------
(***************************************************************************)
(* One streaming upload, POST /api/upload (routes/upload.js): the parts of *)
(* a multipart request flow through a size check into R2 uploads that run  *)
(* on their own, each file's first bytes are validated in the background,  *)
(* and when the parser is done the handler answers and only then has the   *)
(* metadata written, without waiting for it.                               *)
(*                                                                         *)
(* The parser's promise is settled once, by abortAll or by the close       *)
(* handler; everything else goes on beside it.  Bytes are counted in       *)
(* chunks.  A part is a record: the name its object gets, its chunks, and  *)
(* what it is: good, dangerous (the signature check will say no), blocked  *)
(* (a forbidden extension) or foreign (not in the field "files").          *)
(***************************************************************************)
EXTENDS Naturals, Sequences

CONSTANTS
  Names,        \* sanitized file names: an object's key is code and name
  Forms,        \* the multipart bodies that clients send
  SniffChunks,  \* SNIFF_BYTES
  MaxChunks,    \* maxTotalBytes
  MaxFiles      \* maxFileCount

Kinds == {"good", "dangerous", "blocked", "foreign"}
Parts == [name: Names, chunks: Nat, kind: Kinds]

ASSUME ConstantsAreSound ==
  /\ Forms \subseteq Seq(Parts)
  /\ SniffChunks \in Nat \ {0} /\ MaxChunks \in Nat /\ MaxFiles \in Nat \ {0}

VARIABLES
  form,     \* what the client sends
  begun,    \* parts the parser has announced
  got,      \* chunks counted per part
  ended,    \* parts whose stream has ended
  total,    \* totalBytes
  put,      \* the R2 upload of a part: none, open, stored, failed, aborted
  object,   \* per name: the part whose bytes the object holds, 0 if none
  check,    \* validationPromise: none, running, ok, bad
  late,     \* history: parts whose bad verdict came after the parse settled
  aborted,
  settled,  \* the parser's promise: no, resolved, rejected
  closed,   \* the close handler: no, waiting, done
  handler,  \* parsing, validating, finalizing, succeeded, failed
  record    \* the metadata: none, pending, created, lost

streamVars == <<form, begun, got, ended, total>>
parserVars == <<aborted, settled, closed>>
answerVars == <<handler, record>>
vars == <<streamVars, put, object, check, late, parserVars, answerVars>>

PartIds == 1..Len(form)
Received(f) == put[f] # "none"

Init ==
  /\ form \in Forms
  /\ begun = 0
  /\ got = [f \in PartIds |-> 0]
  /\ ended = {}
  /\ total = 0
  /\ put = [f \in PartIds |-> "none"]
  /\ object = [n \in Names |-> 0]
  /\ check = [f \in PartIds |-> "none"]
  /\ late = {}
  /\ aborted = FALSE
  /\ settled = "no"
  /\ closed = "no"
  /\ handler = "parsing"
  /\ record = "none"

(* abortAll: rejects the promise unless it is settled; uploads in flight   *)
(* are told to abort (PutAborts).                                          *)
MutantAbortWithoutReject == aborted' = TRUE /\ UNCHANGED settled
AbortAll ==
  /\ aborted' = TRUE
  /\ settled' = IF settled = "no" THEN "rejected" ELSE settled

NoAbort == UNCHANGED <<aborted, settled>>

--------------------------------------------------------------------------------
(* The request stream.                                                     *)

Flowing == ~aborted /\ closed = "no"
TooManyFiles(f) == f > MaxFiles

(* The parser announces a part once the previous one is consumed.          *)
FilePart(f) ==
  /\ Flowing
  /\ f = begun + 1 /\ f \in PartIds
  /\ begun = 0 \/ begun \in ended
  /\ begun' = f
  /\ CASE TooManyFiles(f) \/ form[f].kind = "blocked" ->
            AbortAll /\ UNCHANGED <<ended, put>>
       [] ~TooManyFiles(f) /\ form[f].kind = "foreign" ->
            ended' = ended \cup {f} /\ NoAbort /\ UNCHANGED put
       [] OTHER ->
            put' = [put EXCEPT ![f] = "open"] /\ NoAbort /\ UNCHANGED ended
  /\ UNCHANGED <<form, got, total, object, check, late, closed>>
  /\ UNCHANGED answerVars

StartCheck(f) ==
  check' = [check EXCEPT ![f] = IF @ = "none" THEN "running" ELSE @]

MutantLimitPerFile(f) == got[f] + 1 > MaxChunks
OverLimit(f) == total + 1 > MaxChunks

Chunk(f) ==
  /\ Flowing
  /\ f = begun /\ f \notin ended /\ Received(f)
  /\ got[f] < form[f].chunks
  /\ got' = [got EXCEPT ![f] = @ + 1]
  /\ total' = total + 1
  /\ IF OverLimit(f)
     THEN AbortAll /\ UNCHANGED check
     ELSE /\ NoAbort
          /\ IF got[f] + 1 >= SniffChunks THEN StartCheck(f) ELSE UNCHANGED check
  /\ UNCHANGED <<form, begun, ended, put, object, late, closed>>
  /\ UNCHANGED answerVars

FileEnd(f) ==
  /\ Flowing
  /\ f = begun /\ f \notin ended /\ Received(f)
  /\ got[f] = form[f].chunks
  /\ ended' = ended \cup {f}
  /\ StartCheck(f)
  /\ UNCHANGED <<form, begun, got, total, put, object, late>>
  /\ UNCHANGED parserVars /\ UNCHANGED answerVars

(* The connection breaks before the body is complete.                      *)
ClientAborts ==
  /\ Flowing
  /\ AbortAll
  /\ UNCHANGED <<put, object, check, late, closed>>
  /\ UNCHANGED streamVars /\ UNCHANGED answerVars

--------------------------------------------------------------------------------
(* What runs beside it: uploads to R2 and validations.                     *)

(* An upload whose bytes are all sent may complete although it was told to *)
(* abort.  Of two parts with one name the last to complete stays.          *)
PutCompletes(f) ==
  /\ put[f] = "open" /\ f \in ended
  /\ put' = [put EXCEPT ![f] = "stored"]
  /\ object' = [object EXCEPT ![form[f].name] = f]
  /\ UNCHANGED <<check, late>>
  /\ UNCHANGED streamVars /\ UNCHANGED parserVars /\ UNCHANGED answerVars

PutFails(f) ==
  /\ put[f] = "open" /\ ~aborted
  /\ put' = [put EXCEPT ![f] = "failed"]
  /\ AbortAll
  /\ UNCHANGED <<object, check, late, closed>>
  /\ UNCHANGED streamVars /\ UNCHANGED answerVars

PutAborts(f) ==
  /\ put[f] = "open" /\ aborted
  /\ put' = [put EXCEPT ![f] = "aborted"]
  /\ UNCHANGED <<object, check, late>>
  /\ UNCHANGED streamVars /\ UNCHANGED parserVars /\ UNCHANGED answerVars

(* A bad verdict aborts; its promise is fulfilled all the same.            *)
MutantSwallowVerdict == NoAbort
OnBadVerdict == AbortAll

CheckDone(f) ==
  /\ check[f] = "running"
  /\ IF form[f].kind = "dangerous"
     THEN /\ check' = [check EXCEPT ![f] = "bad"]
          /\ late' = IF settled = "no" THEN late ELSE late \cup {f}
          /\ OnBadVerdict
     ELSE /\ check' = [check EXCEPT ![f] = "ok"]
          /\ NoAbort /\ UNCHANGED late
  /\ UNCHANGED <<put, object, closed>>
  /\ UNCHANGED streamVars /\ UNCHANGED answerVars

--------------------------------------------------------------------------------
(* The end of the parse and the handler behind it.                         *)

Close ==
  /\ Flowing
  /\ begun = Len(form) /\ \A f \in PartIds : f \in ended
  /\ closed' = "waiting"
  /\ UNCHANGED <<put, object, check, late, aborted, settled>>
  /\ UNCHANGED streamVars /\ UNCHANGED answerVars

MutantCloseWithoutWaiting == TRUE
UploadsSettled == \A f \in PartIds : put[f] # "open"

CloseResume ==
  /\ closed = "waiting"
  /\ UploadsSettled
  /\ closed' = "done"
  /\ settled' = CASE settled # "no" -> settled
                  [] settled = "no" /\ ~(\E f \in PartIds : Received(f)) -> "rejected"
                  [] OTHER -> "resolved"
  /\ UNCHANGED <<put, object, check, late, aborted>>
  /\ UNCHANGED streamVars /\ UNCHANGED answerVars

HandlerStep(from, to) ==
  /\ handler = from
  /\ handler' = to
  /\ UNCHANGED <<put, object, check, late>>
  /\ UNCHANGED streamVars /\ UNCHANGED parserVars

ParseRejected ==
  settled = "rejected" /\ HandlerStep("parsing", "failed") /\ UNCHANGED record

ParseResolved ==
  settled = "resolved" /\ HandlerStep("parsing", "validating") /\ UNCHANGED record

(* The validation promises never reject: their errors went to abortAll.    *)
ValidationsAwaited ==
  /\ \A f \in PartIds : Received(f) => check[f] \in {"ok", "bad"}
  /\ HandlerStep("validating", "finalizing")
  /\ UNCHANGED record

(* A password or an expiry of the wrong form; the objects are left.        *)
RejectFields == HandlerStep("finalizing", "failed") /\ UNCHANGED record

FinalizeTransfer ==
  HandlerStep("finalizing", "succeeded") /\ record' = "pending"

(* Transfer.create is not awaited; its failure is logged.                  *)
CreateRecord ==
  /\ record = "pending"
  /\ record' \in {"created", "lost"}
  /\ UNCHANGED <<put, object, check, late, handler>>
  /\ UNCHANGED streamVars /\ UNCHANGED parserVars

Receive ==
  \/ \E f \in PartIds : FilePart(f) \/ Chunk(f) \/ FileEnd(f)
  \/ Close

Background ==
  \E f \in PartIds : PutCompletes(f) \/ PutFails(f) \/ PutAborts(f) \/ CheckDone(f)

Handle ==
  \/ CloseResume
  \/ ParseRejected \/ ParseResolved \/ ValidationsAwaited
  \/ RejectFields \/ FinalizeTransfer \/ CreateRecord

Next == Receive \/ ClientAborts \/ Background \/ Handle

Spec == Init /\ [][Next]_vars

(* A body arrives to its end or the connection breaks; R2 answers or times *)
(* out; promises are resumed by the event loop.                            *)
FairSpec ==
  Spec /\ WF_vars(Receive) /\ WF_vars(Background) /\ WF_vars(Handle)

--------------------------------------------------------------------------------
(* Properties.                                                             *)

(* Every variable keeps its shape; the chunk that breaks the limit is the  *)
(* last one counted.                                                       *)
TypeOK ==
  /\ form \in Forms
  /\ begun \in 0..Len(form)
  /\ got \in [PartIds -> Nat]
  /\ ended \in SUBSET PartIds
  /\ total \in 0..(MaxChunks + 1)
  /\ put \in [PartIds -> {"none", "open", "stored", "failed", "aborted"}]
  /\ object \in [Names -> 0..Len(form)]
  /\ check \in [PartIds -> {"none", "running", "ok", "bad"}]
  /\ late \in SUBSET PartIds
  /\ aborted \in BOOLEAN
  /\ settled \in {"no", "resolved", "rejected"}
  /\ closed \in {"no", "waiting", "done"}
  /\ handler \in {"parsing", "validating", "finalizing", "succeeded", "failed"}
  /\ record \in {"none", "pending", "created", "lost"}

Published == handler = "succeeded"

(* README, "metadata lands in MongoDB only after storage succeeds": when   *)
(* the answer is success, the object of every file holds that file.        *)
PublishedFilesAreStored ==
  Published => \A f \in PartIds : Received(f) => object[form[f].name] = f

(* An upload over the total size or the number of files, or with a blocked *)
(* name, is never answered with success, although chunks are counted while *)
(* earlier files are already on their way to R2.                           *)
PublishedIsWithinLimits ==
  Published =>
    /\ total <= MaxChunks
    /\ Len(form) <= MaxFiles
    /\ \A f \in PartIds : form[f].kind # "blocked"

(* A dangerous file is never published when its verdict came before the    *)
(* parse was settled; a later verdict has no effect any more.              *)
OnlyLateVerdictsSlip ==
  Published =>
    \A f \in PartIds : Received(f) /\ form[f].kind = "dangerous" => f \in late

(* Every upload is answered, whatever aborts it and whenever: the close    *)
(* handler gives up on an aborted parse and relies on abortAll.            *)
EveryUploadIsAnswered == <>(handler \in {"succeeded", "failed"})
================================================================================
