----------------------------- MODULE CodeRegistry ------------------------------
(***************************************************************************)
(* Codes of transfers: drawing one (services/codeGenerator.js), storing    *)
(* the objects under it, answering the sender while the document is still  *)
(* on its way (finalizeTransfer in routes/upload.js), the text written     *)
(* into the document of a snippet (routes/text.js), and the deletions that *)
(* free the code again.                                                    *)
(*                                                                         *)
(* A share is one request to POST /api/upload, /api/upload/clipboard or    *)
(* /api/text/share and the document it inserts.  The generator looks for   *)
(* unexpired documents, the unique index active_code_unique for undeleted  *)
(* ones, and object keys are made of the code and the title: three views   *)
(* of who has a code.                                                      *)
(***************************************************************************)
EXTENDS Naturals

CONSTANTS
  Shares,      \* requests that share something
  Snippets,    \* those that share a text
  Codes,       \* what generateNumericCode draws from
  Titles, TitleOf,  \* sanitized file name of a share
  MaxDraws,    \* MAX_GENERATION_RETRIES
  NoShare

ASSUME RegistryAssumption ==
  /\ NoShare \notin Shares /\ Snippets \subseteq Shares
  /\ TitleOf \in [Shares -> Titles] /\ MaxDraws \in Nat

VARIABLES
  step,       \* where the handler of a share is
  draws,      \* attempts of generateUniqueCode
  code,       \* the code a share has drawn, in a set of at most one
  stored,     \* whose bytes the object of a code and a title holds
  insert,     \* Transfer.create: none, pending, created, rejected, failed
  doc,        \* the document: none, live, expired (by date), deleted
  text,       \* whose text files[0].inlineContent of a document is
  erasing,    \* cancelled documents whose objects are still to be deleted
  sweep,      \* expireOne per document: idle, selected, erased
  contested   \* history: shares that drew a code somebody still had to do with

shareVars == <<step, draws, code>>
deletionVars == <<erasing, sweep>>
registryVars == <<shareVars, stored, insert, doc, text, deletionVars, contested>>

RegistryInit ==
  /\ step = [s \in Shares |-> "drawing"]
  /\ draws = [s \in Shares |-> 0]
  /\ code = [s \in Shares |-> {}]
  /\ stored = [x \in Codes \X Titles |-> NoShare]
  /\ insert = [s \in Shares |-> "none"]
  /\ doc = [s \in Shares |-> "none"]
  /\ text = [s \in Shares |-> NoShare]
  /\ erasing = {}
  /\ sweep = [s \in Shares |-> "idle"]
  /\ contested = {}

Having(c) == {s \in Shares : c \in code[s]}
Rivals(s) == {d \in Shares \ {s} : code[d] = code[s]}
Goto(s, to) == step' = [step EXCEPT ![s] = to]

(* findOne({ code, isDeleted: false, expiresAt: { $gt: now } }).           *)
MutantNeverTaken(c) == FALSE
IsTaken(c) == \E d \in Having(c) : doc[d] = "live"

(* Shares that the generator does not see but that will still insert,      *)
(* write or delete under the code.                                         *)
Lingering(c) ==
  {d \in Having(c) :
     \/ step[d] \in {"storing", "finalizing", "inlining"}
     \/ insert[d] = "pending" \/ doc[d] = "expired"
     \/ d \in erasing \/ sweep[d] # "idle"}

Draw(s, c) ==
  /\ step[s] = "drawing" /\ draws[s] < MaxDraws
  /\ draws' = [draws EXCEPT ![s] = @ + 1]
  /\ IF IsTaken(c)
     THEN UNCHANGED <<step, code, contested>>
     ELSE /\ code' = [code EXCEPT ![s] = {c}]
          /\ Goto(s, "storing")
          /\ contested' = IF Lingering(c) = {} THEN contested
                          ELSE contested \cup Lingering(c) \cup {s}
  /\ UNCHANGED <<stored, insert, doc, text>> /\ UNCHANGED deletionVars

DrawsExhausted(s) ==
  /\ step[s] = "drawing" /\ draws[s] = MaxDraws
  /\ Goto(s, "failed")
  /\ UNCHANGED <<draws, code, stored, insert, doc, text, contested>>
  /\ UNCHANGED deletionVars

PutObjects(s) ==
  /\ step[s] = "storing"
  /\ \/ /\ \E c \in code[s] : stored' = [stored EXCEPT ![<<c, TitleOf[s]>>] = s]
        /\ Goto(s, "finalizing")
     \/ Goto(s, "failed") /\ UNCHANGED stored
  /\ UNCHANGED <<draws, code, insert, doc, text, contested>>
  /\ UNCHANGED deletionVars

(* The payload is complete, the insert is sent and not awaited; a snippet  *)
(* goes on to write its text, any other share answers.                     *)
Finalize(s) ==
  /\ step[s] = "finalizing"
  /\ insert' = [insert EXCEPT ![s] = "pending"]
  /\ Goto(s, IF s \in Snippets THEN "inlining" ELSE "answered")
  /\ UNCHANGED <<draws, code, stored, doc, text, contested>>
  /\ UNCHANGED deletionVars

(* The partial unique index { code: 1 } over isDeleted: false.             *)
ViolatesIndex(s) == \E d \in Rivals(s) : doc[d] \in {"live", "expired"}

InsertArrives(s) ==
  /\ insert[s] = "pending"
  /\ \/ /\ ViolatesIndex(s)
        /\ insert' = [insert EXCEPT ![s] = "rejected"] /\ UNCHANGED doc
     \/ /\ ~ViolatesIndex(s)
        /\ insert' = [insert EXCEPT ![s] = "created"]
        /\ doc' = [doc EXCEPT ![s] = "live"]
     \/ insert' = [insert EXCEPT ![s] = "failed"] /\ UNCHANGED doc
  /\ UNCHANGED <<stored, text, contested>>
  /\ UNCHANGED shareVars /\ UNCHANGED deletionVars

(* updateOne({ code }): without a sort it takes any document of the code,  *)
(* deleted or not; an error is logged.                                     *)
Documents(c) == {d \in Having(c) : doc[d] # "none"}
WriteText(s) ==
  /\ step[s] = "inlining"
  /\ \/ \E c \in code[s] : \E d \in Documents(c) : text' = [text EXCEPT ![d] = s]
     \/ UNCHANGED text
  /\ Goto(s, "answered")
  /\ UNCHANGED <<draws, code, stored, insert, doc, contested>>
  /\ UNCHANGED deletionVars

PassExpiry(s) ==
  /\ doc[s] = "live"
  /\ doc' = [doc EXCEPT ![s] = "expired"]
  /\ UNCHANGED <<stored, insert, text, contested>>
  /\ UNCHANGED shareVars /\ UNCHANGED deletionVars

MarkGone(s) ==
  /\ doc' = [doc EXCEPT ![s] = "deleted"]
  /\ text' = [text EXCEPT ![s] = NoShare]

EraseObject(s) ==
  stored' = [x \in Codes \X Titles |->
               IF x[1] \in code[s] /\ x[2] = TitleOf[s] THEN NoShare ELSE stored[x]]

(* Cancel marks first and deletes the objects in a second step.            *)
CancelShare(s) ==
  /\ doc[s] \in {"live", "expired"}
  /\ MarkGone(s)
  /\ erasing' = erasing \cup {s}
  /\ UNCHANGED <<stored, insert, sweep, contested>> /\ UNCHANGED shareVars

CancelErases(s) ==
  /\ s \in erasing
  /\ EraseObject(s)
  /\ erasing' = erasing \ {s}
  /\ UNCHANGED <<insert, doc, text, sweep, contested>> /\ UNCHANGED shareVars

(* The cleanup selects expired documents, deletes the objects and then     *)
(* marks what nobody has marked in the meantime.                           *)
SweepSelects(s) ==
  /\ sweep[s] = "idle" /\ doc[s] = "expired"
  /\ sweep' = [sweep EXCEPT ![s] = "selected"]
  /\ UNCHANGED <<stored, insert, doc, text, erasing, contested>>
  /\ UNCHANGED shareVars

SweepErases(s) ==
  /\ sweep[s] = "selected"
  /\ EraseObject(s)
  /\ sweep' = [sweep EXCEPT ![s] = "erased"]
  /\ UNCHANGED <<insert, doc, text, erasing, contested>> /\ UNCHANGED shareVars

SweepMarks(s) ==
  /\ sweep[s] = "erased"
  /\ sweep' = [sweep EXCEPT ![s] = "idle"]
  /\ IF doc[s] = "expired" THEN MarkGone(s) ELSE UNCHANGED <<doc, text>>
  /\ UNCHANGED <<stored, insert, erasing, contested>> /\ UNCHANGED shareVars

RegistryNext ==
  \E s \in Shares :
    \/ \E c \in Codes : Draw(s, c)
    \/ DrawsExhausted(s) \/ PutObjects(s) \/ Finalize(s)
    \/ InsertArrives(s) \/ WriteText(s)
    \/ PassExpiry(s) \/ CancelShare(s) \/ CancelErases(s)
    \/ SweepSelects(s) \/ SweepErases(s) \/ SweepMarks(s)

RegistrySpec == RegistryInit /\ [][RegistryNext]_registryVars

--------------------------------------------------------------------------------
(* Properties.                                                             *)

(* Every variable keeps its shape.                                         *)
RegistryTypeOK ==
  /\ step \in [Shares -> {"drawing", "storing", "finalizing", "inlining",
                          "answered", "failed"}]
  /\ draws \in [Shares -> 0..MaxDraws]
  /\ code \in [Shares -> SUBSET Codes]
  /\ stored \in [Codes \X Titles -> Shares \cup {NoShare}]
  /\ insert \in [Shares -> {"none", "pending", "created", "rejected", "failed"}]
  /\ doc \in [Shares -> {"none", "live", "expired", "deleted"}]
  /\ text \in [Shares -> Shares \cup {NoShare}]
  /\ erasing \in SUBSET Shares
  /\ sweep \in [Shares -> {"idle", "selected", "erased"}]
  /\ contested \in SUBSET Shares

(* A code that nobody had to do with when it was drawn is its share's own: *)
(* the index does not reject the document although the sender was answered *)
(* first, and a live transfer still has its own object.                    *)
UncontestedShareIsWhole ==
  \A s \in Shares \ contested :
    /\ insert[s] # "rejected"
    /\ doc[s] = "live" => \A c \in code[s] : stored[<<c, TitleOf[s]>>] = s

(* The receivers of a live transfer are shown its own text or none, even   *)
(* though the update that writes a text selects by code alone.             *)
OnlyOwnTextIsShown ==
  \A s \in Shares \ contested : doc[s] = "live" => text[s] \in {s, NoShare}
================================================================================
