-------------------------- MODULE CodeRegistry_proofs --------------------------
(***************************************************************************)
(* The codes of transfers, for any sets of shares, codes and titles: what  *)
(* a share whose code was free when it was drawn can rely on.              *)
(***************************************************************************)
EXTENDS CodeRegistry, TLAPS

(* A share has one code from its draw on.                                  *)
CodeInv ==
  \A s \in Shares :
    /\ code[s] = {} \/ \E c \in Codes : code[s] = {c}
    /\ step[s] = "drawing" => code[s] = {}
    /\ code[s] = {} => step[s] \in {"drawing", "failed"}

(* The order of a share's life.                                            *)
ShareInv ==
  \A s \in Shares :
    /\ insert[s] # "none" => step[s] \in {"inlining", "answered"}
    /\ doc[s] # "none" => insert[s] = "created"
    /\ s \in erasing => doc[s] = "deleted"
    /\ sweep[s] # "idle" => doc[s] \in {"expired", "deleted"}
    /\ doc[s] = "none" => text[s] = NoShare

(* Shares that still insert, write or delete under their code, or own it.  *)
Busy(s) ==
  \/ step[s] \in {"storing", "finalizing", "inlining"}
  \/ insert[s] = "pending" \/ doc[s] \in {"live", "expired"}
  \/ s \in erasing \/ sweep[s] # "idle"

(* Nobody else is busy under the code of a busy uncontested share.         *)
ExclusiveInv ==
  \A s \in Shares \ contested : \A d \in Shares \ {s} :
    Busy(s) /\ Busy(d) => code[s] # code[d]

(* The object stays the share's own from the upload to the deletion.       *)
OwnObjectInv ==
  \A s \in Shares \ contested :
    step[s] = "finalizing" \/ insert[s] = "pending" \/ doc[s] = "live" =>
      \A c \in code[s] : stored[<<c, TitleOf[s]>>] = s

NotRejectedInv == \A s \in Shares \ contested : insert[s] # "rejected"

RegistryInv ==
  /\ CodeInv /\ ShareInv /\ ExclusiveInv /\ OwnObjectInv /\ NotRejectedInv
  /\ OnlyOwnTextIsShown

--------------------------------------------------------------------------------
LEMMA EraseType ==
  ASSUME RegistryTypeOK, NEW s \in Shares, EraseObject(s)
  PROVE  stored' \in [Codes \X Titles -> Shares \cup {NoShare}]
BY DEF EraseObject, RegistryTypeOK

LEMMA RegistryTypeStep ==
  ASSUME RegistryTypeOK, RegistryNext
  PROVE  RegistryTypeOK'
<1> USE RegistryAssumption DEF RegistryAssumption, RegistryTypeOK
<1>1. PICK s \in Shares :
    \/ \E c \in Codes : Draw(s, c)
    \/ DrawsExhausted(s) \/ PutObjects(s) \/ Finalize(s)
    \/ InsertArrives(s) \/ WriteText(s)
    \/ PassExpiry(s) \/ CancelShare(s) \/ CancelErases(s)
    \/ SweepSelects(s) \/ SweepErases(s) \/ SweepMarks(s)
  BY DEF RegistryNext
<1>2. ASSUME NEW c \in Codes, Draw(s, c) PROVE RegistryTypeOK'
  <2>1. draws' \in [Shares -> 0..MaxDraws]
    BY <1>2 DEF Draw
  <2>2. code' \in [Shares -> SUBSET Codes]
    BY <1>2 DEF Draw
  <2>3. contested' \in SUBSET Shares
    BY <1>2 DEF Draw, Lingering, Having
  <2>4. step' \in [Shares -> {"drawing", "storing", "finalizing", "inlining",
                             "answered", "failed"}]
    BY <1>2 DEF Draw, Goto
  <2> QED
    BY <1>2, <2>1, <2>2, <2>3, <2>4 DEF Draw, deletionVars
<1>3. CASE DrawsExhausted(s) \/ Finalize(s)
  BY <1>3 DEF DrawsExhausted, Finalize, Goto, deletionVars
<1>4. CASE PutObjects(s)
  <2>1. stored' \in [Codes \X Titles -> Shares \cup {NoShare}]
    BY <1>4 DEF PutObjects
  <2> QED
    BY <1>4, <2>1 DEF PutObjects, Goto, deletionVars
<1>5. CASE InsertArrives(s)
  BY <1>5 DEF InsertArrives, shareVars, deletionVars
<1>6. CASE WriteText(s)
  <2>1. text' \in [Shares -> Shares \cup {NoShare}]
    BY <1>6 DEF WriteText, Documents, Having
  <2> QED
    BY <1>6, <2>1 DEF WriteText, Goto, deletionVars
<1>7. CASE PassExpiry(s) \/ CancelShare(s) \/ SweepSelects(s) \/ SweepMarks(s)
  BY <1>7 DEF PassExpiry, CancelShare, SweepSelects, SweepMarks, MarkGone, shareVars,
         deletionVars
<1>8. CASE CancelErases(s) \/ SweepErases(s)
  BY <1>8, EraseType DEF CancelErases, SweepErases, shareVars
<1> QED
  BY <1>1, <1>2, <1>3, <1>4, <1>5, <1>6, <1>7, <1>8

LEMMA RegistryTypeInit == RegistryInit => RegistryTypeOK
BY RegistryAssumption DEF RegistryAssumption, RegistryInit, RegistryTypeOK

(* Every variable keeps its shape, whoever shares, cancels and sweeps.     *)
THEOREM RegistryTypeCorrect == RegistrySpec => []RegistryTypeOK
<1>1. RegistryTypeOK /\ UNCHANGED registryVars => RegistryTypeOK'
  BY DEF RegistryTypeOK, registryVars, shareVars, deletionVars
<1> QED
  BY <1>1, RegistryTypeInit, RegistryTypeStep, PTL DEF RegistrySpec

--------------------------------------------------------------------------------
LEMMA DrawInv ==
  ASSUME RegistryTypeOK, RegistryInv, NEW s \in Shares, NEW c \in Codes, Draw(s, c)
  PROVE  RegistryInv'
<1> USE DEF RegistryInv
<1>1. /\ step[s] = "drawing"
      /\ UNCHANGED <<stored, insert, doc, text, erasing, sweep>>
  BY DEF Draw, deletionVars
<1>2. CASE IsTaken(c)
  <2>1. UNCHANGED <<step, code, contested>>
    BY <1>2 DEF Draw
  <2> QED
    BY <1>1, <2>1 DEF CodeInv, ShareInv, ExclusiveInv, Busy, OwnObjectInv,
           NotRejectedInv, OnlyOwnTextIsShown
<1>3. CASE ~IsTaken(c)
  <2>1. /\ code' = [code EXCEPT ![s] = {c}] /\ step' = [step EXCEPT ![s] = "storing"]
        /\ contested' = IF Lingering(c) = {} THEN contested
                        ELSE contested \cup Lingering(c) \cup {s}
    BY <1>3 DEF Draw, Goto
  <2>2. /\ code'[s] = {c} /\ step'[s] = "storing"
        /\ \A d \in Shares \ {s} : code'[d] = code[d] /\ step'[d] = step[d]
    BY <2>1 DEF RegistryTypeOK
  <2>3. insert[s] = "none" /\ doc[s] = "none" /\ s \notin erasing /\ sweep[s] = "idle"
    BY <1>1 DEF ShareInv, RegistryTypeOK
  <2>4. \A d \in Shares \ {s} : Busy(d)' <=> Busy(d)
    BY <1>1, <2>2 DEF Busy
  <2>5. \A d \in Shares \ {s} : Busy(d) /\ code[d] = {c} => d \in Lingering(c)
    BY <1>3 DEF Busy, Lingering, Having, IsTaken
  <2>6. CodeInv'
    BY <2>2 DEF CodeInv
  <2>7. ShareInv'
    BY <1>1, <2>2, <2>3 DEF ShareInv
  <2>8. ExclusiveInv'
    <3> SUFFICES ASSUME NEW a \in Shares, a \notin contested', NEW d \in Shares \ {a},
                        Busy(a)', Busy(d)'
                 PROVE  code'[a] # code'[d]
      BY DEF ExclusiveInv
    <3>1. CASE a = s
      <4>1. Lingering(c) = {}
        BY <2>1, <3>1
      <4> QED
        BY <2>2, <2>4, <2>5, <3>1, <4>1
    <3>2. CASE a # s /\ d = s
      BY <2>1, <2>2, <2>4, <2>5, <3>2
    <3>3. CASE a # s /\ d # s
      BY <2>1, <2>2, <2>4, <3>3 DEF ExclusiveInv
    <3> QED
      BY <3>1, <3>2, <3>3
  <2>9. OwnObjectInv'
    BY <1>1, <2>1, <2>2, <2>3 DEF OwnObjectInv
  <2> QED
    BY <1>1, <2>1, <2>6, <2>7, <2>8, <2>9 DEF NotRejectedInv, OnlyOwnTextIsShown
<1> QED
  BY <1>2, <1>3

(* No other action makes a share busy, gives a code or ends a contest.     *)
LEMMA StaysExclusive ==
  ASSUME RegistryTypeOK, RegistryInv, code' = code, contested' = contested,
         \A d \in Shares : Busy(d)' => Busy(d)
  PROVE  ExclusiveInv'
BY DEF RegistryInv, ExclusiveInv

(* An uncontested share and another busy one have no code in common.       *)
LEMMA NoCodeInCommon ==
  ASSUME RegistryInv, NEW s \in Shares \ contested, NEW d \in Shares \ {s},
         Busy(s), Busy(d), NEW c \in code[s]
  PROVE  c \notin code[d]
<1>1. code[s] = {c}
  BY DEF RegistryInv, CodeInv
<1>2. c \in code[d] => code[d] = {c}
  BY DEF RegistryInv, CodeInv
<1>3. code[s] # code[d]
  BY DEF RegistryInv, ExclusiveInv
<1> QED
  BY <1>1, <1>2, <1>3

LEMMA StoreInv ==
  ASSUME RegistryTypeOK, RegistryInv, NEW s \in Shares,
         DrawsExhausted(s) \/ PutObjects(s) \/ Finalize(s)
  PROVE  RegistryInv'
<1> USE DEF RegistryInv
<1>1. /\ UNCHANGED <<code, doc, text, erasing, sweep, contested>>
      /\ step[s] \in {"drawing", "storing", "finalizing"}
      /\ \A d \in Shares \ {s} : step'[d] = step[d] /\ insert'[d] = insert[d]
  BY DEF DrawsExhausted, PutObjects, Finalize, Goto, deletionVars, RegistryTypeOK
<1>2. insert[s] = "none" /\ doc[s] = "none" /\ s \notin erasing /\ sweep[s] = "idle"
  BY <1>1 DEF ShareInv, RegistryTypeOK
<1>3. \/ step'[s] = "failed" /\ insert'[s] = "none"
      \/ step[s] = "storing" /\ step'[s] = "finalizing" /\ insert'[s] = "none"
      \/ /\ step[s] = "finalizing" /\ step'[s] \in {"inlining", "answered"}
         /\ insert'[s] = "pending"
  BY <1>2 DEF DrawsExhausted, PutObjects, Finalize, Goto, RegistryTypeOK
<1>4. CodeInv'
  BY <1>1, <1>3 DEF CodeInv
<1>5. ShareInv'
  BY <1>1, <1>2, <1>3 DEF ShareInv
<1>6. ExclusiveInv'
  <2>1. \A d \in Shares : Busy(d)' => Busy(d)
    BY <1>1, <1>2, <1>3 DEF Busy
  <2> QED
    BY <1>1, <2>1, StaysExclusive
<1>7. OwnObjectInv'
  <2>1. CASE stored' = stored /\ ~PutObjects(s)
    BY <1>1, <1>2, <1>3, <2>1 DEF OwnObjectInv, DrawsExhausted, Finalize, Goto
  <2>2. CASE PutObjects(s) /\ step'[s] = "failed"
    <3>1. stored' = stored
      BY <2>2 DEF PutObjects, Goto, RegistryTypeOK
    <3> QED
      BY <1>1, <1>2, <1>3, <2>2, <3>1 DEF OwnObjectInv
  <2>3. CASE PutObjects(s) /\ step'[s] = "finalizing"
    <3>1. PICK c \in code[s] : stored' = [stored EXCEPT ![<<c, TitleOf[s]>>] = s]
      BY <2>3 DEF PutObjects, Goto, RegistryTypeOK
    <3>2. c \in Codes /\ TitleOf[s] \in Titles /\ code[s] = {c}
      BY <3>1, RegistryAssumption DEF RegistryAssumption, RegistryTypeOK, CodeInv
    <3>3. stored'[<<c, TitleOf[s]>>] = s
      BY <3>1, <3>2 DEF RegistryTypeOK
    <3>4. ASSUME NEW d \in (Shares \ contested) \ {s}, Busy(d), NEW e \in code[d]
          PROVE  stored'[<<e, TitleOf[d]>>] = stored[<<e, TitleOf[d]>>]
      <4>1. e # c
        BY <2>3, <3>1, <3>4, NoCodeInCommon DEF Busy, PutObjects
      <4>2. e \in Codes /\ TitleOf[d] \in Titles
        BY <3>4, RegistryAssumption DEF RegistryAssumption, RegistryTypeOK
      <4> QED
        BY <3>1, <4>1, <4>2 DEF RegistryTypeOK
    <3>5. \A d \in Shares \ {s} : step'[d] = "finalizing" \/ insert'[d] = "pending"
                                  \/ doc'[d] = "live" => Busy(d)
      BY <1>1 DEF Busy
    <3> QED
      BY <1>1, <3>2, <3>3, <3>4, <3>5 DEF OwnObjectInv
  <2> QED
    BY <1>3, <2>1, <2>2, <2>3 DEF DrawsExhausted, PutObjects, Finalize, Goto, RegistryTypeOK
<1>8. NotRejectedInv' /\ OnlyOwnTextIsShown'
  BY <1>1, <1>3 DEF NotRejectedInv, OnlyOwnTextIsShown
<1> QED
  BY <1>4, <1>5, <1>6, <1>7, <1>8

LEMMA InsertInv ==
  ASSUME RegistryTypeOK, RegistryInv, NEW s \in Shares, InsertArrives(s)
  PROVE  RegistryInv'
<1> USE DEF RegistryInv
<1>1. /\ UNCHANGED <<step, code, stored, text, erasing, sweep, contested>>
      /\ insert[s] = "pending"
      /\ \A d \in Shares \ {s} : insert'[d] = insert[d] /\ doc'[d] = doc[d]
      /\ \/ insert'[s] = "rejected" /\ doc'[s] = doc[s] /\ ViolatesIndex(s)
         \/ insert'[s] = "failed" /\ doc'[s] = doc[s]
         \/ insert'[s] = "created" /\ doc'[s] = "live"
  BY DEF InsertArrives, shareVars, deletionVars, RegistryTypeOK
<1>2. doc[s] = "none" /\ text[s] = NoShare /\ s \notin erasing /\ sweep[s] = "idle"
      /\ step[s] \in {"inlining", "answered"}
  BY <1>1 DEF ShareInv, RegistryTypeOK
<1>3. CodeInv' /\ ShareInv'
  BY <1>1, <1>2 DEF CodeInv, ShareInv
<1>4. ExclusiveInv'
  <2>1. \A d \in Shares : Busy(d)' => Busy(d)
    BY <1>1 DEF Busy
  <2> QED
    BY <1>1, <2>1, StaysExclusive
<1>5. OwnObjectInv'
  BY <1>1, <1>2 DEF OwnObjectInv
<1>6. NotRejectedInv'
  <2>1. s \notin contested => ~ViolatesIndex(s)
    BY <1>1 DEF ViolatesIndex, Rivals, ExclusiveInv, Busy
  <2> QED
    BY <1>1, <2>1 DEF NotRejectedInv
<1>7. OnlyOwnTextIsShown'
  BY <1>1, <1>2 DEF OnlyOwnTextIsShown
<1> QED
  BY <1>3, <1>4, <1>5, <1>6, <1>7

LEMMA TextInv ==
  ASSUME RegistryTypeOK, RegistryInv, NEW s \in Shares, WriteText(s)
  PROVE  RegistryInv'
<1> USE DEF RegistryInv
<1>1. /\ UNCHANGED <<code, stored, insert, doc, erasing, sweep, contested>>
      /\ step[s] = "inlining" /\ step'[s] = "answered"
      /\ \A d \in Shares \ {s} : step'[d] = step[d]
  BY DEF WriteText, Goto, deletionVars, RegistryTypeOK
<1>2. \/ text' = text
      \/ \E c \in code[s], x \in Shares :
           c \in code[x] /\ doc[x] # "none" /\ text' = [text EXCEPT ![x] = s]
  BY DEF WriteText, Documents, Having
<1>3. CodeInv' /\ OwnObjectInv' /\ NotRejectedInv'
  BY <1>1 DEF CodeInv, OwnObjectInv, NotRejectedInv
<1>4. ExclusiveInv'
  <2>1. \A d \in Shares : Busy(d)' => Busy(d)
    BY <1>1 DEF Busy
  <2> QED
    BY <1>1, <2>1, StaysExclusive
<1>5. ShareInv' /\ OnlyOwnTextIsShown'
  <2>1. CASE text' = text
    BY <1>1, <2>1 DEF ShareInv, OnlyOwnTextIsShown
  <2>2. CASE \E c \in code[s], x \in Shares :
               c \in code[x] /\ doc[x] # "none" /\ text' = [text EXCEPT ![x] = s]
    <3>1. PICK c \in code[s], x \in Shares :
            c \in code[x] /\ doc[x] # "none" /\ text' = [text EXCEPT ![x] = s]
      BY <2>2
    <3>2. \A d \in Shares \ {x} : text'[d] = text[d]
      BY <3>1 DEF RegistryTypeOK
    <3>3. text'[x] = s
      BY <3>1 DEF RegistryTypeOK
    <3>4. x \in contested \/ doc[x] # "live" \/ x = s
      BY <1>1, <3>1, NoCodeInCommon DEF Busy
    <3>5. ShareInv'
      BY <1>1, <3>1, <3>2 DEF ShareInv
    <3>6. OnlyOwnTextIsShown'
      BY <1>1, <3>2, <3>3, <3>4 DEF OnlyOwnTextIsShown
    <3> QED
      BY <3>5, <3>6
  <2> QED
    BY <1>2, <2>1, <2>2
<1> QED
  BY <1>3, <1>4, <1>5

(* Marking and selecting: documents only go from live to expired to        *)
(* deleted, and who deletes was busy before.                               *)
LEMMA MarkInv ==
  ASSUME RegistryTypeOK, RegistryInv, NEW s \in Shares,
         PassExpiry(s) \/ CancelShare(s) \/ SweepSelects(s) \/ SweepMarks(s)
  PROVE  RegistryInv'
<1> USE DEF RegistryInv
<1>1. /\ UNCHANGED <<step, code, stored, insert, contested>>
      /\ \A d \in Shares \ {s} :
           /\ doc'[d] = doc[d] /\ text'[d] = text[d] /\ sweep'[d] = sweep[d]
           /\ d \in erasing' => d \in erasing
  BY DEF PassExpiry, CancelShare, SweepSelects, SweepMarks, MarkGone, shareVars,
         deletionVars, RegistryTypeOK
<1>2. /\ (doc[s] # "none" /\ doc'[s] # "none" /\ doc'[s] # "live") \/ doc'[s] = doc[s]
      /\ text'[s] \in {text[s], NoShare}
      /\ s \in erasing' => doc'[s] = "deleted" /\ (doc[s] \in {"live", "expired"} \/ s \in erasing)
      /\ sweep'[s] # "idle" => doc'[s] \in {"expired", "deleted"}
      /\ sweep'[s] # "idle" => doc[s] = "expired" \/ sweep[s] # "idle"
      /\ doc'[s] \in {"live", "expired"} => doc[s] \in {"live", "expired"}
      /\ doc[s] # "none"
  BY DEF PassExpiry, CancelShare, SweepSelects, SweepMarks, MarkGone, shareVars,
         deletionVars, RegistryTypeOK, ShareInv
<1>3. CodeInv'
  BY <1>1 DEF CodeInv
<1>4. ShareInv'
  BY <1>1, <1>2 DEF ShareInv
<1>5. ExclusiveInv'
  <2>1. \A d \in Shares : Busy(d)' => Busy(d)
    BY <1>1, <1>2 DEF Busy
  <2> QED
    BY <1>1, <2>1, StaysExclusive
<1>6. OwnObjectInv' /\ NotRejectedInv' /\ OnlyOwnTextIsShown'
  BY <1>1, <1>2 DEF OwnObjectInv, NotRejectedInv, OnlyOwnTextIsShown
<1> QED
  BY <1>3, <1>4, <1>5, <1>6

(* An erasure by code and title takes no object of an uncontested share    *)
(* that still needs it: who erases is another's rival or past its own end. *)
LEMMA EraseInv ==
  ASSUME RegistryTypeOK, RegistryInv, NEW s \in Shares, CancelErases(s) \/ SweepErases(s)
  PROVE  RegistryInv'
<1> USE DEF RegistryInv
<1>1. /\ UNCHANGED <<step, code, insert, doc, text, contested>>
      /\ EraseObject(s) /\ (s \in erasing \/ sweep[s] = "selected")
      /\ erasing' \subseteq erasing
      /\ \A d \in Shares : sweep'[d] # "idle" => sweep[d] # "idle"
  BY DEF CancelErases, SweepErases, shareVars, RegistryTypeOK
<1>2. doc[s] \in {"expired", "deleted"} /\ Busy(s)
  BY <1>1 DEF ShareInv, Busy
<1>3. ASSUME NEW d \in Shares \ contested, NEW c \in code[d],
             step[d] = "finalizing" \/ insert[d] = "pending" \/ doc[d] = "live"
      PROVE  stored'[<<c, TitleOf[d]>>] = stored[<<c, TitleOf[d]>>]
  <2>1. d # s /\ Busy(d)
    BY <1>2, <1>3 DEF ShareInv, Busy
  <2>2. c \notin code[s]
    BY <1>2, <2>1, NoCodeInCommon
  <2>3. <<c, TitleOf[d]>> \in Codes \X Titles
    BY RegistryAssumption DEF RegistryAssumption, RegistryTypeOK
  <2> QED
    BY <1>1, <2>2, <2>3 DEF EraseObject
<1>4. CodeInv' /\ ShareInv' /\ NotRejectedInv' /\ OnlyOwnTextIsShown'
  BY <1>1 DEF CodeInv, ShareInv, NotRejectedInv, OnlyOwnTextIsShown
<1>5. ExclusiveInv'
  <2>1. \A d \in Shares : Busy(d)' => Busy(d)
    BY <1>1 DEF Busy
  <2> QED
    BY <1>1, <2>1, StaysExclusive
<1>6. OwnObjectInv'
  BY <1>1, <1>3 DEF OwnObjectInv
<1> QED
  BY <1>4, <1>5, <1>6

LEMMA RegistryInvStep ==
  ASSUME RegistryTypeOK, RegistryInv, RegistryNext
  PROVE  RegistryInv'
BY DrawInv, StoreInv, InsertInv, TextInv, MarkInv, EraseInv DEF RegistryNext

LEMMA RegistryInvHolds == RegistrySpec => []RegistryInv
<1>1. RegistryInit => RegistryInv
  BY RegistryAssumption
     DEF RegistryAssumption, RegistryInit, RegistryInv, CodeInv, ShareInv, ExclusiveInv,
         Busy, OwnObjectInv, NotRejectedInv, OnlyOwnTextIsShown
<1>2. RegistryInv /\ UNCHANGED registryVars => RegistryInv'
  BY DEF RegistryInv, CodeInv, ShareInv, ExclusiveInv, Busy, OwnObjectInv,
         NotRejectedInv, OnlyOwnTextIsShown, registryVars, shareVars, deletionVars
<1> QED
  BY <1>1, <1>2, RegistryInvStep, RegistryTypeCorrect, PTL DEF RegistrySpec

(* A share that drew a free code is never rejected by the index after its  *)
(* sender was answered, and while it is live its object is its own,        *)
(* whatever is cancelled, swept or drawn again around it.                  *)
THEOREM UncontestedIsWhole == RegistrySpec => []UncontestedShareIsWhole
<1>1. RegistryInv => UncontestedShareIsWhole
  BY DEF RegistryInv, OwnObjectInv, NotRejectedInv, UncontestedShareIsWhole
<1> QED
  BY <1>1, RegistryInvHolds, PTL

(* No live share that drew a free code shows the text of another.          *)
THEOREM OwnTextShown == RegistrySpec => []OnlyOwnTextIsShown
<1>1. RegistryInv => OnlyOwnTextIsShown
  BY DEF RegistryInv
<1> QED
  BY <1>1, RegistryInvHolds, PTL
================================================================================
