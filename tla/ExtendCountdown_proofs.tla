------------------------- MODULE ExtendCountdown_proofs -------------------------
(***************************************************************************)
(* Theorems about ExtendCountdown, for any set of requests and owners, any *)
(* extensions and any bound of the clock.                                  *)
(***************************************************************************)
EXTENDS ExtendCountdown, TLAPS

(* What may be computed for an expiry is a later date, never NoCountdown.  *)
LEMMA ExpiryFacts ==
  /\ FirstExpiry \in Expiries
  /\ \A x \in Expiries : x \in Nat /\ x # 0 /\ x >= FirstExpiry
  /\ \A e \in Extensions : FirstExpiry + e \in Expiries
BY ConstantsAreSound DEF ConstantsAreSound, Expiries

LEMMA DeletedDocs ==
  ASSUME doc \in Docs
  PROVE  Deleted \in Docs /\ [doc EXCEPT !.isDeleted = TRUE] \in Docs
BY DEF Docs, Deleted

LEMMA InitTypeOK == Init => TypeOK
<1> SUFFICES ASSUME Init PROVE TypeOK
  OBVIOUS
<1>1. Fresh \in Docs
  BY ExpiryFacts DEF Fresh, Docs
<1>2. 0 \in 0..MaxTime
  BY ConstantsAreSound DEF ConstantsAreSound
<1>3. QED
  BY <1>1, <1>2, ExpiryFacts DEF Init, TypeOK, RestoreSteps

(* An admitted request computes one of the expiries.                       *)
LEMMA ComputedExpiry ==
  ASSUME TypeOK, NEW r \in Requests, MayExtend(r), Unextended(snap[r])
  PROVE  BaseExpiry(r) = FirstExpiry
<1>1. snap[r].expiresAt = FirstExpiry
  BY DEF MayExtend, Unextended
<1>2. FirstExpiry \in Nat /\ now \in Nat /\ ~(FirstExpiry < now)
  BY <1>1, ConstantsAreSound DEF ConstantsAreSound, MayExtend, TypeOK
<1>3. QED
  BY <1>1, <1>2 DEF BaseExpiry

LEMMA RequestTypeOK ==
  ASSUME TypeOK, NEW r \in Requests, RequestInv(r), Extend(r)
  PROVE  TypeOK'
<1> USE DEF Goto, requestVars, deletionVars, history
<1>1. CASE ExtendRead(r)
  BY <1>1 DEF ExtendRead, TypeOK
<1>2. CASE ExtendReject(r)
  BY <1>2 DEF ExtendReject, TypeOK
<1>3. CASE ExtendStart(r)
  <2>1. BaseExpiry(r) = FirstExpiry
    BY <1>3, ComputedExpiry DEF ExtendStart, RequestInv
  <2>2. PICK e \in Extensions : newExpiry' = [newExpiry EXCEPT ![r] = BaseExpiry(r) + e]
    BY <1>3 DEF ExtendStart
  <2>3. newExpiry' \in [Requests -> {0} \cup Expiries]
    BY <2>1, <2>2, ExpiryFacts DEF TypeOK
  <2>4. QED
    BY <1>3, <2>3 DEF ExtendStart, TypeOK
<1>4. CASE ExtendUpdate(r)
  <2>1. CASE ExtendFilter
    <3>1. doc' \in Docs
      <4>1. newExpiry[r] \in Expiries
        BY <1>4 DEF ExtendUpdate, RequestInv
      <4>2. QED
        BY <1>4, <2>1, <4>1 DEF ExtendUpdate, TypeOK, Docs
    <3>2. QED
      BY <1>4, <2>1, <3>1 DEF ExtendUpdate, TypeOK
  <2>2. CASE ~ExtendFilter
    BY <1>4, <2>2 DEF ExtendUpdate, TypeOK
  <2>3. QED
    BY <2>1, <2>2
<1>5. CASE ExtendReschedule(r)
  <2>1. Rescheduled(r) \in {NoCountdown} \cup Expiries
    BY DEF Rescheduled, TypeOK, Docs, NoCountdown
  <2>2. QED
    BY <1>5, <2>1 DEF ExtendReschedule, TypeOK
<1>6. CASE ExtendFails(r)
  BY <1>6 DEF ExtendFails, TypeOK
<1>7. QED
  BY <1>1, <1>2, <1>3, <1>4, <1>5, <1>6 DEF Extend

LEMMA SystemTypeOK ==
  ASSUME TypeOK,
         CountdownTick \/ ExpireOne \/ Delete \/ Crash
           \/ RestoreFind \/ RestoreGivesUp \/ RestoreSchedule \/ AdvanceTime
  PROVE  TypeOK'
<1> USE DEF requestVars, deletionVars, history
<1>1. CASE CountdownTick
  BY <1>1 DEF CountdownTick, TypeOK
<1>2. CASE ExpireOne
  BY <1>2, DeletedDocs DEF ExpireOne, SelectExpired, ExpireOneMark,
     ExpireOneFails, ExpireOneClear, TypeOK
<1>3. CASE Delete
  BY <1>3, DeletedDocs DEF Delete, DeleteMark, DeleteClear, GraceBurn, TypeOK
<1>4. CASE Crash
  <2>1. [step |-> "due", expiresAt |-> 0]
          \in [step: RestoreSteps, expiresAt: {0} \cup Expiries]
    BY DEF RestoreSteps
  <2>2. QED
    BY <1>4, <2>1 DEF Crash, TypeOK
<1>5. CASE RestoreFind
  <2>1. doc.expiresAt \in Expiries
    BY DEF TypeOK, Docs
  <2>2. restore' \in [step: RestoreSteps, expiresAt: {0} \cup Expiries]
    BY <1>5, <2>1 DEF RestoreFind, RestoreSteps
  <2>3. QED
    BY <1>5, <2>2 DEF RestoreFind, TypeOK
<1>6. CASE RestoreSchedule
  <2>1. restore.expiresAt \in {NoCountdown} \cup Expiries
    BY DEF TypeOK, NoCountdown
  <2>2. QED
    BY <1>6, <2>1 DEF RestoreSchedule, TypeOK, RestoreSteps
<1>7. CASE AdvanceTime
  <2>1. now' \in 0..MaxTime
    BY <1>7, ConstantsAreSound DEF ConstantsAreSound, AdvanceTime, TypeOK
  <2>2. QED
    BY <1>7, <2>1 DEF AdvanceTime, TypeOK
<1>8. CASE RestoreGivesUp
  BY <1>8 DEF RestoreGivesUp, RestoreSteps, TypeOK
<1>9. QED
  BY <1>1, <1>2, <1>3, <1>4, <1>5, <1>6, <1>7, <1>8

--------------------------------------------------------------------------------
(* The invariant holds at the start.                                       *)
LEMMA InitExtendInv == Init => ExtendInv
<1> SUFFICES ASSUME Init PROVE ExtendInv
  OBVIOUS
<1>1. FirstExpiry \in Nat /\ FirstExpiry # 0
  BY ConstantsAreSound DEF ConstantsAreSound
<1>2. /\ Fresh.expiresAt = FirstExpiry /\ Fresh.owned = TRUE
      /\ Fresh.isDeleted = FALSE /\ Fresh.extendedOnce = FALSE
  BY DEF Fresh
<1>3. restore.step = "done" /\ restore.expiresAt = 0
  BY DEF Init
<1>4. ScheduleInv
  BY <1>1, <1>2, <1>3 DEF Init, ScheduleInv
<1>5. ASSUME NEW r \in Requests PROVE RequestInv(r)
  BY <1>1, <1>2 DEF Init, RequestInv, Unextended
<1>6. LiveTransferIsCountedDown /\ CountdownIsNeverLate /\ ExtendedOnceByOwner
  BY <1>1, <1>2 DEF Init, LiveTransferIsCountedDown, CountdownIsNeverLate,
     ExtendedOnceByOwner, NoCountdown
<1>7. Unextended(doc) /\ doc.owned /\ extensions = {}
  BY <1>2 DEF Init, Unextended
<1>8. QED
  BY <1>4, <1>5, <1>6, <1>7 DEF ExtendInv

(* Every date in the state is a number; those of documents are not 0.      *)
LEMMA Dates ==
  ASSUME TypeOK
  PROVE  /\ now \in Nat /\ countdown \in Nat
         /\ doc.expiresAt \in Expiries
         /\ doc.expiresAt \in Nat /\ doc.expiresAt # 0
         /\ restore.expiresAt \in Nat
         /\ \A r \in Requests :
              /\ snap[r].expiresAt \in Nat /\ snap[r].expiresAt # 0
              /\ newExpiry[r] \in Nat
<1>1. doc.expiresAt \in Expiries /\ restore.expiresAt \in {0} \cup Expiries
  BY DEF TypeOK, Docs
<1>2. \A r \in Requests : snap[r].expiresAt \in Expiries
  BY DEF TypeOK, Docs
<1>3. now \in Nat
  BY ConstantsAreSound DEF ConstantsAreSound, TypeOK
<1>4. QED
  BY <1>1, <1>2, <1>3, ExpiryFacts DEF TypeOK, NoCountdown

(* A step leaves request x alone, or ends it.                              *)
Untouched(x) ==
  /\ snap'[x] = snap[x]
  /\ newExpiry'[x] = newExpiry[x]
  /\ pc'[x] = pc[x] \/ pc'[x] = "done"
  /\ x \in extensions' <=> x \in extensions

(* The document only moves forward.                                        *)
Forward ==
  /\ doc'.expiresAt >= doc.expiresAt
  /\ doc.isDeleted => doc'.isDeleted

LEMMA QuietRequest ==
  ASSUME TypeOK, TypeOK', NEW x \in Requests, RequestInv(x), Untouched(x), Forward
  PROVE  RequestInv(x)'
<1>1. snap[x].expiresAt \in Nat /\ doc.expiresAt \in Nat /\ doc'.expiresAt \in Nat
  BY Dates, ExpiryFacts DEF TypeOK, Docs
<1>2. snap'[x].expiresAt <= doc'.expiresAt
  BY <1>1 DEF RequestInv, Untouched, Forward
<1>3. QED
  BY <1>2 DEF RequestInv, Unextended, Untouched, Forward

(* What the server does beside the requests touches neither the expiry nor *)
(* an extension.                                                           *)
SameExpiry ==
  /\ doc'.expiresAt = doc.expiresAt
  /\ doc'.extendedOnce = doc.extendedOnce
  /\ doc.isDeleted => doc'.isDeleted
  /\ doc'.owned = doc.owned \/ doc'.isDeleted
  /\ UNCHANGED <<snap, newExpiry, extensions>>
  /\ \A x \in Requests : pc'[x] = pc[x] \/ pc'[x] = "done"

LEMMA SystemKeepsRequests ==
  ASSUME TypeOK, TypeOK', ExtendInv, SameExpiry
  PROVE  /\ \A x \in Requests : RequestInv(x)'
         /\ Unextended(doc)'
         /\ (doc.owned \/ doc.isDeleted)'
         /\ (extensions # {} => doc.extendedOnce)'
         /\ ExtendedOnceByOwner'
<1>1. doc.expiresAt \in Nat
  BY Dates
<1>2. Forward /\ \A x \in Requests : Untouched(x)
  BY <1>1 DEF SameExpiry, Forward, Untouched
<1>3. QED
  BY <1>2, QuietRequest DEF ExtendInv, SameExpiry, Unextended, ExtendedOnceByOwner

LEMMA SystemExtendInv ==
  ASSUME TypeOK, TypeOK', ExtendInv,
         CountdownTick \/ ExpireOne \/ Delete \/ Crash
           \/ RestoreFind \/ RestoreGivesUp \/ RestoreSchedule \/ AdvanceTime
  PROVE  ExtendInv'
<1> USE DEF requestVars, deletionVars, history
<1>1. /\ Deleted.isDeleted /\ Deleted.expiresAt = doc.expiresAt
      /\ Deleted.extendedOnce = doc.extendedOnce
      /\ [doc EXCEPT !.isDeleted = TRUE].isDeleted
      /\ [doc EXCEPT !.isDeleted = TRUE].expiresAt = doc.expiresAt
      /\ [doc EXCEPT !.isDeleted = TRUE].extendedOnce = doc.extendedOnce
  BY DEF Deleted, TypeOK, Docs
<1>2. SameExpiry
  <2>1. CASE ExpireOne \/ Delete
    BY <1>1, <2>1 DEF ExpireOne, SelectExpired, ExpireOneMark, ExpireOneFails,
       ExpireOneClear, Delete, DeleteMark, DeleteClear, GraceBurn, SameExpiry
  <2>2. CASE Crash
    BY <2>2 DEF Crash, SameExpiry, TypeOK
  <2>3. CASE CountdownTick \/ RestoreFind \/ RestoreGivesUp \/ RestoreSchedule \/ AdvanceTime
    BY <2>3 DEF CountdownTick, RestoreFind, RestoreGivesUp, RestoreSchedule,
       AdvanceTime, SameExpiry
  <2>4. QED
    BY <2>1, <2>2, <2>3
<1> SUFFICES ScheduleInv' /\ CountdownIsNeverLate' /\ LiveTransferIsCountedDown'
  BY <1>2, SystemKeepsRequests DEF ExtendInv
<1> USE DEF ExtendInv, ScheduleInv, CountdownIsNeverLate,
            LiveTransferIsCountedDown, Rescheduling, NoCountdown
<1>3. CASE CountdownTick
  BY <1>3, Dates DEF CountdownTick
<1>4. CASE ExpireOne
  <2>1. CASE SelectExpired
    BY <2>1 DEF SelectExpired
  <2>2. CASE ExpireOneMark
    BY <2>2, <1>1 DEF ExpireOneMark
  <2>3. CASE ExpireOneFails
    BY <2>3 DEF ExpireOneFails
  <2>4. CASE ExpireOneClear
    BY <2>4, Dates DEF ExpireOneClear
  <2>5. QED
    BY <1>4, <2>1, <2>2, <2>3, <2>4 DEF ExpireOne
<1>5. CASE Delete
  <2>1. CASE DeleteMark
    BY <2>1, <1>1 DEF DeleteMark
  <2>2. CASE DeleteClear
    BY <2>2, Dates DEF DeleteClear
  <2>3. CASE GraceBurn
    BY <2>3, <1>1 DEF GraceBurn
  <2>4. QED
    BY <1>5, <2>1, <2>2, <2>3 DEF Delete
<1>6. CASE Crash
  BY <1>6, Dates DEF Crash
<1>7. CASE RestoreFind
  <2>1. doc.expiresAt \in Nat /\ doc.expiresAt # 0 /\ now \in Nat
    BY Dates
  <2>2. CASE IsActive
    BY <1>7, <2>1, <2>2 DEF RestoreFind
  <2>3. CASE ~IsActive
    BY <1>7, <2>1, <2>3 DEF RestoreFind, IsActive
  <2>4. QED
    BY <2>2, <2>3
<1>8. CASE RestoreSchedule
  BY <1>8, Dates DEF RestoreSchedule
<1>9. CASE AdvanceTime
  BY <1>9, Dates DEF AdvanceTime
<1>10. CASE RestoreGivesUp
  BY <1>10, Dates DEF RestoreGivesUp
<1>11. QED
  BY <1>3, <1>4, <1>5, <1>6, <1>7, <1>8, <1>9, <1>10

(* One request's step leaves the others alone when it only moves forward.  *)
LEMMA OtherRequests ==
  ASSUME TypeOK, TypeOK', ExtendInv, Forward, NEW r \in Requests,
         \A x \in Requests \ {r} : Untouched(x), RequestInv(r)'
  PROVE  \A x \in Requests : RequestInv(x)'
BY QuietRequest DEF ExtendInv

(* The update: before the one extension the expiry is the first one, so    *)
(* whatever was computed is later than all that is known of it.            *)
LEMMA UpdateExtendInv ==
  ASSUME TypeOK, TypeOK', ExtendInv, NEW r \in Requests, ExtendUpdate(r)
  PROVE  ExtendInv'
<1> USE DEF Goto, deletionVars
<1>1. /\ pc \in [Requests -> {"idle", "check", "update", "won", "lost", "done"}]
      /\ pc[r] = "update" /\ RequestInv(r)
  BY DEF TypeOK, ExtendUpdate, ExtendInv
<1>2. CASE ExtendFilter
  <2>1. /\ doc'.expiresAt = newExpiry[r] /\ doc'.extendedOnce
        /\ doc'.isDeleted = doc.isDeleted /\ ~doc.isDeleted
        /\ doc'.owned = doc.owned
        /\ extensions = {} /\ extensions' = {r}
        /\ doc.expiresAt = FirstExpiry
    <3>1. ~doc.extendedOnce /\ ~doc.isDeleted
      BY <1>2 DEF ExtendFilter
    <3>2. extensions = {} /\ doc.expiresAt = FirstExpiry
      BY <3>1 DEF ExtendInv, Unextended
    <3>3. /\ doc' = [doc EXCEPT !.expiresAt = newExpiry[r], !.extendedOnce = TRUE]
          /\ extensions' = extensions \cup {r}
      BY <1>2 DEF ExtendUpdate
    <3>4. doc \in [isDeleted: BOOLEAN, owned: BOOLEAN,
                  expiresAt: Expiries, extendedOnce: BOOLEAN]
      BY DEF TypeOK, Docs
    <3>5. /\ doc'.expiresAt = newExpiry[r] /\ doc'.extendedOnce = TRUE
          /\ doc'.isDeleted = doc.isDeleted /\ doc'.owned = doc.owned
      BY <3>3, <3>4
    <3>6. QED
      BY <3>1, <3>2, <3>3, <3>5
  <2>2. newExpiry[r] \in Nat /\ FirstExpiry \in Nat /\ newExpiry[r] >= FirstExpiry
    BY <1>1, ExpiryFacts DEF RequestInv
  <2>3. Forward
    BY <2>1, <2>2 DEF Forward
  <2>4. pc' = [pc EXCEPT ![r] = "won"]
    BY <1>2 DEF ExtendUpdate
  <2>5. \A x \in Requests \ {r} : Untouched(x)
    BY <1>1, <2>1, <2>4 DEF ExtendUpdate, Untouched
  <2>6. RequestInv(r)'
    <3>1. snap'[r].expiresAt <= doc'.expiresAt
      BY <1>1, <2>1, <2>2, Dates DEF ExtendUpdate, RequestInv
    <3>2. QED
      BY <1>1, <2>1, <2>4, <3>1 DEF ExtendUpdate, RequestInv, Unextended
  <2>7. CountdownIsNeverLate'
    BY <2>1, <2>2, Dates DEF ExtendUpdate, ExtendInv, CountdownIsNeverLate
  <2>8. ScheduleInv'
    BY <2>1, <2>2, Dates DEF ExtendUpdate, ExtendInv, ScheduleInv
  <2>9. ExtendedOnceByOwner'
    BY <1>1, <2>1 DEF ExtendUpdate, RequestInv, ExtendedOnceByOwner
  <2>10. LiveTransferIsCountedDown'
    BY <1>1, <2>4 DEF LiveTransferIsCountedDown, Rescheduling
  <2>11. QED
    BY <2>1, <2>3, <2>5, <2>6, <2>7, <2>8, <2>9, <2>10, OtherRequests
       DEF ExtendInv, Unextended
<1>3. CASE ~ExtendFilter
  <2>1. pc' = [pc EXCEPT ![r] = "lost"] /\ UNCHANGED <<doc, extensions>>
    BY <1>3 DEF ExtendUpdate
  <2>2. Forward /\ \A x \in Requests \ {r} : Untouched(x)
    BY <1>1, <2>1, Dates DEF ExtendUpdate, Forward, Untouched
  <2>3. RequestInv(r)'
    BY <1>1, <2>1 DEF ExtendUpdate, RequestInv, Unextended
  <2>4. LiveTransferIsCountedDown'
    BY <1>1, <2>1 DEF LiveTransferIsCountedDown, Rescheduling
  <2>5. QED
    BY <2>1, <2>2, <2>3, <2>4, OtherRequests DEF ExtendUpdate, ExtendInv,
       ScheduleInv, Unextended, CountdownIsNeverLate, ExtendedOnceByOwner
<1>4. QED
  BY <1>2, <1>3

(* The other steps of a request write nothing to the database.             *)
LEMMA RequestExtendInv ==
  ASSUME TypeOK, TypeOK', ExtendInv, NEW r \in Requests, Extend(r)
  PROVE  ExtendInv'
<1> USE DEF Goto, requestVars, deletionVars, history
<1>1. /\ pc \in [Requests -> {"idle", "check", "update", "won", "lost", "done"}]
      /\ snap \in [Requests -> Docs] /\ newExpiry \in [Requests -> {0} \cup Expiries]
      /\ RequestInv(r)
  BY DEF TypeOK, ExtendInv
<1>2. CASE ExtendUpdate(r)
  BY <1>2, UpdateExtendInv
<1> SUFFICES ASSUME ~ExtendUpdate(r) PROVE ExtendInv'
  BY <1>2
<1>3. UNCHANGED <<now, doc, restore, sweep, deletion, extensions>>
      /\ (failed => failed') /\ announced' = announced
  BY DEF Extend, ExtendRead, ExtendReject, ExtendStart, ExtendReschedule, ExtendFails
<1>4. Forward /\ \A x \in Requests \ {r} : Untouched(x)
  <2>1. Forward
    BY <1>3, Dates DEF Forward
  <2>2. \A x \in Requests \ {r} : Untouched(x)
    BY <1>1, <1>3 DEF Extend, ExtendRead, ExtendReject, ExtendStart,
       ExtendReschedule, ExtendFails, Untouched
  <2>3. QED
    BY <2>1, <2>2
<1>5. ScheduleInv'
  BY <1>3 DEF ExtendInv, ScheduleInv
<1>6. ExtendedOnceByOwner' /\ RequestInv(r)' /\ CountdownIsNeverLate'
      /\ LiveTransferIsCountedDown'
  <2> USE DEF CountdownIsNeverLate, LiveTransferIsCountedDown, Rescheduling
  <2> USE DEF ExtendedOnceByOwner, RequestInv, ExtendInv
  <2>1. CASE ExtendRead(r)
    BY <1>1, <2>1, Dates DEF ExtendRead
  <2>2. CASE ExtendReject(r)
    BY <1>1, <2>2 DEF ExtendReject
  <2>3. CASE ExtendStart(r)
    <3>1. newExpiry'[r] \in Expiries
      BY <1>1, <2>3, ComputedExpiry, ExpiryFacts DEF ExtendStart
    <3>2. r \in Owners \/ doc.isDeleted
      BY <2>3 DEF ExtendStart, MayExtend
    <3>3. ExtendedOnceByOwner'
      BY <1>1, <2>3 DEF ExtendStart
    <3>4. CountdownIsNeverLate' /\ LiveTransferIsCountedDown'
      BY <1>1, <2>3, Dates DEF ExtendStart, NoCountdown
    <3>5. QED
      BY <1>1, <2>3, <3>1, <3>2, <3>3, <3>4 DEF ExtendStart, Unextended
  <2>4. CASE ExtendReschedule(r)
    <3>1. Rescheduled(r) <= doc.expiresAt /\ Rescheduled(r) # 0
      BY <2>4, Dates DEF ExtendReschedule, Rescheduled
    <3>2. QED
      BY <1>1, <2>4, <3>1 DEF ExtendReschedule, NoCountdown, Unextended
  <2>5. CASE ExtendFails(r)
    BY <1>1, <2>5 DEF ExtendFails, Unextended
  <2>6. QED
    BY <2>1, <2>2, <2>3, <2>4, <2>5 DEF Extend
<1>7. QED
  BY <1>3, <1>4, <1>5, <1>6, OtherRequests DEF ExtendInv, Unextended

LEMMA NextExtendInv ==
  TypeOK /\ ExtendInv /\ [Next]_vars => TypeOK' /\ ExtendInv'
<1> SUFFICES ASSUME TypeOK, ExtendInv, [Next]_vars PROVE TypeOK' /\ ExtendInv'
  OBVIOUS
<1>1. ASSUME NEW r \in Requests, Extend(r) PROVE TypeOK' /\ ExtendInv'
  <2>1. TypeOK'
    BY <1>1, RequestTypeOK DEF ExtendInv
  <2>2. QED
    BY <1>1, <2>1, RequestExtendInv
<1>2. CASE CountdownTick \/ ExpireOne \/ Delete \/ Crash
             \/ RestoreFind \/ RestoreGivesUp \/ RestoreSchedule \/ AdvanceTime
  BY <1>2, SystemTypeOK, SystemExtendInv
<1>3. CASE UNCHANGED vars
  BY <1>3 DEF vars, requestVars, deletionVars, history, TypeOK, ExtendInv,
     RequestInv, ScheduleInv, Unextended, ExtendedOnceByOwner,
     CountdownIsNeverLate, LiveTransferIsCountedDown, Rescheduling
<1>4. QED
  BY <1>1, <1>2, <1>3 DEF Next

(* The invariant and the type hold together: what a request computes is    *)
(* one of the expiries because no document it may extend was extended.     *)
LEMMA ExtendInvariant == Spec => [](TypeOK /\ ExtendInv)
<1>1. Init => TypeOK /\ ExtendInv
  BY InitTypeOK, InitExtendInv
<1>2. QED
  BY <1>1, NextExtendInv, PTL DEF Spec

(* Every variable of the extend and countdown code keeps its shape: no     *)
(* handler ever computes, schedules or restores an expiry but the first    *)
(* one or that plus one extension.                                         *)
THEOREM TypeCorrect == Spec => []TypeOK
BY ExtendInvariant, PTL

(* "Two concurrent extend requests cannot both succeed", for any number of *)
(* requests: the filter on extendedOnce decides, the owner's token counts, *)
(* and the expiry is what the successful request was told.                 *)
THEOREM ExtendedOnce == Spec => []ExtendedOnceByOwner
<1>1. ExtendInv => ExtendedOnceByOwner
  BY DEF ExtendInv
<1>2. QED
  BY <1>1, ExtendInvariant, PTL

(* Whichever of extend, restart or upload scheduled it last, the countdown *)
(* of a live transfer never ends after the transfer's expiry.              *)
THEOREM NeverLate == Spec => []CountdownIsNeverLate
<1>1. ExtendInv => CountdownIsNeverLate
  BY DEF ExtendInv
<1>2. QED
  BY <1>1, ExtendInvariant, PTL

(* A live transfer is only ever without a countdown while a handler is     *)
(* about to schedule one, after its expiry was announced, after an update  *)
(* of the database has thrown, or after the restoration of the countdowns  *)
(* gave up on it.                                                          *)
THEOREM CountedDown == Spec => []LiveTransferIsCountedDown
<1>1. ExtendInv => LiveTransferIsCountedDown
  BY DEF ExtendInv
<1>2. QED
  BY <1>1, ExtendInvariant, PTL
--------------------------------------------------------------------------------
(* What ExpiredIsTrueWhenAnnounced refuses, and how far it can be wrong.   *)

(* Every date in the process is of the document as it is or as it was.     *)
DatesInv ==
  /\ countdown \in {NoCountdown, FirstExpiry, doc.expiresAt}
  /\ restore.expiresAt \in {0, FirstExpiry, doc.expiresAt}
  /\ \A r \in Requests :
       /\ snap[r].expiresAt \in {FirstExpiry, doc.expiresAt}
       /\ pc[r] = "won" => newExpiry[r] = doc.expiresAt

(* A live transfer is announced as expired too early only at its first     *)
(* expiry, and only when it has been extended.                             *)
PrematureIsFirstExpiry ==
  [][CountdownTick /\ ~doc.isDeleted /\ now < doc.expiresAt =>
       doc.extendedOnce /\ countdown = FirstExpiry]_vars

LEMMA RequestDates ==
  ASSUME TypeOK, ExtendInv, DatesInv, NEW r \in Requests, Extend(r)
  PROVE  DatesInv'
<1> USE DEF Goto
<1>1. /\ pc \in [Requests -> {"idle", "check", "update", "won", "lost", "done"}]
      /\ snap \in [Requests -> Docs] /\ newExpiry \in [Requests -> {0} \cup Expiries]
  BY DEF TypeOK
<1>2. CASE ExtendUpdate(r) /\ ExtendFilter
  <2>1. doc.expiresAt = FirstExpiry /\ extensions = {}
    BY <1>2 DEF ExtendFilter, ExtendInv, Unextended
  <2>2. doc'.expiresAt = newExpiry[r]
    BY <1>2 DEF ExtendUpdate, TypeOK, Docs
  <2>3. \A x \in Requests : pc[x] # "won"
    BY <2>1 DEF ExtendInv, RequestInv
  <2>4. \A x \in Requests : pc'[x] = "won" => x = r
    BY <1>1, <1>2, <2>3 DEF ExtendUpdate
  <2> QED
    BY <1>2, <2>1, <2>2, <2>4 DEF ExtendUpdate, DatesInv
<1>3. CASE ExtendUpdate(r) /\ ~ExtendFilter
  BY <1>1, <1>3 DEF ExtendUpdate, DatesInv
<1>4. CASE ExtendRead(r)
  BY <1>1, <1>4 DEF ExtendRead, DatesInv
<1>5. CASE ExtendReject(r) \/ ExtendStart(r) \/ ExtendFails(r)
  BY <1>1, <1>5 DEF ExtendReject, ExtendStart, ExtendFails, DatesInv
<1>6. CASE ExtendReschedule(r)
  <2>1. Rescheduled(r) \in {FirstExpiry, doc.expiresAt}
    BY <1>6 DEF ExtendReschedule, Rescheduled, DatesInv
  <2> QED
    BY <1>1, <1>6, <2>1 DEF ExtendReschedule, DatesInv
<1> QED
  BY <1>2, <1>3, <1>4, <1>5, <1>6 DEF Extend

LEMMA SystemDates ==
  ASSUME TypeOK, DatesInv,
         CountdownTick \/ ExpireOne \/ Delete \/ Crash
           \/ RestoreFind \/ RestoreGivesUp \/ RestoreSchedule \/ AdvanceTime
  PROVE  DatesInv'
<1> USE DEF requestVars, deletionVars, history
<1>1. doc'.expiresAt = doc.expiresAt
  BY DEF CountdownTick, ExpireOne, SelectExpired, ExpireOneMark, ExpireOneFails,
     ExpireOneClear, Delete, DeleteMark, DeleteClear, GraceBurn, Deleted, Crash,
     RestoreFind, RestoreGivesUp, RestoreSchedule, AdvanceTime, TypeOK, Docs
<1>2. /\ UNCHANGED <<snap, newExpiry>>
      /\ \A x \in Requests : pc'[x] = "won" => pc[x] = "won"
  BY DEF CountdownTick, ExpireOne, SelectExpired, ExpireOneMark, ExpireOneFails,
     ExpireOneClear, Delete, DeleteMark, DeleteClear, GraceBurn, Crash,
     RestoreFind, RestoreGivesUp, RestoreSchedule, AdvanceTime, TypeOK
<1>3. restore'.expiresAt \in {0, FirstExpiry, doc.expiresAt}
  BY DEF CountdownTick, ExpireOne, SelectExpired, ExpireOneMark, ExpireOneFails,
     ExpireOneClear, Delete, DeleteMark, DeleteClear, GraceBurn, Crash,
     RestoreFind, RestoreGivesUp, RestoreSchedule, AdvanceTime, DatesInv
<1>4. countdown' \in {NoCountdown, FirstExpiry, doc.expiresAt}
  BY DEF CountdownTick, ExpireOne, SelectExpired, ExpireOneMark, ExpireOneFails,
     ExpireOneClear, Delete, DeleteMark, DeleteClear, GraceBurn, Crash,
     RestoreFind, RestoreGivesUp, RestoreSchedule, AdvanceTime, DatesInv, NoCountdown
<1> QED
  BY <1>1, <1>2, <1>3, <1>4 DEF DatesInv

(* A countdown that ends too early, after a lost extend race or a restart, *)
(* is the one from before the extension: a transfer that was not extended  *)
(* is never announced early, and an extended one at no other time.         *)
THEOREM PrematureAnnouncement == Spec => PrematureIsFirstExpiry
<1>1. Init => DatesInv
  BY DEF Init, Fresh, DatesInv
<1>2. TypeOK /\ ExtendInv /\ DatesInv /\ [Next]_vars => DatesInv'
  <2> SUFFICES ASSUME TypeOK, ExtendInv, DatesInv, [Next]_vars PROVE DatesInv'
    OBVIOUS
  <2>1. CASE UNCHANGED vars
    BY <2>1 DEF vars, requestVars, deletionVars, history, DatesInv
  <2> QED
    BY <2>1, RequestDates, SystemDates DEF Next
<1>3. TypeOK /\ ExtendInv /\ DatesInv /\ [Next]_vars =>
        [CountdownTick /\ ~doc.isDeleted /\ now < doc.expiresAt =>
           doc.extendedOnce /\ countdown = FirstExpiry]_vars
  <2> SUFFICES ASSUME TypeOK, ExtendInv, DatesInv, CountdownTick, now < doc.expiresAt
               PROVE  doc.extendedOnce /\ countdown = FirstExpiry
    OBVIOUS
  <2>1. countdown <= now /\ countdown # NoCountdown /\ countdown # doc.expiresAt
    BY Dates DEF CountdownTick
  <2>2. countdown = FirstExpiry
    BY <2>1 DEF DatesInv
  <2>3. doc.expiresAt # FirstExpiry
    BY <2>1, <2>2
  <2> QED
    BY <2>2, <2>3 DEF ExtendInv, Unextended
<1> QED
  BY <1>1, <1>2, <1>3, ExtendInvariant, PTL DEF Spec, PrematureIsFirstExpiry
================================================================================
