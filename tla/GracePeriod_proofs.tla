--------------------------- MODULE GracePeriod_proofs ---------------------------
(***************************************************************************)
(* Theorems about GracePeriod, for any set of sockets and tokens and any   *)
(* bound on faults.                                                        *)
(***************************************************************************)
EXTENDS GracePeriod, TLAPS

(* The documents that the grace period's steps write.                      *)
LEMMA WrittenDocs ==
  ASSUME NEW d \in Docs
  PROVE  /\ TimerBurnUpdate(d) \in Docs
         /\ [MarkDeleted(d) EXCEPT !.cancelledAt = TRUE,
                                   !.deletionReason = "manual"] \in Docs
         /\ [MarkDeleted(d) EXCEPT !.burnFinalizedAt = TRUE] \in Docs
         /\ [MarkDeleted(d) EXCEPT !.deletionReason = "expired"] \in Docs
         /\ [MarkDeleted(d) EXCEPT !.deletionReason = "burn",
                                   !.burnFinalizedAt = TRUE] \in Docs
         /\ [d EXCEPT !.lastActive = "idle"] \in Docs
         /\ \A t \in Tokens :
              [d EXCEPT !.claimantToken = t, !.burnClaimOwner = "finger",
                        !.lastActive = "recent"] \in Docs
BY DEF Docs, TimerBurnUpdate, MarkDeleted, DeletionReasons

LEMMA FaultBound == ASSUME TypeOK, Fault PROVE faults' \in 0..MaxFaults
BY ConstantsAreSound DEF ConstantsAreSound, Fault, TypeOK

LEMMA InitTypeOK == Init => TypeOK
<1> SUFFICES ASSUME Init PROVE TypeOK
  OBVIOUS
<1>1. ASSUME NEW burn \in BOOLEAN PROVE NewTransfer(burn) \in Docs
  BY DEF Docs, NewTransfer, DeletionReasons
<1>2. 0 \in 0..MaxFaults
  BY ConstantsAreSound DEF ConstantsAreSound
<1>3. QED
  BY <1>1, <1>2 DEF Init, TypeOK

LEMMA SocketTypeOK ==
  ASSUME TypeOK, NEW s \in Sockets, SocketStep(s)
  PROVE  TypeOK'
<1> USE DEF socketVars, timerVars, history
<1>1. CASE Connect(s) \/ Disconnect(s)
  BY <1>1 DEF Connect, Disconnect, TypeOK
<1>2. ASSUME NEW t \in Tokens, RegisterUpdate(s, t) PROVE TypeOK'
  BY <1>2 DEF RegisterUpdate, TypeOK
<1>3. CASE RegisterResume(s)
  <2>1. CancelTracked \in [Sockets -> {"none", "pending", "fired", "found", "over"}]
    BY DEF CancelTracked, TypeOK
  <2>2. QED
    BY <1>3, <2>1 DEF RegisterResume, TypeOK
<1>4. CASE RegisterFails(s) \/ DisconnectFails(s)
  BY <1>4, FaultBound DEF RegisterFails, DisconnectFails, TypeOK
<1>5. CASE DisconnectResume(s)
  <2>1. CASE token[s] = "none"
    BY <1>5, <2>1 DEF DisconnectResume, TypeOK
  <2>2. CASE token[s] # "none"
    <3>1. /\ timer' = [timer EXCEPT ![s] = "pending"]
          /\ timerToken' = [timerToken EXCEPT ![s] = token[s]]
          /\ tracked' = {s}
          /\ crowded' \in BOOLEAN
      BY <1>5, <2>2 DEF DisconnectResume, TypeOK
    <3>2. /\ conn' = [conn EXCEPT ![s] = "closed"]
          /\ UNCHANGED <<doc, stored, expired, token, registering, burnedBy, faults>>
      BY <1>5 DEF DisconnectResume
    <3>3. QED
      BY <3>1, <3>2 DEF TypeOK
  <2>3. QED
    BY <2>1, <2>2
<1>6. QED
  BY <1>1, <1>2, <1>3, <1>4, <1>5 DEF SocketStep

LEMMA TimerTypeOK ==
  ASSUME TypeOK, NEW s \in Sockets, TimerStep(s)
  PROVE  TypeOK'
<1> USE DEF socketVars, timerVars, history
<1>1. CASE TimerFires(s)
  BY <1>1 DEF TimerFires, TypeOK
<1>2. CASE TimerFind(s)
  BY <1>2 DEF TimerFind, TypeOK
<1>3. CASE TimerBurn(s)
  <2>1. doc' \in Docs
    BY <1>3, WrittenDocs DEF TimerBurn, TypeOK
  <2>2. QED
    BY <1>3, <2>1 DEF TimerBurn, TypeOK
<1>4. QED
  BY <1>1, <1>2, <1>3 DEF TimerStep

(* What else happens to the document.                                      *)
Others ==
  \/ \E t \in Tokens : Claim(t)
  \/ Cancel \/ BurnFinalize \/ Cleanup
  \/ IdlePeriodPasses

LEMMA OthersDoc ==
  ASSUME doc \in Docs, Others
  PROVE  /\ doc' \in Docs /\ stored' \in {stored, FALSE} /\ OthersUnchanged
         /\ doc.isDeleted => doc'.isDeleted
         /\ doc'.burn = doc.burn
         /\ \/ doc'.claimantToken = doc.claimantToken
            \/ ~IsClaimed(doc) /\ ~doc.isDeleted /\ doc.burn
<1> USE DEF OthersUnchanged, Purge
<1>1. ASSUME NEW t \in Tokens, Claim(t)
      PROVE  /\ doc' \in Docs /\ stored' = stored /\ OthersUnchanged
             /\ ~doc.isDeleted /\ doc.burn /\ ~IsClaimed(doc)
             /\ doc'.burn = doc.burn
  <2>1. doc' = [doc EXCEPT !.claimantToken = t, !.burnClaimOwner = "finger",
                           !.lastActive = "recent"]
    BY <1>1 DEF Claim
  <2>2. doc' \in Docs
    BY <2>1, WrittenDocs
  <2>3. doc'.burn = doc.burn
    BY <2>1 DEF Docs
  <2>4. QED
    BY <1>1, <2>2, <2>3 DEF Claim
<1>2. CASE Cancel \/ BurnFinalize \/ ExpireOne \/ FinalizeStaleBurn
  <2>1. doc' \in Docs /\ ~doc.isDeleted /\ stored' = FALSE /\ OthersUnchanged
    BY <1>2, WrittenDocs DEF Cancel, BurnFinalize, ExpireOne, FinalizeStaleBurn
  <2>2. doc'.burn = doc.burn /\ doc'.claimantToken = doc.claimantToken
    <3>1. CASE Cancel
      BY <3>1 DEF Cancel, MarkDeleted, Docs
    <3>2. CASE BurnFinalize
      BY <3>2 DEF BurnFinalize, MarkDeleted, Docs
    <3>3. CASE ExpireOne
      BY <3>3 DEF ExpireOne, MarkDeleted, Docs
    <3>4. CASE FinalizeStaleBurn
      BY <3>4 DEF FinalizeStaleBurn, MarkDeleted, Docs
    <3>5. QED
      BY <1>2, <3>1, <3>2, <3>3, <3>4
  <2>3. QED
    BY <2>1, <2>2
<1>3. CASE IdlePeriodPasses
  <2>1. doc' = [doc EXCEPT !.lastActive = "idle"]
    BY <1>3 DEF IdlePeriodPasses
  <2>2. doc' \in Docs
    BY <2>1, WrittenDocs
  <2>3. /\ doc'.burn = doc.burn /\ doc'.claimantToken = doc.claimantToken
        /\ doc'.isDeleted = doc.isDeleted
    BY <2>1 DEF Docs
  <2>4. QED
    BY <1>3, <2>2, <2>3 DEF IdlePeriodPasses
<1>4. QED
  BY <1>1, <1>2, <1>3 DEF Others, Cleanup

LEMMA NextTypeOK == TypeOK /\ [Next]_vars => TypeOK'
<1> SUFFICES ASSUME TypeOK, [Next]_vars PROVE TypeOK'
  OBVIOUS
<1> USE DEF socketVars, timerVars, history
<1>1. ASSUME NEW s \in Sockets, SocketStep(s) \/ TimerStep(s) PROVE TypeOK'
  BY <1>1, SocketTypeOK, TimerTypeOK
<1>2. CASE Others
  <2>1. /\ doc \in Docs /\ doc' \in Docs /\ stored' \in BOOLEAN
        /\ OthersUnchanged
    BY <1>2, OthersDoc DEF TypeOK
  <2>2. QED
    BY <2>1 DEF OthersUnchanged, TypeOK
<1>3. CASE ExpiryPasses
  BY <1>3 DEF ExpiryPasses, TypeOK
<1>4. CASE Crash
  BY <1>4, FaultBound DEF Crash, TypeOK
<1>5. CASE UNCHANGED vars
  BY <1>5 DEF vars, TypeOK
<1>6. QED
  BY <1>1, <1>2, <1>3, <1>4, <1>5 DEF Next, Others

(* Every variable of the sockets, the timers and the document keeps its    *)
(* shape, whatever disconnects, fires or crashes in between.               *)
THEOREM TypeCorrect == Spec => []TypeOK
BY InitTypeOK, NextTypeOK, PTL DEF Spec

--------------------------------------------------------------------------------
(* The invariant of the timers.                                            *)
LEMMA InitTimerInv == Init => TimerInv
<1> SUFFICES ASSUME Init PROVE TimerInv
  OBVIOUS
<1>1. doc.claimantToken = "none"
  BY DEF Init, NewTransfer
<1>2. QED
  BY <1>1 DEF Init, TimerInv, OnlyClaimantsTimerBurns, SoleClaimantIsSpared,
     TimerAgainstConnected, SocketInv, Pending, OneSocketPerToken, ActsFor

(* What a socket does leaves the document and the burns alone.             *)
LEMMA SocketTimerInv ==
  ASSUME TypeOK, TimerInv, NEW s \in Sockets, SocketStep(s)
  PROVE  TimerInv'
<1> USE DEF socketVars, timerVars, history
<1>1. /\ conn \in [Sockets -> {"new", "open", "closing", "closed"}]
      /\ token \in [Sockets -> Tokens \cup {"none"}]
      /\ registering \in [Sockets -> Tokens \cup {"none"}]
      /\ timer \in [Sockets -> {"none", "pending", "fired", "found", "over"}]
      /\ timerToken \in [Sockets -> Tokens \cup {"none"}]
      /\ tracked \subseteq Sockets /\ burnedBy \subseteq Sockets
      /\ "none" \notin Tokens
  BY ConstantsAreSound DEF ConstantsAreSound, TypeOK
<1>2. doc' = doc /\ burnedBy' = burnedBy
  BY DEF SocketStep, Connect, Disconnect, RegisterUpdate, RegisterResume,
     RegisterFails, DisconnectResume, DisconnectFails
<1> USE DEF TimerInv, SocketInv, OnlyClaimantsTimerBurns, SoleClaimantIsSpared
<1> USE DEF TimerAgainstConnected, Pending, OneSocketPerToken, ActsFor
<1>3. CASE Connect(s)
  BY <1>1, <1>2, <1>3 DEF Connect
<1>4. CASE Disconnect(s)
  BY <1>1, <1>2, <1>4 DEF Disconnect
<1>5. ASSUME NEW t \in Tokens, RegisterUpdate(s, t) PROVE TimerInv'
  <2>1. /\ registering' = [registering EXCEPT ![s] = t]
        /\ conn[s] = "open"
        /\ UNCHANGED <<conn, token, timer, timerToken, tracked>>
        /\ crowded' = (crowded \/ \E x \in Sockets \ {s} : ActsFor(x, t))
    BY <1>5 DEF RegisterUpdate
  <2>2. ~crowded' => OneSocketPerToken'
    <3>1. SUFFICES ASSUME ~crowded', NEW a \in Sockets, NEW b \in Sockets,
                          NEW u \in Tokens, ActsFor(a, u)', ActsFor(b, u)'
                   PROVE  a = b
      OBVIOUS
    <3>2. ~crowded /\ \A x \in Sockets \ {s} : ~ActsFor(x, t)
      BY <2>1, <3>1
    <3>3. \A x \in Sockets : ActsFor(x, u)' => ActsFor(x, u) \/ (x = s /\ u = t)
      BY <1>1, <2>1
    <3>4. QED
      BY <3>1, <3>2, <3>3
  <2>3. \A x \in Sockets : SocketInv(x)'
    BY <1>1, <1>2, <2>1
  <2>4. SoleClaimantIsSpared' /\ OnlyClaimantsTimerBurns'
        /\ (~crowded' => Pending' \subseteq tracked')
    BY <1>1, <1>2, <2>1
  <2>5. QED
    BY <1>2, <2>1, <2>2, <2>3, <2>4
<1>6. CASE RegisterResume(s)
  <2>1. /\ token' = [token EXCEPT ![s] = registering[s]]
        /\ registering' = [registering EXCEPT ![s] = "none"]
        /\ registering[s] # "none" /\ tracked' = {}
        /\ UNCHANGED <<conn, timerToken, crowded>>
    BY <1>6 DEF RegisterResume
  <2>2. \A x \in Sockets : timer'[x] = IF x \in tracked THEN "over" ELSE timer[x]
    BY <1>6 DEF RegisterResume, CancelTracked
  <2>3. ~crowded => Pending' = {}
    BY <1>1, <2>2
  <2>4. ~crowded' => OneSocketPerToken'
    <3>1. \A x \in Sockets : \A u \in Tokens : ActsFor(x, u)' => ActsFor(x, u)
      BY <1>1, <2>1
    <3>2. QED
      BY <2>1, <3>1
  <2>5. \A x \in Sockets : SocketInv(x)'
    BY <1>1, <1>2, <2>1, <2>2
  <2>6. SoleClaimantIsSpared' /\ OnlyClaimantsTimerBurns'
    BY <1>1, <1>2, <2>1, <2>3
  <2>7. QED
    BY <1>2, <2>1, <2>3, <2>4, <2>5, <2>6
<1>7. CASE RegisterFails(s)
  BY <1>1, <1>2, <1>7 DEF RegisterFails
<1>8. CASE DisconnectFails(s)
  BY <1>1, <1>2, <1>8 DEF DisconnectFails
<1>9. CASE DisconnectResume(s)
  <2>1. CASE token[s] = "none"
    BY <1>1, <1>2, <1>9, <2>1 DEF DisconnectResume
  <2>2. CASE token[s] # "none"
    <3>1. /\ timer' = [timer EXCEPT ![s] = "pending"]
          /\ timerToken' = [timerToken EXCEPT ![s] = token[s]]
          /\ tracked' = {s}
          /\ crowded' = (crowded \/ Pending # {})
          /\ conn[s] = "closing" /\ conn' = [conn EXCEPT ![s] = "closed"]
          /\ UNCHANGED <<token, registering>>
      BY <1>9, <2>2 DEF DisconnectResume
    <3>2. \A x \in Sockets : SocketInv(x)'
      BY <1>1, <1>2, <2>2, <3>1
    <3>3. ~crowded' => ~crowded /\ \A x \in Sockets : timer[x] # "pending"
      BY <3>1
    <3>4. ~crowded' => \A x \in Sockets : timer'[x] = "pending" => x = s
      BY <1>1, <3>1, <3>3
    <3>5. ~crowded' => Pending' \subseteq tracked' /\ OneSocketPerToken'
      <4>1. ~crowded' => Pending' \subseteq tracked'
        BY <3>1, <3>4
      <4>2. \A x \in Sockets : \A u \in Tokens : ActsFor(x, u)' => ActsFor(x, u)
        BY <1>1, <3>1
      <4>3. QED
        BY <3>3, <4>1, <4>2
    <3>6. OnlyClaimantsTimerBurns'
      BY <1>1, <1>2, <3>1
    <3>7. SoleClaimantIsSpared'
      <4>1. SUFFICES ASSUME ~crowded', NEW a \in Sockets, NEW b \in Sockets,
                            TimerAgainstConnected(a, b)'
                     PROVE  FALSE
        OBVIOUS
      <4>2. ~crowded /\ a = s /\ b # s /\ conn[b] = "open" /\ token[b] = token[s]
        <5>1. timer'[a] = "pending" /\ conn'[b] = "open" /\ token'[b] = timerToken'[a]
          BY <4>1
        <5>2. a = s /\ ~crowded
          BY <3>3, <3>4, <4>1, <5>1
        <5>3. timerToken'[s] = token[s] /\ b # s /\ conn[b] = "open"
          BY <1>1, <3>1, <5>1
        <5>4. QED
          BY <3>1, <5>1, <5>2, <5>3
      <4>3. token[s] \in Tokens /\ ActsFor(b, token[s]) /\ ActsFor(s, token[s])
        BY <1>1, <2>2, <3>1, <4>2
      <4>4. QED
        BY <4>2, <4>3
    <3>8. QED
      BY <1>2, <3>1, <3>2, <3>5, <3>6, <3>7
  <2>3. QED
    BY <2>1, <2>2
<1>10. QED
  BY <1>3, <1>4, <1>5, <1>6, <1>7, <1>8, <1>9 DEF SocketStep

LEMMA TimerTimerInv ==
  ASSUME TypeOK, TimerInv, NEW s \in Sockets, TimerStep(s)
  PROVE  TimerInv'
<1> USE DEF socketVars, timerVars, history
<1>1. /\ timer \in [Sockets -> {"none", "pending", "fired", "found", "over"}]
      /\ tracked \subseteq Sockets /\ burnedBy \subseteq Sockets
  BY DEF TypeOK
<1> USE DEF TimerInv, SocketInv, OnlyClaimantsTimerBurns, SoleClaimantIsSpared
<1> USE DEF TimerAgainstConnected, Pending, OneSocketPerToken, ActsFor
<1>2. CASE TimerFires(s)
  BY <1>1, <1>2 DEF TimerFires
<1>3. CASE TimerFind(s)
  BY <1>1, <1>3 DEF TimerFind, TimerFilter
<1>4. CASE TimerBurn(s)
  <2>1. /\ doc'.isDeleted = TRUE
        /\ doc'.burn = doc.burn /\ doc'.claimantToken = doc.claimantToken
    BY <1>4 DEF TimerBurn, TimerBurnUpdate, TypeOK, Docs
  <2>2. timer[s] = "found" /\ timer' = [timer EXCEPT ![s] = "over"]
        /\ burnedBy' = burnedBy \cup {s}
        /\ UNCHANGED <<conn, token, registering, timerToken, tracked, crowded>>
    BY <1>4 DEF TimerBurn
  <2>3. doc.burn /\ doc.claimantToken = timerToken[s]
    BY <2>2
  <2>4. \A x \in Sockets : SocketInv(x)'
    BY <1>1, <2>1, <2>2
  <2>5. OnlyClaimantsTimerBurns'
    BY <2>1, <2>2, <2>3
  <2>6. SoleClaimantIsSpared' /\ (~crowded' => Pending' \subseteq tracked')
    BY <1>1, <2>2
  <2>7. QED
    BY <2>1, <2>2, <2>4, <2>5, <2>6
<1>5. QED
  BY <1>2, <1>3, <1>4 DEF TimerStep

(* A claim comes before any timer of the claimant can have found it.       *)
LEMMA OthersTimerInv ==
  ASSUME TypeOK, TimerInv, Others
  PROVE  TimerInv'
<1>1. /\ OthersUnchanged
      /\ doc.isDeleted => doc'.isDeleted
      /\ doc'.burn = doc.burn
      /\ \/ doc'.claimantToken = doc.claimantToken
         \/ ~IsClaimed(doc) /\ ~doc.isDeleted /\ doc.burn
  BY OthersDoc DEF TypeOK
<1>2. UNCHANGED <<conn, token, registering, timer, timerToken, tracked,
                  crowded, burnedBy>>
  BY <1>1 DEF OthersUnchanged, socketVars, timerVars, history
<1>3. CASE doc'.claimantToken = doc.claimantToken
  BY <1>1, <1>2, <1>3 DEF TimerInv, SocketInv, OnlyClaimantsTimerBurns,
     SoleClaimantIsSpared, TimerAgainstConnected, Pending, OneSocketPerToken, ActsFor
<1>4. CASE ~IsClaimed(doc) /\ ~doc.isDeleted /\ doc.burn
  <2>1. doc.claimantToken = "none"
    BY <1>4 DEF IsClaimed
  <2>2. \A s \in Sockets : s \notin burnedBy /\ timer[s] # "found"
    BY <1>4, <2>1 DEF TimerInv, SocketInv
  <2>3. burnedBy = {}
    BY <2>2 DEF TypeOK
  <2>4. QED
    BY <1>1, <1>2, <1>4, <2>2, <2>3 DEF TimerInv, SocketInv,
       OnlyClaimantsTimerBurns, SoleClaimantIsSpared, TimerAgainstConnected,
       Pending, OneSocketPerToken, ActsFor
<1>5. QED
  BY <1>1, <1>3, <1>4

LEMMA CrashTimerInv ==
  ASSUME TypeOK, TimerInv, Crash
  PROVE  TimerInv'
<1>1. /\ \A s \in Sockets :
           /\ conn'[s] = IF conn[s] = "new" THEN "new" ELSE "closed"
           /\ token'[s] = "none" /\ registering'[s] = "none"
           /\ timer'[s] = IF timer[s] = "none" THEN "none" ELSE "over"
      /\ tracked' = {}
      /\ UNCHANGED <<doc, timerToken, crowded, burnedBy>>
  BY DEF Crash, history
<1>2. QED
  BY <1>1 DEF TypeOK, TimerInv, SocketInv, OnlyClaimantsTimerBurns,
     SoleClaimantIsSpared, TimerAgainstConnected, Pending, OneSocketPerToken, ActsFor

LEMMA NextTimerInv == TypeOK /\ TimerInv /\ [Next]_vars => TimerInv'
<1> SUFFICES ASSUME TypeOK, TimerInv, [Next]_vars PROVE TimerInv'
  OBVIOUS
<1>1. ASSUME NEW s \in Sockets, SocketStep(s) \/ TimerStep(s) PROVE TimerInv'
  BY <1>1, SocketTimerInv, TimerTimerInv
<1>2. CASE Others
  BY <1>2, OthersTimerInv
<1>3. CASE Crash
  BY <1>3, CrashTimerInv
<1>4. CASE ExpiryPasses \/ UNCHANGED vars
  BY <1>4 DEF ExpiryPasses, vars, socketVars, timerVars, history, TimerInv,
     SocketInv, OnlyClaimantsTimerBurns, SoleClaimantIsSpared,
     TimerAgainstConnected, Pending, OneSocketPerToken, ActsFor
<1>5. QED
  BY <1>1, <1>2, <1>3, <1>4 DEF Next, Others

(* The inductive invariant of the timers, for any number of sockets.       *)
THEOREM TimersAreConsistent == Spec => []TimerInv
<1>1. Init => TypeOK /\ TimerInv
  BY InitTypeOK, InitTimerInv
<1>2. TypeOK /\ TimerInv /\ [Next]_vars => TypeOK' /\ TimerInv'
  BY NextTypeOK, NextTimerInv
<1>3. QED
  BY <1>1, <1>2, PTL DEF Spec

(* Only the claimant's own grace timer burns a transfer, however many      *)
(* strangers registered a token of theirs before it was claimed.           *)
THEOREM OnlyClaimantBurns == Spec => []OnlyClaimantsTimerBurns
<1>1. TimerInv => OnlyClaimantsTimerBurns
  BY DEF TimerInv
<1>2. QED
  BY <1>1, TimersAreConsistent, PTL

(* A claimant that has one socket at a time never has a pending timer      *)
(* against it while it is registered, as long as no two timers of the code *)
(* are armed at once.                                                      *)
THEOREM SoleClaimantSpared == Spec => []SoleClaimantIsSpared
<1>1. TimerInv => SoleClaimantIsSpared
  BY DEF TimerInv
<1>2. QED
  BY <1>1, TimersAreConsistent, PTL

--------------------------------------------------------------------------------
(* Every step on a deleted document leaves what its status depends on.     *)
LEMMA DeletedStep ==
  ASSUME TypeOK, doc.isDeleted, [Next]_vars
  PROVE  /\ doc'.isDeleted
         /\ doc'.cancelledAt = doc.cancelledAt
         /\ doc'.deletionReason = doc.deletionReason
<1>1. doc \in Docs
  BY DEF TypeOK
<1>2. ASSUME NEW s \in Sockets, SocketStep(s)
      PROVE  doc' = doc
  BY <1>2 DEF SocketStep, Connect, Disconnect, RegisterUpdate, RegisterResume,
     RegisterFails, DisconnectResume, DisconnectFails
<1>3. ASSUME NEW s \in Sockets, TimerFires(s) \/ TimerFind(s)
      PROVE  doc' = doc
  BY <1>3 DEF TimerFires, TimerFind
<1>4. ASSUME NEW s \in Sockets, TimerBurn(s)
      PROVE  /\ doc'.isDeleted
             /\ doc'.cancelledAt = doc.cancelledAt
             /\ doc'.deletionReason = doc.deletionReason
  BY <1>1, <1>4 DEF TimerBurn, TimerBurnUpdate, Docs
<1>5. ASSUME NEW t \in Tokens, Claim(t) PROVE FALSE
  BY <1>5 DEF Claim
<1>6. ASSUME Cancel \/ BurnFinalize \/ Cleanup PROVE FALSE
  BY <1>6 DEF Cancel, BurnFinalize, Cleanup, ExpireOne, FinalizeStaleBurn, Purge
<1>7. ASSUME IdlePeriodPasses
      PROVE  /\ doc'.isDeleted
             /\ doc'.cancelledAt = doc.cancelledAt
             /\ doc'.deletionReason = doc.deletionReason
  <2>1. doc' = [doc EXCEPT !.lastActive = "idle"]
    BY <1>7 DEF IdlePeriodPasses
  <2>2. doc'.isDeleted = doc.isDeleted
    BY <1>1, <2>1 DEF Docs
  <2>3. doc'.cancelledAt = doc.cancelledAt /\ doc'.deletionReason = doc.deletionReason
    BY <1>1, <2>1 DEF Docs
  <2>4. QED
    BY <2>2, <2>3
<1>8. ASSUME ExpiryPasses \/ Crash \/ UNCHANGED vars PROVE doc' = doc
  BY <1>8 DEF ExpiryPasses, Crash, vars
<1>9. QED
  BY <1>2, <1>3, <1>4, <1>5, <1>6, <1>7, <1>8 DEF Next, TimerStep

(* The timer's unguarded update never changes what the status virtual      *)
(* reports of a transfer that was deleted before.                          *)
THEOREM StatusStands == Spec => DeletedStatusStands
<1>1. TypeOK /\ [Next]_vars =>
        [doc.isDeleted =>
           doc'.isDeleted /\ DeletedStatus(doc') = DeletedStatus(doc)]_vars
  <2> SUFFICES ASSUME TypeOK, [Next]_vars, doc.isDeleted
               PROVE  doc'.isDeleted /\ DeletedStatus(doc') = DeletedStatus(doc)
    OBVIOUS
  <2>1. /\ doc'.isDeleted
        /\ doc'.cancelledAt = doc.cancelledAt
        /\ doc'.deletionReason = doc.deletionReason
    BY DeletedStep
  <2>2. DeletedStatus(doc') = DeletedStatus(doc)
    BY <2>1 DEF DeletedStatus
  <2>3. QED
    BY <2>1, <2>2
<1>2. QED
  BY <1>1, TypeCorrect, PTL DEF Spec, DeletedStatusStands
================================================================================
