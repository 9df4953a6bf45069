----------------------------- MODULE Limits_proofs -----------------------------
(***************************************************************************)
(* What limits requests and guesses, for any limits, windows and numbers   *)
(* of requests in flight: the fixed window, the lookup lockout, the        *)
(* password counter and the login lockout, and the composition MCLimits    *)
(* checks.  The proofs about the admin login are in AdminLogin_proofs.     *)
(***************************************************************************)
EXTENDS MCLimits, AdminLogin_proofs, FiniteSetTheorems, TLAPS

(* The maps hold at most one entry of an address.                          *)
AtMostOne(S) == \A x, y \in S : x = y

LEMMA AtMostOneCounts ==
  ASSUME NEW S, AtMostOne(S)
  PROVE  Cardinality(S) <= 1
<1>1. CASE S = {}
  BY <1>1, FS_EmptySet
<1>2. CASE S # {}
  <2>1. PICK x : S = {x}
    BY <1>2 DEF AtMostOne
  <2>2. Cardinality(S) = 1
    BY <2>1, FS_Singleton
  <2> QED
    BY <2>2
<1> QED
  BY <1>1, <1>2

LEMMA OneMoreTimes ==
  ASSUME NEW a \in Nat, NEW b \in Nat
  PROVE  (a + 1) * b = a * b + b
OBVIOUS

--------------------------------------------------------------------------------
(* The fixed window.                                                       *)

RateShape ==
  /\ rateClock \in RateTimes \ {0}
  /\ AtMostOne(window)
  /\ window \subseteq [count : Nat \ {0}, resetAt : Nat]
  /\ letThrough \in [Routes -> [RateTimes -> Nat]]
  /\ rateRestarts \in 0..MaxRestarts

LEMMA RateShapeStep ==
  ASSUME RateShape, RateNext
  PROVE  RateShape'
<1> USE RateAssumption DEF RateAssumption, RateShape, AtMostOne, RateTimes
<1>1. CASE \E r \in Routes : LetThrough(r)
  <2>1. PICK r \in Routes : LetThrough(r)
    BY <1>1
  <2>2. letThrough' \in [Routes -> [0..LastRateTime -> Nat]]
    <3>1. [t \in 0..LastRateTime |-> IF rateClock <= t THEN letThrough[r][t] + 1
                                      ELSE letThrough[r][t]] \in [0..LastRateTime -> Nat]
      OBVIOUS
    <3> QED
      BY <2>1, <3>1 DEF LetThrough
  <2>3. CASE \A w \in window : IsOver(w)
    <3>1. window' = {[count |-> 1, resetAt |-> rateClock + WindowLength]}
      BY <2>1, <2>3 DEF LetThrough, NextWindow
    <3> QED
      BY <2>1, <2>2, <3>1 DEF LetThrough
  <2>4. CASE ~\A w \in window : IsOver(w)
    <3>1. window' = {[w EXCEPT !.count = @ + 1] :
                       w \in {v \in window : v.count < LimitOf[r]}}
      BY <2>1, <2>4 DEF LetThrough, NextWindow
    <3>2. AtMostOne(window')
      BY <3>1
    <3>3. ASSUME NEW w \in window
          PROVE  [w EXCEPT !.count = @ + 1] \in [count : Nat \ {0}, resetAt : Nat]
      <4>1. w \in [count : Nat \ {0}, resetAt : Nat]
        OBVIOUS
      <4>2. w.count + 1 \in Nat \ {0}
        BY <4>1
      <4> QED
        BY <4>1, <4>2
    <3>4. window' \subseteq [count : Nat \ {0}, resetAt : Nat]
      BY <3>1, <3>3
    <3> QED
      BY <2>1, <2>2, <3>2, <3>4 DEF LetThrough
  <2> QED
    BY <2>3, <2>4
<1>2. CASE DropElapsed \/ RateRestart \/ RateTick
  BY <1>2 DEF DropElapsed, RateRestart, RateTick
<1> QED
  BY <1>1, <1>2 DEF RateNext

LEMMA RateShapeInit == RateInit => RateShape
BY RateAssumption DEF RateAssumption, RateInit, RateShape, AtMostOne, RateTimes

LEMMA RateShapeIsType == RateShape => RateTypeOK
BY AtMostOneCounts DEF RateShape, RateTypeOK

(* Requests of a route after time x, and what restarts let through.        *)
After(r, x) == letThrough[r][rateClock] - letThrough[r][x]
Extra(r) == rateRestarts * LimitOf[r]

(* The history is a running total that stands still after the clock.       *)
RunningTotal(r) ==
  \A t, u \in RateTimes :
    /\ t <= u => letThrough[r][t] <= letThrough[r][u]
    /\ rateClock <= u => letThrough[r][u] = letThrough[r][rateClock]

(* Without an entry a window may start at once: nothing was let through at *)
(* this very time, and at most the limit one window's length ago.          *)
FreshFor(r) ==
  \A x \in RateTimes :
    /\ rateClock <= x + 1 => After(r, x) <= Extra(r)
    /\ rateClock <= x + 1 + WindowLength => After(r, x) <= Extra(r) + LimitOf[r]

(* Of an entry's count a route can have let through its own limit at most; *)
(* one window's length before the entry's start it was that and the limit. *)
ShareOf(r, w) == IF w.count <= LimitOf[r] THEN w.count ELSE LimitOf[r]
WindowOf(r) ==
  \A w \in window :
    /\ w.resetAt <= rateClock + WindowLength
    /\ \A x \in RateTimes :
         /\ w.resetAt <= x => After(r, x) = 0
         /\ w.resetAt <= x + 1 + WindowLength => After(r, x) <= Extra(r) + ShareOf(r, w)
         /\ w.resetAt <= x + 1 + WindowLength + WindowLength =>
              After(r, x) <= Extra(r) + LimitOf[r] + ShareOf(r, w)

RateInv ==
  \A r \in Routes :
    RunningTotal(r) /\ (window = {} => FreshFor(r)) /\ WindowOf(r)

LEMMA RateNumbers ==
  ASSUME RateShape, NEW r \in Routes
  PROVE  /\ rateClock \in RateTimes /\ rateClock \in Nat /\ rateClock >= 1
         /\ WindowLength \in Nat
         /\ LimitOf[r] \in Nat /\ LimitOf[r] >= 1 /\ Extra(r) \in Nat
         /\ \A x \in RateTimes : x \in Nat /\ letThrough[r][x] \in Nat /\ After(r, x) \in Int
         /\ \A w \in window : w.count \in Nat /\ w.count >= 1 /\ w.resetAt \in Nat
<1> USE RateAssumption DEF RateAssumption, RateShape, RateTimes
<1>1. LimitOf[r] \in Nat /\ LimitOf[r] >= 1 /\ rateRestarts \in Nat
  OBVIOUS
<1>2. Extra(r) \in Nat
  BY <1>1 DEF Extra
<1>3. \A x \in RateTimes : letThrough[r][x] \in Nat
  OBVIOUS
<1>4. rateClock \in RateTimes
  OBVIOUS
<1> QED
  BY <1>1, <1>2, <1>3, <1>4 DEF After

(* An elapsed entry leaves its route as fresh as none.                     *)
LEMMA ElapsedIsFresh ==
  ASSUME RateShape, RateInv, NEW r \in Routes, \A w \in window : IsOver(w)
  PROVE  FreshFor(r)
<1>1. CASE window = {}
  BY <1>1 DEF RateInv
<1>2. CASE window # {}
  <2>1. PICK w \in window : rateClock > w.resetAt
    BY <1>2 DEF IsOver
  <2>2. /\ \A x \in RateTimes : w.resetAt <= x => After(r, x) = 0
        /\ \A x \in RateTimes : w.resetAt <= x + 1 + WindowLength =>
                                  After(r, x) <= Extra(r) + ShareOf(r, w)
    BY DEF RateInv, WindowOf
  <2>3. ShareOf(r, w) <= LimitOf[r] /\ ShareOf(r, w) \in Nat
    BY RateNumbers DEF ShareOf
  <2>4. ASSUME NEW x \in RateTimes, rateClock <= x + 1
        PROVE  After(r, x) <= Extra(r)
    BY <2>1, <2>2, <2>4, RateNumbers
  <2>5. ASSUME NEW x \in RateTimes, rateClock <= x + 1 + WindowLength
        PROVE  After(r, x) <= Extra(r) + LimitOf[r]
    BY <2>1, <2>2, <2>3, <2>5, RateNumbers
  <2> QED
    BY <2>4, <2>5 DEF FreshFor
<1> QED
  BY <1>1, <1>2

LEMMA LetThroughHistory ==
  ASSUME RateShape, NEW r \in Routes, LetThrough(r), NEW s \in Routes
  PROVE  \E b \in {0, 1} :
           /\ b = 1 => s = r
           /\ \A x \in RateTimes :
                letThrough'[s][x] = IF rateClock <= x THEN letThrough[s][x] + b
                                    ELSE letThrough[s][x]
<1>1. letThrough' = [letThrough EXCEPT ![r] =
        [t \in RateTimes |-> IF rateClock <= t THEN letThrough[r][t] + 1
                             ELSE letThrough[r][t]]]
  BY DEF LetThrough, RateShape
<1>2. CASE s = r
  BY <1>1, <1>2 DEF RateShape
<1>3. CASE s # r
  <2>1. \A x \in RateTimes : letThrough'[s][x] = letThrough[s][x] + 0
    BY <1>1, <1>3, RateNumbers DEF RateShape
  <2>2. \A x \in RateTimes : letThrough[s][x] + 0 = letThrough[s][x]
    BY RateNumbers
  <2> QED
    BY <2>1, <2>2
<1> QED
  BY <1>2, <1>3

LEMMA LetThroughRate ==
  ASSUME RateShape, RateInv, NEW r \in Routes, LetThrough(r), NEW s \in Routes
  PROVE  RunningTotal(s)' /\ (window' = {} => FreshFor(s)') /\ WindowOf(s)'
<1>1. PICK b \in {0, 1} :
        /\ b = 1 => s = r
        /\ \A x \in RateTimes :
             letThrough'[s][x] = IF rateClock <= x THEN letThrough[s][x] + b
                                 ELSE letThrough[s][x]
  BY LetThroughHistory
<1>2. rateClock' = rateClock /\ rateRestarts' = rateRestarts /\ Extra(s)' = Extra(s)
  BY DEF LetThrough, Extra
<1>3. RunningTotal(s) /\ WindowOf(s)
  BY DEF RateInv
<1>4. RunningTotal(s)'
  <2> SUFFICES ASSUME NEW t \in RateTimes, NEW u \in RateTimes
               PROVE  /\ t <= u => letThrough'[s][t] <= letThrough'[s][u]
                      /\ rateClock <= u => letThrough'[s][u] = letThrough'[s][rateClock]
    BY <1>2 DEF RunningTotal
  <2>1. /\ t <= u => letThrough[s][t] <= letThrough[s][u]
        /\ rateClock <= u => letThrough[s][u] = letThrough[s][rateClock]
    BY <1>3 DEF RunningTotal
  <2> QED
    BY <1>1, <2>1, RateNumbers
(* A request counts in every span that reaches back before the clock.      *)
<1>5. ASSUME NEW x \in RateTimes
      PROVE  After(s, x)' = IF rateClock <= x THEN 0 ELSE After(s, x) + b
  <2>1. letThrough'[s][rateClock] = letThrough[s][rateClock] + b
    BY <1>1, RateNumbers
  <2>2. rateClock <= x => letThrough[s][x] = letThrough[s][rateClock]
    BY <1>3 DEF RunningTotal
  <2> QED
    BY <1>1, <1>2, <2>1, <2>2, RateNumbers DEF After
<1>6. CASE \A w \in window : IsOver(w)
  <2>1. window' = {[count |-> 1, resetAt |-> rateClock + WindowLength]}
    BY <1>6 DEF LetThrough, NextWindow
  <2>2. FreshFor(s)
    BY <1>6, ElapsedIsFresh
  <2> SUFFICES ASSUME NEW w \in window'
               PROVE  /\ w.resetAt <= rateClock + WindowLength
                      /\ \A x \in RateTimes :
                           /\ w.resetAt <= x => After(s, x)' = 0
                           /\ w.resetAt <= x + 1 + WindowLength =>
                                After(s, x)' <= Extra(s) + ShareOf(s, w)
                           /\ w.resetAt <= x + 1 + WindowLength + WindowLength =>
                                After(s, x)' <= Extra(s) + LimitOf[s] + ShareOf(s, w)
    BY <1>2, <1>4, <2>1 DEF WindowOf, ShareOf
  <2>3. w.count = 1 /\ w.resetAt = rateClock + WindowLength
    BY <2>1
  <2>4. ShareOf(s, w) = 1
    BY <2>3, RateNumbers DEF ShareOf
  <2>5. w.resetAt <= rateClock + WindowLength
    BY <2>3, RateNumbers
  <2>6. ASSUME NEW x \in RateTimes
        PROVE  /\ w.resetAt <= x => After(s, x)' = 0
               /\ w.resetAt <= x + 1 + WindowLength =>
                    After(s, x)' <= Extra(s) + ShareOf(s, w)
               /\ w.resetAt <= x + 1 + WindowLength + WindowLength =>
                    After(s, x)' <= Extra(s) + LimitOf[s] + ShareOf(s, w)
    <3>1. /\ rateClock <= x + 1 => After(s, x) <= Extra(s)
          /\ rateClock <= x + 1 + WindowLength => After(s, x) <= Extra(s) + LimitOf[s]
      BY <2>2 DEF FreshFor
    <3> QED
      BY <1>5, <2>3, <2>4, <3>1, RateNumbers
  <2> QED
    BY <2>5, <2>6
<1>7. CASE ~\A w \in window : IsOver(w)
  <2>1. window' = {[w EXCEPT !.count = @ + 1] :
                     w \in {v \in window : v.count < LimitOf[r]}}
    BY <1>7 DEF LetThrough, NextWindow
  <2>2. PICK v \in window : v.count < LimitOf[r] /\ window' = {[v EXCEPT !.count = @ + 1]}
    <3>1. window' # {}
      BY DEF LetThrough
    <3>2. PICK v \in window : v.count < LimitOf[r]
      BY <2>1, <3>1
    <3>3. {u \in window : u.count < LimitOf[r]} = {v}
      BY <3>2 DEF RateShape, AtMostOne
    <3>4. window' = {[v EXCEPT !.count = @ + 1]}
      BY <2>1, <3>3
    <3> QED
      BY <3>2, <3>4
  <2>3. rateClock <= v.resetAt
    BY <1>7, RateNumbers DEF IsOver, RateShape, AtMostOne
  <2> SUFFICES ASSUME NEW w \in window'
               PROVE  /\ w.resetAt <= rateClock + WindowLength
                      /\ \A x \in RateTimes :
                           /\ w.resetAt <= x => After(s, x)' = 0
                           /\ w.resetAt <= x + 1 + WindowLength =>
                                After(s, x)' <= Extra(s) + ShareOf(s, w)
                           /\ w.resetAt <= x + 1 + WindowLength + WindowLength =>
                                After(s, x)' <= Extra(s) + LimitOf[s] + ShareOf(s, w)
    BY <1>2, <1>4, <2>2 DEF WindowOf, ShareOf
  <2>4. w.count = v.count + 1 /\ w.resetAt = v.resetAt
    BY <2>2 DEF RateShape
  <2>5. /\ ShareOf(s, v) + b <= ShareOf(s, w)
        /\ ShareOf(s, v) \in Nat /\ ShareOf(s, w) \in Nat
    BY <1>1, <2>2, <2>4, RateNumbers DEF ShareOf
  <2>6. w.resetAt <= rateClock + WindowLength
    BY <1>3, <2>4 DEF WindowOf
  <2>7. ASSUME NEW x \in RateTimes
        PROVE  /\ w.resetAt <= x => After(s, x)' = 0
               /\ w.resetAt <= x + 1 + WindowLength =>
                    After(s, x)' <= Extra(s) + ShareOf(s, w)
               /\ w.resetAt <= x + 1 + WindowLength + WindowLength =>
                    After(s, x)' <= Extra(s) + LimitOf[s] + ShareOf(s, w)
    <3>1. /\ w.resetAt <= x + 1 + WindowLength => After(s, x) <= Extra(s) + ShareOf(s, v)
          /\ w.resetAt <= x + 1 + WindowLength + WindowLength =>
               After(s, x) <= Extra(s) + LimitOf[s] + ShareOf(s, v)
      BY <1>3, <2>4 DEF WindowOf
    <3>2. w.resetAt <= x => rateClock <= x
      BY <2>3, <2>4, RateNumbers
    <3> QED
      BY <1>1, <1>5, <2>5, <3>1, <3>2, RateNumbers
  <2> QED
    BY <2>6, <2>7
<1> QED
  BY <1>6, <1>7

LEMMA DropElapsedRate ==
  ASSUME RateShape, RateInv, DropElapsed, NEW s \in Routes
  PROVE  RunningTotal(s)' /\ (window' = {} => FreshFor(s)') /\ WindowOf(s)'
<1>1. /\ window' = {} /\ UNCHANGED <<rateClock, letThrough, rateRestarts>>
      /\ \A w \in window : IsOver(w)
  BY DEF DropElapsed, RateShape, AtMostOne
<1>2. FreshFor(s) /\ RunningTotal(s)
  BY <1>1, ElapsedIsFresh DEF RateInv
<1> QED
  BY <1>1, <1>2 DEF FreshFor, RunningTotal, WindowOf, After, Extra

(* A restart forgets the entry; each route may start over at once.         *)
LEMMA RestartRate ==
  ASSUME RateShape, RateInv, RateRestart, NEW s \in Routes
  PROVE  RunningTotal(s)' /\ (window' = {} => FreshFor(s)') /\ WindowOf(s)'
<1>1. /\ window' = {} /\ UNCHANGED <<rateClock, letThrough>>
      /\ rateRestarts' = rateRestarts + 1
  BY DEF RateRestart
<1>2. Extra(s)' = Extra(s) + LimitOf[s]
  <2>1. rateRestarts \in Nat /\ LimitOf[s] \in Nat
    BY RateNumbers, RateAssumption DEF RateShape, RateAssumption
  <2>2. (rateRestarts + 1) * LimitOf[s] = rateRestarts * LimitOf[s] + LimitOf[s]
    BY <2>1, OneMoreTimes, Zenon
  <2> QED
    BY <1>1, <2>2 DEF Extra
<1>3. RunningTotal(s) /\ WindowOf(s) /\ (window = {} => FreshFor(s))
  BY DEF RateInv
<1>4. RunningTotal(s)' /\ WindowOf(s)'
  BY <1>1, <1>3 DEF RunningTotal, WindowOf
<1>5. ASSUME NEW x \in RateTimes
      PROVE  /\ rateClock <= x + 1 => After(s, x) <= Extra(s) + LimitOf[s]
             /\ rateClock <= x + 1 + WindowLength =>
                  After(s, x) <= Extra(s) + LimitOf[s] + LimitOf[s]
  <2>1. CASE window = {}
    <3>1. /\ rateClock <= x + 1 => After(s, x) <= Extra(s)
          /\ rateClock <= x + 1 + WindowLength => After(s, x) <= Extra(s) + LimitOf[s]
      BY <1>3, <2>1 DEF FreshFor
    <3> QED
      BY <3>1, RateNumbers
  <2>2. CASE window # {}
    <3>1. PICK w \in window : TRUE
      BY <2>2
    <3>2. /\ w.resetAt <= rateClock + WindowLength
          /\ w.resetAt <= x + 1 + WindowLength => After(s, x) <= Extra(s) + ShareOf(s, w)
          /\ w.resetAt <= x + 1 + WindowLength + WindowLength =>
               After(s, x) <= Extra(s) + LimitOf[s] + ShareOf(s, w)
      BY <1>3 DEF WindowOf
    <3>3. ShareOf(s, w) <= LimitOf[s] /\ ShareOf(s, w) \in Nat
      BY RateNumbers DEF ShareOf
    <3> QED
      BY <3>2, <3>3, RateNumbers
  <2> QED
    BY <2>1, <2>2
<1>6. FreshFor(s)'
  BY <1>1, <1>2, <1>5 DEF FreshFor, After
<1> QED
  BY <1>4, <1>6

LEMMA TickRate ==
  ASSUME RateShape, RateShape', RateInv, RateTick, NEW s \in Routes
  PROVE  RunningTotal(s)' /\ (window' = {} => FreshFor(s)') /\ WindowOf(s)'
<1>1. /\ rateClock' = rateClock + 1 /\ UNCHANGED <<window, letThrough, rateRestarts>>
      /\ Extra(s)' = Extra(s)
  BY DEF RateTick, Extra
<1>2. RunningTotal(s) /\ WindowOf(s) /\ (window = {} => FreshFor(s))
  BY DEF RateInv
<1>3. rateClock' \in RateTimes /\ letThrough[s][rateClock'] = letThrough[s][rateClock]
  BY <1>1, <1>2, RateNumbers DEF RunningTotal, RateShape
<1>4. \A x \in RateTimes : After(s, x)' = After(s, x)
  BY <1>1, <1>3 DEF After
<1>5. RunningTotal(s)'
  <2> SUFFICES ASSUME NEW t \in RateTimes, NEW u \in RateTimes
               PROVE  /\ t <= u => letThrough[s][t] <= letThrough[s][u]
                      /\ rateClock' <= u => letThrough[s][u] = letThrough[s][rateClock']
    BY <1>1 DEF RunningTotal
  <2>1. /\ t <= u => letThrough[s][t] <= letThrough[s][u]
        /\ rateClock <= u => letThrough[s][u] = letThrough[s][rateClock]
    BY <1>2 DEF RunningTotal
  <2> QED
    BY <1>1, <1>3, <2>1, RateNumbers
<1>6. WindowOf(s)'
  <2> SUFFICES ASSUME NEW w \in window
               PROVE  /\ w.resetAt <= rateClock' + WindowLength
                      /\ \A x \in RateTimes :
                           /\ w.resetAt <= x => After(s, x) = 0
                           /\ w.resetAt <= x + 1 + WindowLength =>
                                After(s, x) <= Extra(s) + ShareOf(s, w)
                           /\ w.resetAt <= x + 1 + WindowLength + WindowLength =>
                                After(s, x) <= Extra(s) + LimitOf[s] + ShareOf(s, w)
    BY <1>1, <1>4 DEF WindowOf
  <2>1. w.resetAt <= rateClock' + WindowLength
    BY <1>1, <1>2, RateNumbers DEF WindowOf
  <2> QED
    BY <1>2, <2>1 DEF WindowOf
<1>7. window' = {} => FreshFor(s)'
  <2> SUFFICES ASSUME window = {}, NEW x \in RateTimes
               PROVE  /\ rateClock' <= x + 1 => After(s, x) <= Extra(s)
                      /\ rateClock' <= x + 1 + WindowLength =>
                           After(s, x) <= Extra(s) + LimitOf[s]
    BY <1>1, <1>4 DEF FreshFor
  <2>1. /\ rateClock <= x + 1 => After(s, x) <= Extra(s)
        /\ rateClock <= x + 1 + WindowLength => After(s, x) <= Extra(s) + LimitOf[s]
    BY <1>2 DEF FreshFor
  <2> QED
    BY <1>1, <2>1, RateNumbers
<1> QED
  BY <1>5, <1>6, <1>7

LEMMA RateInvStep ==
  ASSUME RateShape, RateInv, RateNext
  PROVE  RateInv'
<1> SUFFICES ASSUME NEW s \in Routes
             PROVE  RunningTotal(s)' /\ (window' = {} => FreshFor(s)') /\ WindowOf(s)'
  BY DEF RateInv
<1> QED
  BY LetThroughRate, DropElapsedRate, RestartRate, TickRate, RateShapeStep DEF RateNext

LEMMA RateInvInit == RateInit => RateInv
<1> SUFFICES ASSUME RateInit, NEW s \in Routes
             PROVE  RunningTotal(s) /\ FreshFor(s) /\ WindowOf(s)
  BY DEF RateInv
<1>1. RateShape
  BY RateShapeInit
<1>2. window = {} /\ \A x \in RateTimes : letThrough[s][x] = 0
  BY DEF RateInit
<1>3. \A x \in RateTimes : After(s, x) = 0
  BY <1>1, <1>2, RateNumbers DEF After
<1>4. RunningTotal(s) /\ WindowOf(s)
  BY <1>1, <1>2, RateNumbers DEF RunningTotal, WindowOf
<1>5. FreshFor(s)
  BY <1>1, <1>3, RateNumbers DEF FreshFor
<1> QED
  BY <1>4, <1>5

--------------------------------------------------------------------------------
(* The requests of any one window's length.                                *)

LEMMA TwiceNumbers ==
  ASSUME RateShape, NEW r \in Routes
  PROVE  (2 + rateRestarts) * LimitOf[r] = Extra(r) + LimitOf[r] + LimitOf[r]
<1>1. rateRestarts \in Nat /\ LimitOf[r] \in Nat
  BY RateNumbers, RateAssumption DEF RateShape, RateAssumption
<1> QED
  BY <1>1 DEF Extra

LEMMA TwiceStep ==
  ASSUME RateShape, RateShape', RateInv, RateInv', RateNext, TwiceTheLimitAtMost
  PROVE  TwiceTheLimitAtMost'
<1> SUFFICES ASSUME NEW s \in Routes, NEW t \in RateTimes, NEW u \in RateTimes,
                    u <= t + 1 + WindowLength
             PROVE  letThrough'[s][u] - letThrough'[s][t]
                      <= (2 + rateRestarts') * LimitOf[s]
  BY DEF TwiceTheLimitAtMost
<1>1. letThrough[s][u] - letThrough[s][t] <= Extra(s) + LimitOf[s] + LimitOf[s]
  BY TwiceNumbers DEF TwiceTheLimitAtMost
<1>2. (2 + rateRestarts') * LimitOf[s] = Extra(s)' + LimitOf[s] + LimitOf[s]
  <2>1. rateRestarts' \in Nat /\ LimitOf[s] \in Nat
    BY RateNumbers, RateAssumption DEF RateShape, RateAssumption
  <2> QED
    BY <2>1 DEF Extra
<1>3. Extra(s) <= Extra(s)' /\ Extra(s) \in Nat /\ Extra(s)' \in Nat
  <2>1. /\ rateRestarts' \in Nat /\ rateRestarts \in Nat /\ LimitOf[s] \in Nat
        /\ rateRestarts' = rateRestarts \/ rateRestarts' = rateRestarts + 1
    BY RateNumbers, RateAssumption
       DEF RateShape, RateAssumption, RateNext, LetThrough, DropElapsed, RateRestart, RateTick
  <2>2. (rateRestarts + 1) * LimitOf[s] = rateRestarts * LimitOf[s] + LimitOf[s]
    BY <2>1, OneMoreTimes, Zenon
  <2>3. rateRestarts * LimitOf[s] \in Nat
    BY <2>1
  <2> QED
    BY <2>1, <2>2, <2>3 DEF Extra
<1>4. CASE \E r \in Routes : LetThrough(r)
  <2>1. PICK r \in Routes : LetThrough(r)
    BY <1>4
  <2>2. PICK b \in {0, 1} :
          \A x \in RateTimes :
            letThrough'[s][x] = IF rateClock <= x THEN letThrough[s][x] + b
                                ELSE letThrough[s][x]
    BY <2>1, LetThroughHistory
  <2>3. CASE ~(rateClock <= u /\ ~(rateClock <= t))
    <3>1. letThrough[s][u] - letThrough[s][t] \in Int
      BY RateNumbers
    <3>2. letThrough'[s][u] - letThrough'[s][t] <= letThrough[s][u] - letThrough[s][t]
      BY <2>2, <2>3, RateNumbers
    <3>3. letThrough'[s][u] \in Nat /\ letThrough'[s][t] \in Nat
      BY <2>2, RateNumbers
    <3> QED
      BY <1>1, <1>2, <1>3, <3>1, <3>2, <3>3, RateNumbers
  <2>4. CASE rateClock <= u /\ ~(rateClock <= t)
    <3>1. PICK w \in window' : TRUE
      BY <2>1 DEF LetThrough
    <3>2. /\ rateClock' = rateClock
          /\ letThrough'[s][u] = letThrough'[s][rateClock']
      BY <2>1, <2>4 DEF LetThrough, RateInv, RunningTotal
    <3>3. /\ w.resetAt <= rateClock + WindowLength
          /\ w.resetAt <= t + 1 + WindowLength + WindowLength =>
               After(s, t)' <= Extra(s)' + LimitOf[s] + ShareOf(s, w)
      BY <3>2 DEF RateInv, WindowOf, ShareOf
    <3>4. w.count \in Nat /\ w.resetAt \in Nat
      BY DEF RateShape
    <3>5. ShareOf(s, w) <= LimitOf[s] /\ ShareOf(s, w) \in Nat
      BY <3>4, RateNumbers DEF ShareOf
    <3>6. After(s, t)' = letThrough'[s][u] - letThrough'[s][t]
      BY <3>2 DEF After
    <3>7. letThrough'[s][u] \in Nat /\ letThrough'[s][t] \in Nat
      BY <2>2, RateNumbers
    <3>8. w.resetAt <= t + 1 + WindowLength + WindowLength
      BY <2>4, <3>3, <3>4, RateNumbers
    <3> QED
      BY <1>2, <1>3, <3>3, <3>5, <3>6, <3>7, <3>8, RateNumbers
  <2> QED
    BY <2>3, <2>4
<1>5. CASE DropElapsed \/ RateRestart \/ RateTick
  <2>1. letThrough' = letThrough
    BY <1>5 DEF DropElapsed, RateRestart, RateTick
  <2> QED
    BY <1>1, <1>2, <1>3, <2>1, RateNumbers
<1> QED
  BY <1>4, <1>5 DEF RateNext

LEMMA TwiceInit == RateInit => TwiceTheLimitAtMost
<1> SUFFICES ASSUME RateInit, NEW s \in Routes, NEW t \in RateTimes, NEW u \in RateTimes
             PROVE  letThrough[s][u] - letThrough[s][t] <= (2 + rateRestarts) * LimitOf[s]
  BY DEF TwiceTheLimitAtMost
<1>1. RateShape /\ letThrough[s][u] = 0 /\ letThrough[s][t] = 0
  BY RateShapeInit DEF RateInit
<1> QED
  BY <1>1, TwiceNumbers, RateNumbers

(* Around the end of a window a route lets through twice its limit within  *)
(* a window's length, one limit more per restart, and never more, whatever *)
(* limits the other routes apply to the entry they share.                  *)
THEOREM TwiceTheLimit == RateSpec => []TwiceTheLimitAtMost
<1>1. RateShape /\ RateInv /\ TwiceTheLimitAtMost /\ RateNext
        => RateShape' /\ RateInv' /\ TwiceTheLimitAtMost'
  BY RateShapeStep, RateInvStep, TwiceStep
<1>2. RateShape /\ RateInv /\ TwiceTheLimitAtMost /\ UNCHANGED rateVars
        => RateShape' /\ RateInv' /\ TwiceTheLimitAtMost'
  BY DEF RateShape, RateInv, TwiceTheLimitAtMost, RunningTotal, FreshFor, WindowOf,
         After, Extra, rateVars
<1> QED
  BY <1>1, <1>2, RateShapeInit, RateInvInit, TwiceInit, PTL DEF RateSpec

--------------------------------------------------------------------------------
(* Looking up a code.                                                      *)

Asking == {k \in Lookups : asking[k] \in {"metadata", "text"}}
Viewing == {k \in Lookups : asking[k] = "viewed"}

LookShape ==
  /\ lookClock \in LookTimes
  /\ AtMostOne(tally)
  /\ tally \subseteq [failures : Nat, firstAttempt : LookTimes, lockedUntil : Nat]
  /\ asking \in [Lookups -> {"none", "metadata", "text", "viewed"}]
  /\ viewedUntil \in Nat /\ viewCount \in Nat
  /\ misses \in [0..LastLookupTime -> Nat]

LEMMA CountedFields ==
  ASSUME LookShape, NEW e \in [failures : Nat, firstAttempt : LookTimes, lockedUntil : Nat]
  PROVE  /\ Counted(e).failures = e.failures + 1
         /\ Counted(e).firstAttempt = e.firstAttempt
         /\ Counted(e).lockedUntil = IF e.failures + 1 >= MaxFailedLookups
                                     THEN lookClock + LookupLockout ELSE e.lockedUntil
         /\ Counted(e) \in [failures : Nat, firstAttempt : LookTimes, lockedUntil : Nat]
<1>1. lookClock + LookupLockout \in Nat
  BY LookupAssumption DEF LookupAssumption, LookShape, LookTimes
<1>2. Counted(e) = [e EXCEPT !.failures = e.failures + 1,
                            !.lockedUntil = IF e.failures + 1 >= MaxFailedLookups
                                            THEN lookClock + LookupLockout
                                            ELSE e.lockedUntil]
  BY DEF Counted
<1>3. e.failures + 1 \in Nat /\ e.lockedUntil \in Nat
  OBVIOUS
<1> QED
  BY <1>1, <1>2, <1>3

(* The entry a miss leaves: the current one counted, or a new one.         *)
NewEntry == [failures |-> 0, firstAttempt |-> lookClock, lockedUntil |-> 0]

LEMMA NewTallyIsOne ==
  ASSUME LookShape
  PROVE  \/ /\ \A e \in tally : IsStale(e)
            /\ NewTally = {Counted(NewEntry)}
         \/ \E e \in tally : ~IsStale(e) /\ NewTally = {Counted(e)}
<1>1. CASE \A e \in tally : IsStale(e)
  <2>1. {e \in tally : ~IsStale(e)} = {}
    BY <1>1
  <2> QED
    BY <1>1, <2>1 DEF NewTally, NewEntry
<1>2. CASE ~\A e \in tally : IsStale(e)
  <2>1. PICK e \in tally : ~IsStale(e)
    BY <1>2
  <2>2. {x \in tally : ~IsStale(x)} = {e}
    BY <2>1 DEF LookShape, AtMostOne
  <2>3. NewTally = {Counted(e)}
    BY <2>2 DEF NewTally
  <2> QED
    BY <2>1, <2>3
<1> QED
  BY <1>1, <1>2

LEMMA LookShapeStep ==
  ASSUME LookShape, LookNext
  PROVE  LookShape'
<1> USE LookupAssumption DEF LookupAssumption
<1>1. CASE LookTick
  BY <1>1 DEF LookTick, LookShape, LookTimes
<1>2. ASSUME NEW k \in Lookups, NEW route \in {"metadata", "text"}, Ask(k, route)
      PROVE  LookShape'
  BY <1>2 DEF Ask, LookShape, AtMostOne
<1>3. ASSUME NEW k \in Lookups, Miss(k)
      PROVE  LookShape'
  <2>1. /\ tally' = NewTally /\ asking' = [asking EXCEPT ![k] = "none"]
        /\ UNCHANGED <<lookClock, viewedUntil, viewCount>>
        /\ misses' \in [0..LastLookupTime -> Nat]
    BY <1>3 DEF Miss, Answered, LookShape
  <2>2. NewEntry \in [failures : Nat, firstAttempt : LookTimes, lockedUntil : Nat]
    BY DEF NewEntry, LookShape
  <2>3. PICK e \in [failures : Nat, firstAttempt : LookTimes, lockedUntil : Nat] :
          tally' = {Counted(e)}
    BY <2>1, <2>2, NewTallyIsOne DEF LookShape
  <2>4. Counted(e) \in [failures : Nat, firstAttempt : LookTimes, lockedUntil : Nat]
    BY CountedFields
  <2> QED
    BY <2>1, <2>3, <2>4 DEF LookShape, AtMostOne
<1>4. ASSUME NEW k \in Lookups, NEW party \in Parties, Hit(k, party)
      PROVE  LookShape'
  <2>1. tally' = {} /\ misses' = NoMisses /\ UNCHANGED <<lookClock, viewCount>>
    BY <1>4 DEF Hit
  <2>2. asking' \in [Lookups -> {"none", "metadata", "text", "viewed"}]
    BY <1>4 DEF Hit, Answered, LookShape
  <2>3. viewedUntil' \in Nat
    BY <1>4 DEF Hit, LookShape, LookTimes
  <2> QED
    BY <2>1, <2>2, <2>3 DEF LookShape, AtMostOne, NoMisses
<1>5. ASSUME NEW k \in Lookups, CountView(k) \/ Neutral(k)
      PROVE  LookShape'
  <2>1. /\ UNCHANGED <<lookClock, tally, viewedUntil, misses>>
        /\ asking' = [asking EXCEPT ![k] = "none"]
        /\ viewCount' \in {viewCount, viewCount + 1}
    BY <1>5 DEF CountView, Neutral, Answered
  <2> QED
    BY <2>1 DEF LookShape
<1> QED
  BY <1>1, <1>2, <1>3, <1>4, <1>5 DEF LookNext

LEMMA LookShapeInit == LookInit => LookShape
BY LookupAssumption DEF LookupAssumption, LookInit, LookShape, AtMostOne, LookTimes, NoMisses

LEMMA LookShapeIsType == LookShape => LookTypeOK
BY AtMostOneCounts DEF LookShape, LookTypeOK

(* Failures recorded after time x.                                         *)
Late(x) == misses[lookClock] - misses[x]

MissesStandStill ==
  \A t, u \in DOMAIN misses :
    /\ t <= u => misses[t] <= misses[u]
    /\ lookClock <= u => misses[u] = misses[lookClock]

(* Without an entry no failure is of this very time, and of the last       *)
(* window's length there are two short of the limit: the first of a stale  *)
(* entry is older than that.                                               *)
NoEntryInv ==
  tally = {} =>
    \A x \in DOMAIN misses :
      /\ lookClock <= x + 1 => Late(x) = 0
      /\ lookClock <= x + LookupWindow => Late(x) <= MaxFailedLookups - 2

(* The failures an entry counts are those since its first; behind a        *)
(* lockout none is recent; the recent ones and the requests still past the *)
(* check keep within what one entry allows; and what came before it, within*)
(* a window's length, is less by its first and by the request that began   *)
(* the new one.                                                            *)
EntryInv(e) ==
  /\ e.firstAttempt <= lookClock
  /\ Late(e.firstAttempt - 1) = e.failures
  /\ misses[e.firstAttempt - 1] < misses[e.firstAttempt]
  /\ \A x \in DOMAIN misses :
       /\ e.firstAttempt + LookupWindow <= x => Late(x) = 0
       /\ e.failures >= MaxFailedLookups /\ e.lockedUntil <= x + LookupLockout =>
            Late(x) = 0
       /\ lookClock <= x + LookupWindow /\ e.firstAttempt <= x =>
            Late(x) + Cardinality(Asking) <= MaxFailedLookups - 2 + Cardinality(Lookups)
       /\ lookClock <= x + LookupWindow /\ e.firstAttempt <= x + 1 =>
            Late(x) + Cardinality(Asking) <= MaxFailedLookups - 1 + Cardinality(Lookups)
       /\ x < e.firstAttempt /\ e.firstAttempt <= x + LookupWindow =>
            misses[e.firstAttempt - 1] - misses[x]
              <= MaxFailedLookups + Cardinality(Lookups) - 3

LookInv == MissesStandStill /\ NoEntryInv /\ \A e \in tally : EntryInv(e)

LEMMA AskingIsFinite ==
  /\ IsFiniteSet(Asking) /\ Cardinality(Asking) \in Nat
  /\ Cardinality(Lookups) \in Nat
  /\ Cardinality(Asking) <= Cardinality(Lookups)
BY LookupAssumption, FS_Subset, FS_CardinalityType DEF LookupAssumption, Asking

LEMMA LookNumbers ==
  ASSUME LookShape
  PROVE  /\ lookClock \in DOMAIN misses /\ lookClock \in Nat /\ lookClock >= 1
         /\ LookupWindow \in Nat /\ LookupWindow >= 1
         /\ LookupLockout \in Nat /\ LookupLockout >= LookupWindow
         /\ MaxFailedLookups \in Nat /\ MaxFailedLookups >= 2
         /\ Cardinality(Asking) \in Nat /\ Cardinality(Lookups) \in Nat
         /\ Cardinality(Asking) <= Cardinality(Lookups)
         /\ \A x \in DOMAIN misses : x \in Nat /\ misses[x] \in Nat /\ Late(x) \in Int
         /\ \A e \in tally :
              /\ e.failures \in Nat /\ e.lockedUntil \in Nat
              /\ e.firstAttempt \in Nat /\ e.firstAttempt >= 1
              /\ e.firstAttempt \in DOMAIN misses
              /\ e.firstAttempt - 1 \in DOMAIN misses
<1> USE LookupAssumption DEF LookupAssumption, LookShape, LookTimes
<1>1. \A x \in DOMAIN misses : x \in Nat /\ misses[x] \in Nat
  OBVIOUS
<1>2. lookClock \in DOMAIN misses /\ lookClock \in Nat /\ lookClock >= 1
  OBVIOUS
<1>3. \A e \in tally :
        /\ e.failures \in Nat /\ e.lockedUntil \in Nat
        /\ e.firstAttempt \in 1..LastLookupTime
  OBVIOUS
<1>4. \A a \in 1..LastLookupTime : a \in DOMAIN misses /\ a - 1 \in DOMAIN misses
  OBVIOUS
<1> QED
  BY <1>1, <1>2, <1>3, <1>4, AskingIsFinite DEF Late

(* Past the check the recent failures are within the limit.                *)
LEMMA UnlockedIsLow ==
  ASSUME LookShape, LookInv, ~LockedOut, NEW e \in tally,
         NEW x \in DOMAIN misses, lookClock <= x + LookupWindow
  PROVE  /\ e.firstAttempt <= x => Late(x) <= MaxFailedLookups - 2
         /\ e.firstAttempt <= x + 1 => Late(x) <= MaxFailedLookups - 1
<1>1. EntryInv(e) /\ MissesStandStill
  BY DEF LookInv
<1>2. e.lockedUntil <= lookClock
  BY LookNumbers DEF LockedOut
<1>3. CASE e.failures >= MaxFailedLookups
  <2>1. e.lockedUntil <= x + LookupLockout
    BY <1>2, LookNumbers
  <2>2. Late(x) = 0
    BY <1>1, <1>3, <2>1 DEF EntryInv
  <2> QED
    BY <2>2, LookNumbers
<1>4. CASE ~(e.failures >= MaxFailedLookups)
  <2>1. /\ misses[lookClock] - misses[e.firstAttempt - 1] = e.failures
        /\ misses[e.firstAttempt - 1] < misses[e.firstAttempt]
    BY <1>1 DEF EntryInv, Late
  <2>2. e.firstAttempt <= x => misses[e.firstAttempt] <= misses[x]
    BY <1>1, LookNumbers DEF MissesStandStill
  <2>3. e.firstAttempt <= x + 1 => misses[e.firstAttempt - 1] <= misses[x]
    <3>1. e.firstAttempt <= x + 1 => e.firstAttempt - 1 <= x
      BY LookNumbers
    <3> QED
      BY <1>1, <3>1, LookNumbers DEF MissesStandStill
  <2> QED
    BY <1>4, <2>1, <2>2, <2>3, LookNumbers DEF Late
<1> QED
  BY <1>3, <1>4

LEMMA AskInv ==
  ASSUME LookShape, LookShape', LookInv,
         NEW k \in Lookups, NEW route \in {"metadata", "text"}, Ask(k, route)
  PROVE  LookInv'
<1>1. /\ ~LockedOut /\ tally' = {e \in tally : ~IsStale(e)}
      /\ UNCHANGED <<lookClock, misses>>
  BY DEF Ask
<1>2. MissesStandStill /\ MissesStandStill' /\ \A x : Late(x)' = Late(x)
  BY <1>1 DEF LookInv, MissesStandStill, Late
<1>3. Cardinality(Asking)' \in Nat /\ Cardinality(Asking)' <= Cardinality(Lookups)
  <2>1. Asking' \subseteq Lookups
    BY DEF Asking
  <2> QED
    BY <2>1, LookupAssumption, FS_Subset, FS_CardinalityType DEF LookupAssumption
<1>4. NoEntryInv'
  <2> SUFFICES ASSUME tally' = {}, NEW x \in DOMAIN misses
               PROVE  /\ lookClock <= x + 1 => Late(x) = 0
                      /\ lookClock <= x + LookupWindow => Late(x) <= MaxFailedLookups - 2
    BY <1>1, <1>2 DEF NoEntryInv
  <2>1. CASE tally = {}
    BY <2>1 DEF LookInv, NoEntryInv
  <2>2. CASE tally # {}
    <3>1. PICK e \in tally : lookClock > e.firstAttempt + LookupWindow
      BY <1>1, <2>2 DEF IsStale
    <3>2. lookClock <= x + 1 => Late(x) = 0
      <4>1. lookClock <= x + 1 => e.firstAttempt + LookupWindow <= x
        BY <3>1, LookNumbers
      <4> QED
        BY <4>1 DEF LookInv, EntryInv
    <3>3. lookClock <= x + LookupWindow => e.firstAttempt <= x
      BY <3>1, LookNumbers
    <3> QED
      BY <1>1, <3>2, <3>3, UnlockedIsLow
  <2> QED
    BY <2>1, <2>2
<1>5. ASSUME NEW e \in tally'
      PROVE  EntryInv(e)'
  <2>1. e \in tally /\ EntryInv(e)
    BY <1>1, <1>5 DEF LookInv
  <2>2. ASSUME NEW x \in DOMAIN misses, lookClock <= x + LookupWindow
        PROVE  /\ e.firstAttempt <= x => Late(x) + Cardinality(Asking)'
                     <= MaxFailedLookups - 2 + Cardinality(Lookups)
               /\ e.firstAttempt <= x + 1 => Late(x) + Cardinality(Asking)'
                     <= MaxFailedLookups - 1 + Cardinality(Lookups)
    BY <1>1, <1>3, <2>1, <2>2, UnlockedIsLow, LookNumbers
  <2> QED
    BY <1>1, <1>2, <2>1, <2>2 DEF EntryInv
<1> QED
  BY <1>2, <1>4, <1>5 DEF LookInv

(* A verdict takes its request out of those past the check.                *)
LEMMA VerdictLeaves ==
  ASSUME LookShape, NEW k \in Asking, Answered(k)
  PROVE  /\ Cardinality(Asking)' = Cardinality(Asking) - 1
         /\ Cardinality(Asking) >= 1
<1>1. Asking' = Asking \ {k}
  BY DEF Asking, Answered, LookShape
<1>2. Cardinality(Asking \ {k}) = Cardinality(Asking) - 1
  BY AskingIsFinite, FS_RemoveElement
<1>3. Cardinality(Asking \ {k}) \in Nat
  BY AskingIsFinite, FS_RemoveElement, FS_CardinalityType
<1> QED
  BY <1>1, <1>2, <1>3, AskingIsFinite

LEMMA MissHistory ==
  ASSUME LookShape, LookInv, NEW k \in Lookups, Miss(k)
  PROVE  /\ DOMAIN misses' = DOMAIN misses
         /\ \A x \in DOMAIN misses :
              /\ misses'[x] = IF lookClock <= x THEN misses[x] + 1 ELSE misses[x]
              /\ Late(x)' = IF lookClock <= x THEN 0 ELSE Late(x) + 1
              /\ lookClock <= x => Late(x) = 0
         /\ MissesStandStill'
<1>1. /\ lookClock' = lookClock /\ DOMAIN misses' = DOMAIN misses
      /\ \A x \in DOMAIN misses :
           misses'[x] = IF lookClock <= x THEN misses[x] + 1 ELSE misses[x]
  BY DEF Miss, LookShape
<1>2. MissesStandStill
  BY DEF LookInv
<1>3. \A x \in DOMAIN misses :
        /\ lookClock <= x => Late(x) = 0
        /\ Late(x)' = IF lookClock <= x THEN 0 ELSE Late(x) + 1
  <2> SUFFICES ASSUME NEW x \in DOMAIN misses
               PROVE  /\ lookClock <= x => Late(x) = 0
                      /\ Late(x)' = IF lookClock <= x THEN 0 ELSE Late(x) + 1
    OBVIOUS
  <2>1. misses'[lookClock] = misses[lookClock] + 1
    BY <1>1, LookNumbers
  <2>2. lookClock <= x => misses[x] = misses[lookClock]
    BY <1>2 DEF MissesStandStill
  <2> QED
    BY <1>1, <2>1, <2>2, LookNumbers DEF Late
<1>4. MissesStandStill'
  <2> SUFFICES ASSUME NEW t \in DOMAIN misses, NEW u \in DOMAIN misses
               PROVE  /\ t <= u => misses'[t] <= misses'[u]
                      /\ lookClock <= u => misses'[u] = misses'[lookClock]
    BY <1>1 DEF MissesStandStill
  <2>1. /\ t <= u => misses[t] <= misses[u]
        /\ lookClock <= u => misses[u] = misses[lookClock]
    BY <1>2 DEF MissesStandStill
  <2> QED
    BY <1>1, <2>1, LookNumbers
<1> QED
  BY <1>1, <1>3, <1>4

(* When a failure starts an entry, no earlier one is of this very time,    *)
(* and with the requests past the check the recent ones are limited.       *)
LEMMA BeforeNewEntry ==
  ASSUME LookShape, LookInv, \A e \in tally : IsStale(e),
         Cardinality(Asking) >= 1, NEW x \in DOMAIN misses
  PROVE  /\ lookClock <= x + 1 => Late(x) = 0
         /\ lookClock <= x + LookupWindow =>
              Late(x) <= MaxFailedLookups + Cardinality(Lookups) - 3
<1>1. CASE tally = {}
  <2>1. /\ lookClock <= x + 1 => Late(x) = 0
        /\ lookClock <= x + LookupWindow => Late(x) <= MaxFailedLookups - 2
    BY <1>1 DEF LookInv, NoEntryInv
  <2> QED
    BY <2>1, LookNumbers
<1>2. CASE tally # {}
  <2>1. PICK e \in tally : lookClock > e.firstAttempt + LookupWindow
    BY <1>2 DEF IsStale
  <2>2. /\ e.firstAttempt + LookupWindow <= x => Late(x) = 0
        /\ lookClock <= x + LookupWindow /\ e.firstAttempt <= x =>
             Late(x) + Cardinality(Asking) <= MaxFailedLookups - 2 + Cardinality(Lookups)
    BY DEF LookInv, EntryInv
  <2> QED
    BY <2>1, <2>2, LookNumbers
<1> QED
  BY <1>1, <1>2

LEMMA MissInv ==
  ASSUME LookShape, LookShape', LookInv, NEW k \in Lookups, Miss(k)
  PROVE  LookInv'
<1>1. /\ k \in Asking /\ Answered(k) /\ lookClock' = lookClock /\ tally' = NewTally
      /\ LookupWindow \in Nat
  BY LookNumbers DEF Miss, Asking
<1>2. /\ Cardinality(Asking)' = Cardinality(Asking) - 1
      /\ Cardinality(Asking) >= 1
  BY <1>1, VerdictLeaves
<1>3. /\ DOMAIN misses' = DOMAIN misses
      /\ \A x \in DOMAIN misses :
           /\ misses'[x] = IF lookClock <= x THEN misses[x] + 1 ELSE misses[x]
           /\ Late(x)' = IF lookClock <= x THEN 0 ELSE Late(x) + 1
           /\ lookClock <= x => Late(x) = 0
      /\ MissesStandStill'
  BY MissHistory
<1>4. CASE (\A e \in tally : IsStale(e)) /\ NewTally = {Counted(NewEntry)}
  <2>1. NewEntry \in [failures : Nat, firstAttempt : LookTimes, lockedUntil : Nat]
    BY DEF NewEntry, LookShape
  <2>2. PICK d : /\ d.failures = 1 /\ d.firstAttempt = lookClock /\ d.lockedUntil = 0
                 /\ tally' = {d}
    <3>1. NewEntry.failures = 0 /\ NewEntry.firstAttempt = lookClock
          /\ NewEntry.lockedUntil = 0
      BY DEF NewEntry
    <3>2. /\ Counted(NewEntry).failures = 1 /\ Counted(NewEntry).firstAttempt = lookClock
          /\ Counted(NewEntry).lockedUntil = 0
      BY <2>1, <3>1, CountedFields, LookNumbers
    <3> QED
      BY <1>1, <1>4, <3>2
  <2>4. lookClock - 1 \in DOMAIN misses /\ lookClock \in DOMAIN misses
    BY LookupAssumption DEF LookupAssumption, LookShape, LookTimes
  <2>5. /\ Late(d.firstAttempt - 1)' = 1
        /\ misses'[d.firstAttempt - 1] < misses'[d.firstAttempt]
    <3>1. Late(d.firstAttempt - 1) = 0
      BY <1>2, <1>4, <2>2, <2>4, BeforeNewEntry, LookNumbers
    <3>2. misses[d.firstAttempt - 1] = misses[d.firstAttempt]
      BY <2>2, <2>4, <3>1, LookNumbers DEF Late
    <3>3. ~(lookClock <= d.firstAttempt - 1) /\ lookClock <= d.firstAttempt
      BY <2>2, LookNumbers
    <3>4. /\ Late(d.firstAttempt - 1)' = Late(d.firstAttempt - 1) + 1
          /\ misses'[d.firstAttempt - 1] = misses[d.firstAttempt - 1]
          /\ misses'[d.firstAttempt] = misses[d.firstAttempt] + 1
      BY <1>3, <2>2, <2>4, <3>3
    <3>5. misses[d.firstAttempt] \in Nat
      BY <2>2, LookNumbers
    <3>6. misses'[d.firstAttempt - 1] < misses'[d.firstAttempt]
      BY <3>2, <3>4, <3>5
    <3> QED
      BY <3>1, <3>4, <3>6
  <2>6. ASSUME NEW x \in DOMAIN misses
        PROVE  /\ lookClock + LookupWindow <= x => Late(x)' = 0
               /\ lookClock <= x => Late(x)' + Cardinality(Asking)'
                     <= MaxFailedLookups - 2 + Cardinality(Lookups)
               /\ lookClock <= x + 1 => Late(x)' + Cardinality(Asking)'
                     <= MaxFailedLookups - 1 + Cardinality(Lookups)
               /\ x < lookClock /\ lookClock <= x + LookupWindow =>
                    misses'[lookClock - 1] - misses'[x]
                      <= MaxFailedLookups + Cardinality(Lookups) - 3
    <3>1. /\ lookClock <= x + 1 => Late(x) = 0
          /\ lookClock <= x + LookupWindow =>
               Late(x) <= MaxFailedLookups + Cardinality(Lookups) - 3
      BY <1>2, <1>4, BeforeNewEntry
    <3>2. x < lookClock => misses'[lookClock - 1] - misses'[x] <= Late(x)
      <4>1. misses[lookClock - 1] <= misses[lookClock]
        BY <2>4, LookNumbers DEF LookInv, MissesStandStill
      <4>2. x < lookClock => misses'[lookClock - 1] = misses[lookClock - 1]
                              /\ misses'[x] = misses[x]
        BY <1>3, <2>4, LookNumbers
      <4> QED
        BY <2>4, <4>1, <4>2, LookNumbers DEF Late
    <3>3. misses'[lookClock - 1] - misses'[x] \in Int
      BY <1>3, <2>4, LookNumbers
    <3> QED
      BY <1>2, <1>3, <3>1, <3>2, <3>3, LookNumbers
  <2>7. EntryInv(d)'
    BY <1>1, <1>3, <2>2, <2>5, <2>6, LookNumbers DEF EntryInv
  <2> QED
    BY <1>3, <2>2, <2>7 DEF LookInv, NoEntryInv
<1>5. CASE \E e \in tally : ~IsStale(e) /\ NewTally = {Counted(e)}
  <2>1. PICK e \in tally : ~IsStale(e) /\ NewTally = {Counted(e)}
    BY <1>5
  <2>2. PICK d : /\ d.failures = e.failures + 1 /\ d.firstAttempt = e.firstAttempt
                 /\ d.lockedUntil = IF e.failures + 1 >= MaxFailedLookups
                                    THEN lookClock + LookupLockout ELSE e.lockedUntil
                 /\ tally' = {d}
    BY <1>1, <2>1, CountedFields DEF LookShape
  <2>4. EntryInv(e) /\ MissesStandStill
    BY DEF LookInv
  <2>5. lookClock <= e.firstAttempt + LookupWindow /\ e.firstAttempt <= lookClock
    BY <2>1, <2>4, LookNumbers DEF IsStale, EntryInv
  <2>6. /\ e.firstAttempt \in DOMAIN misses /\ e.firstAttempt - 1 \in DOMAIN misses
        /\ e.firstAttempt \in Nat /\ e.failures \in Nat
    BY LookNumbers
  <2>7. /\ Late(e.firstAttempt - 1)' = e.failures + 1
        /\ misses'[e.firstAttempt - 1] < misses'[e.firstAttempt]
    BY <1>3, <2>4, <2>5, <2>6, LookNumbers DEF EntryInv
  <2>8. ASSUME NEW x \in DOMAIN misses
        PROVE  /\ e.firstAttempt + LookupWindow <= x => Late(x)' = 0
               /\ d.failures >= MaxFailedLookups /\ d.lockedUntil <= x + LookupLockout =>
                    Late(x)' = 0
               /\ lookClock <= x + LookupWindow /\ e.firstAttempt <= x =>
                    Late(x)' + Cardinality(Asking)'
                      <= MaxFailedLookups - 2 + Cardinality(Lookups)
               /\ lookClock <= x + LookupWindow /\ e.firstAttempt <= x + 1 =>
                    Late(x)' + Cardinality(Asking)'
                      <= MaxFailedLookups - 1 + Cardinality(Lookups)
               /\ x < e.firstAttempt /\ e.firstAttempt <= x + LookupWindow =>
                    misses'[e.firstAttempt - 1] - misses'[x]
                      <= MaxFailedLookups + Cardinality(Lookups) - 3
    <3>1. Late(x)' = (IF lookClock <= x THEN 0 ELSE Late(x) + 1)
          /\ (lookClock <= x => Late(x) = 0)
      BY <1>3
    <3>2. /\ lookClock <= x + LookupWindow /\ e.firstAttempt <= x =>
               Late(x) + Cardinality(Asking) <= MaxFailedLookups - 2 + Cardinality(Lookups)
          /\ lookClock <= x + LookupWindow /\ e.firstAttempt <= x + 1 =>
               Late(x) + Cardinality(Asking) <= MaxFailedLookups - 1 + Cardinality(Lookups)
          /\ x < e.firstAttempt /\ e.firstAttempt <= x + LookupWindow =>
               misses[e.firstAttempt - 1] - misses[x]
                 <= MaxFailedLookups + Cardinality(Lookups) - 3
      BY <2>4 DEF EntryInv
    <3>3. e.firstAttempt + LookupWindow <= x => Late(x)' = 0
      BY <2>5, <3>1, LookNumbers
    <3>4. d.failures >= MaxFailedLookups /\ d.lockedUntil <= x + LookupLockout =>
            Late(x)' = 0
      BY <2>2, <3>1, LookNumbers
    <3>5. /\ lookClock <= x + LookupWindow /\ e.firstAttempt <= x =>
               Late(x)' + Cardinality(Asking)'
                 <= MaxFailedLookups - 2 + Cardinality(Lookups)
          /\ lookClock <= x + LookupWindow /\ e.firstAttempt <= x + 1 =>
               Late(x)' + Cardinality(Asking)'
                 <= MaxFailedLookups - 1 + Cardinality(Lookups)
      BY <1>2, <3>1, <3>2, LookNumbers
    <3>6. x < e.firstAttempt => /\ misses'[x] = misses[x]
                                /\ misses'[e.firstAttempt - 1] = misses[e.firstAttempt - 1]
      BY <1>3, <2>5, <2>6, LookNumbers
    <3> QED
      BY <3>2, <3>3, <3>4, <3>5, <3>6
  <2>9. EntryInv(d)'
    BY <1>1, <1>3, <2>2, <2>5, <2>7, <2>8 DEF EntryInv
  <2> QED
    BY <1>3, <2>2, <2>9 DEF LookInv, NoEntryInv
<1> QED
  BY <1>4, <1>5, NewTallyIsOne

LEMMA HitInv ==
  ASSUME LookShape, LookShape', LookInv, NEW k \in Lookups, NEW party \in Parties,
         Hit(k, party)
  PROVE  LookInv'
<1>1. tally' = {} /\ lookClock' = lookClock /\ misses' = NoMisses
  BY DEF Hit
<1>2. DOMAIN NoMisses = DOMAIN misses /\ \A x \in DOMAIN misses : NoMisses[x] = 0
  BY DEF NoMisses, LookShape
<1>3. \A x \in DOMAIN misses : Late(x)' = 0
  BY <1>1, <1>2, LookNumbers DEF Late
<1>4. MissesStandStill'
  BY <1>1, <1>2, LookNumbers DEF MissesStandStill
<1> QED
  BY <1>1, <1>2, <1>3, <1>4, LookNumbers DEF LookInv, NoEntryInv

(* What neither changes the entry nor the history.                         *)
LEMMA OthersInv ==
  ASSUME LookShape, LookInv, NEW k \in Lookups, CountView(k) \/ Neutral(k)
  PROVE  LookInv'
<1>1. /\ UNCHANGED <<lookClock, tally, misses>>
      /\ Asking' \subseteq Asking
  BY DEF CountView, Neutral, Answered, Asking, LookShape
<1>2. Cardinality(Asking)' \in Nat /\ Cardinality(Asking)' <= Cardinality(Asking)
  BY <1>1, AskingIsFinite, FS_Subset, FS_CardinalityType
<1>3. \A x : Late(x)' = Late(x)
  BY <1>1 DEF Late
<1>4. MissesStandStill' /\ NoEntryInv'
  BY <1>1, <1>3 DEF LookInv, MissesStandStill, NoEntryInv
<1>5. ASSUME NEW e \in tally PROVE EntryInv(e)'
  <2>1. ASSUME NEW x \in DOMAIN misses
        PROVE  /\ lookClock <= x + LookupWindow /\ e.firstAttempt <= x =>
                    Late(x) + Cardinality(Asking)'
                      <= MaxFailedLookups - 2 + Cardinality(Lookups)
               /\ lookClock <= x + LookupWindow /\ e.firstAttempt <= x + 1 =>
                    Late(x) + Cardinality(Asking)'
                      <= MaxFailedLookups - 1 + Cardinality(Lookups)
    BY <1>2, LookNumbers DEF LookInv, EntryInv
  <2>2. EntryInv(e)
    BY DEF LookInv
  <2> QED
    BY <1>1, <1>3, <2>1, <2>2 DEF EntryInv
<1> QED
  BY <1>1, <1>4, <1>5 DEF LookInv

LEMMA LookTickInv ==
  ASSUME LookShape, LookShape', LookInv, LookTick
  PROVE  LookInv'
<1>1. lookClock' = lookClock + 1 /\ UNCHANGED <<tally, asking, misses>>
  BY DEF LookTick
<1>2. MissesStandStill
  BY DEF LookInv
<1>3. lookClock' \in DOMAIN misses
  BY <1>1, LookNumbers DEF LookShape, LookTimes
<1>4. misses[lookClock'] = misses[lookClock]
  BY <1>1, <1>2, <1>3, LookNumbers DEF MissesStandStill
<1>5. \A x \in DOMAIN misses : Late(x)' = Late(x)
  BY <1>1, <1>4 DEF Late
<1>6. Cardinality(Asking)' = Cardinality(Asking)
  BY <1>1 DEF Asking
<1>7. MissesStandStill'
  <2>1. \A u \in DOMAIN misses : lookClock' <= u => lookClock <= u
    BY <1>1, LookNumbers
  <2> QED
    BY <1>1, <1>2, <1>4, <2>1 DEF MissesStandStill
<1>8. \A x \in DOMAIN misses :
        /\ lookClock' <= x + 1 => lookClock <= x + 1
        /\ lookClock' <= x + LookupWindow => lookClock <= x + LookupWindow
  BY <1>1, LookNumbers
<1>9. NoEntryInv'
  BY <1>1, <1>5, <1>8 DEF LookInv, NoEntryInv
<1>10. ASSUME NEW e \in tally PROVE EntryInv(e)'
  <2>1. EntryInv(e) /\ e.firstAttempt <= lookClock' /\ e.firstAttempt - 1 \in DOMAIN misses
    BY <1>1, LookNumbers DEF LookInv, EntryInv
  <2> QED
    BY <1>1, <1>5, <1>6, <1>8, <2>1 DEF EntryInv
<1> QED
  BY <1>1, <1>7, <1>9, <1>10 DEF LookInv

LEMMA LookInvStep ==
  ASSUME LookShape, LookInv, LookNext
  PROVE  LookInv'
BY LookShapeStep, AskInv, MissInv, HitInv, OthersInv, LookTickInv DEF LookNext

LEMMA LookInvInit == LookInit => LookInv
<1> SUFFICES ASSUME LookInit PROVE LookInv
  OBVIOUS
<1>1. LookShape
  BY LookShapeInit
<1>2. tally = {} /\ \A x \in DOMAIN misses : misses[x] = 0
  BY DEF LookInit, NoMisses
<1>3. \A x \in DOMAIN misses : Late(x) = 0
  BY <1>1, <1>2, LookNumbers DEF Late
<1> QED
  BY <1>1, <1>2, <1>3, LookNumbers DEF LookInv, MissesStandStill, NoEntryInv

LEMMA MissesStep ==
  ASSUME LookShape, LookShape', LookInv, LookInv', LookNext, MissesAreBounded
  PROVE  MissesAreBounded'
<1>1. CASE \E k \in Lookups : Miss(k)
  <2>1. PICK k \in Lookups : Miss(k)
    BY <1>1
  <2>2. /\ DOMAIN misses' = DOMAIN misses
        /\ \A x \in DOMAIN misses :
             misses'[x] = IF lookClock <= x THEN misses[x] + 1 ELSE misses[x]
        /\ lookClock' = lookClock
    BY <2>1, MissHistory DEF Miss
  <2>3. Cardinality(Lookups) >= 1 /\ Cardinality(Lookups) \in Nat
    <3>1. k \in Asking /\ Answered(k)
      BY <2>1 DEF Miss, Asking
    <3> QED
      BY <3>1, VerdictLeaves, AskingIsFinite
  <2> SUFFICES ASSUME NEW t \in DOMAIN misses, NEW u \in DOMAIN misses,
                      u <= t + LookupWindow
               PROVE  misses'[u] - misses'[t]
                        <= 2 * (MaxFailedLookups + Cardinality(Lookups) - 2)
    BY <2>2 DEF MissesAreBounded
  <2>4. misses[u] - misses[t] <= 2 * (MaxFailedLookups + Cardinality(Lookups) - 2)
    BY DEF MissesAreBounded
  <2>5. CASE ~(lookClock <= u /\ ~(lookClock <= t))
    <3>1. misses'[u] - misses'[t] <= misses[u] - misses[t]
      BY <2>2, <2>5, LookNumbers
    <3>2. misses'[u] \in Nat /\ misses'[t] \in Nat
      BY <2>2, LookNumbers
    <3> QED
      BY <2>4, <3>1, <3>2, LookNumbers
  <2>6. CASE lookClock <= u /\ ~(lookClock <= t)
    <3>1. PICK e \in tally' : EntryInv(e)'
      <4>1. tally' # {}
        BY <2>1, NewTallyIsOne DEF Miss
      <4> QED
        BY <4>1 DEF LookInv
    <3>2. /\ e.firstAttempt \in Nat /\ e.firstAttempt >= 1
          /\ e.firstAttempt - 1 \in DOMAIN misses
      <4>1. e.firstAttempt \in 1..LastLookupTime
        BY DEF LookShape, LookTimes
      <4> QED
        BY <4>1, LookupAssumption DEF LookShape, LookupAssumption
    <3>3. e.firstAttempt <= lookClock /\ misses'[u] = misses'[lookClock]
      BY <2>2, <2>6, <3>1 DEF EntryInv, LookInv, MissesStandStill
    <3>4. /\ misses'[u] \in Nat /\ misses'[t] \in Nat
          /\ misses'[e.firstAttempt - 1] \in Nat
      BY <2>2, <3>2, LookNumbers
    <3>5. Cardinality(Asking)' \in Nat
      <4>1. Asking' \subseteq Lookups
        BY DEF Asking
      <4> QED
        BY <4>1, LookupAssumption, FS_Subset, FS_CardinalityType DEF LookupAssumption
    <3>6. lookClock <= t + LookupWindow /\ MaxFailedLookups >= 2 /\ MaxFailedLookups \in Nat
          /\ t \in Nat /\ LookupWindow \in Nat
      BY <2>6, LookNumbers
    <3>7. ASSUME NEW x \in DOMAIN misses, lookClock <= x + LookupWindow,
                 e.firstAttempt <= x + 1
          PROVE  misses'[u] - misses'[x] <= MaxFailedLookups - 1 + Cardinality(Lookups)
      <4>1. Late(x)' + Cardinality(Asking)' <= MaxFailedLookups - 1 + Cardinality(Lookups)
        BY <2>2, <3>1, <3>7 DEF EntryInv
      <4>2. Late(x)' = misses'[u] - misses'[x]
        BY <2>2, <3>3 DEF Late
      <4>3. misses'[x] \in Nat
        BY <2>2, LookNumbers
      <4> QED
        BY <2>3, <3>4, <3>5, <3>6, <4>1, <4>2, <4>3
    <3>8. CASE e.firstAttempt <= t + 1
      <4>1. misses'[u] - misses'[t] <= MaxFailedLookups - 1 + Cardinality(Lookups)
        BY <3>6, <3>7, <3>8
      <4> QED
        BY <2>3, <3>4, <3>6, <4>1
    <3>9. CASE ~(e.firstAttempt <= t + 1)
      <4>1. /\ lookClock <= (e.firstAttempt - 1) + LookupWindow
            /\ e.firstAttempt <= (e.firstAttempt - 1) + 1
            /\ t < e.firstAttempt /\ e.firstAttempt <= t + LookupWindow
        BY <3>2, <3>3, <3>6, <3>9, LookNumbers
      <4>2. misses'[u] - misses'[e.firstAttempt - 1]
              <= MaxFailedLookups - 1 + Cardinality(Lookups)
        BY <3>2, <3>7, <4>1
      <4>3. misses'[e.firstAttempt - 1] - misses'[t]
              <= MaxFailedLookups + Cardinality(Lookups) - 3
        BY <2>2, <3>1, <4>1 DEF EntryInv
      <4> QED
        BY <2>3, <3>4, <3>6, <4>2, <4>3
    <3> QED
      BY <3>8, <3>9
  <2> QED
    BY <2>5, <2>6
<1>2. CASE \E k \in Lookups, party \in Parties : Hit(k, party)
  <2>1. misses' = NoMisses
    BY <1>2 DEF Hit
  <2>2. \A t, u \in DOMAIN misses' : misses'[u] - misses'[t] = 0
    BY <2>1 DEF NoMisses
  <2>3. 0 <= 2 * (MaxFailedLookups + Cardinality(Lookups) - 2)
    BY LookNumbers
  <2> QED
    BY <2>2, <2>3 DEF MissesAreBounded
<1>3. CASE misses' = misses
  BY <1>3 DEF MissesAreBounded
<1> QED
  BY <1>1, <1>2, <1>3 DEF LookNext, Ask, CountView, Neutral, LookTick

(* The views counted, with those whose $inc is still in flight: each after *)
(* the first came when the mark of the one before it had run out.          *)
Views == viewCount + Cardinality(Viewing)
ViewsInv ==
  /\ viewedUntil <= lookClock + ViewWindow
  /\ Views = 0 \/ Views * ViewWindow + 1 <= viewedUntil

LEMMA ViewingIsFinite ==
  IsFiniteSet(Viewing) /\ Cardinality(Viewing) \in Nat
BY LookupAssumption, FS_Subset, FS_CardinalityType DEF LookupAssumption, Viewing

LEMMA FewerTimes ==
  ASSUME NEW a \in Nat, NEW b \in Nat, NEW c \in Nat, a <= b
  PROVE  a * c <= b * c /\ a * c \in Nat /\ b * c \in Nat
OBVIOUS

LEMMA ViewsNoMore ==
  ASSUME LookShape, LookShape', ViewsInv, Views' \in Nat, Views' <= Views,
         viewedUntil' = viewedUntil, lookClock <= lookClock'
  PROVE  ViewsInv'
<1>1. /\ Views \in Nat /\ ViewWindow \in Nat /\ viewedUntil \in Nat
      /\ lookClock \in Nat /\ lookClock' \in Nat
  BY ViewingIsFinite, LookupAssumption DEF LookupAssumption, LookShape, LookTimes, Views
<1>2. Views' * ViewWindow <= Views * ViewWindow
      /\ Views' * ViewWindow \in Nat /\ Views * ViewWindow \in Nat
  BY <1>1, FewerTimes, Zenon
<1>3. /\ viewedUntil <= lookClock + ViewWindow
      /\ Views = 0 \/ Views * ViewWindow + 1 <= viewedUntil
  BY DEF ViewsInv
<1>4. viewedUntil' <= lookClock' + ViewWindow
  <2>1. PICK m \in Nat, c \in Nat, c1 \in Nat, w \in Nat :
          /\ m = viewedUntil /\ c = lookClock /\ c1 = lookClock' /\ w = ViewWindow
    BY <1>1, Zenon
  <2>2. m <= c + w /\ c <= c1
    BY <1>3, <2>1
  <2>3. m <= c1 + w
    BY <2>2
  <2> QED
    BY <2>1, <2>3
<1>5. CASE Views' = 0
  BY <1>4, <1>5 DEF ViewsInv
<1>6. CASE Views' # 0
  <2>1. Views # 0
    BY <1>1, <1>6
  <2>2. PICK p \in Nat, p1 \in Nat :
          p = Views * ViewWindow /\ p1 = Views' * ViewWindow
    BY <1>2
  <2>3. p1 <= p /\ p + 1 <= viewedUntil
    BY <1>2, <1>3, <2>1, <2>2
  <2>4. p1 + 1 <= viewedUntil'
    BY <1>1, <2>3
  <2> QED
    BY <1>4, <2>2, <2>4 DEF ViewsInv
<1> QED
  BY <1>5, <1>6

LEMMA ViewsStep ==
  ASSUME LookShape, LookShape', ViewsInv, LookNext
  PROVE  ViewsInv'
<1>1. /\ Views \in Nat /\ ViewWindow \in Nat /\ ViewWindow >= 1 /\ viewedUntil \in Nat
      /\ viewCount \in Nat /\ lookClock \in Nat /\ lookClock >= 1
      /\ Cardinality(Viewing) \in Nat /\ IsFiniteSet(Viewing)
  BY ViewingIsFinite, LookupAssumption DEF LookupAssumption, LookShape, LookTimes, Views
<1>2. CASE LookTick
  <2>1. Views' = Views /\ viewedUntil' = viewedUntil /\ lookClock' = lookClock + 1
    BY <1>2 DEF LookTick, Views, Viewing
  <2> QED
    BY <1>1, <2>1, ViewsNoMore
<1>3. ASSUME NEW k \in Lookups,
             (\E route \in {"metadata", "text"} : Ask(k, route)) \/ Miss(k) \/ Neutral(k)
      PROVE  ViewsInv'
  <2>1. Viewing' = Viewing
    BY <1>3 DEF Ask, Miss, Neutral, Answered, Viewing, LookShape
  <2>2. UNCHANGED <<viewCount, viewedUntil, lookClock>>
    BY <1>3 DEF Ask, Miss, Neutral
  <2>3. Views' = Views
    BY <2>1, <2>2 DEF Views
  <2> QED
    BY <1>1, <2>2, <2>3, ViewsNoMore
<1>4. ASSUME NEW k \in Lookups, CountView(k)
      PROVE  ViewsInv'
  <2>1. /\ k \in Viewing /\ Viewing' = Viewing \ {k}
        /\ UNCHANGED <<viewedUntil, lookClock>>
        /\ viewCount' \in {viewCount, viewCount + 1}
    BY <1>4 DEF CountView, Answered, Viewing, LookShape
  <2>2. Cardinality(Viewing \ {k}) = Cardinality(Viewing) - 1
    BY <1>1, <2>1, FS_RemoveElement
  <2>3. Cardinality(Viewing)' = Cardinality(Viewing) - 1 /\ Cardinality(Viewing)' \in Nat
    BY <2>1, <2>2, <1>1, FS_RemoveElement, FS_CardinalityType
  <2>4. Views' \in Nat /\ Views' <= Views
    BY <1>1, <2>1, <2>3 DEF Views
  <2> QED
    BY <1>1, <2>1, <2>4, ViewsNoMore
<1>5. ASSUME NEW k \in Lookups, NEW party \in Parties, Hit(k, party)
      PROVE  ViewsInv'
  <2>1. /\ asking[k] = "metadata" /\ k \notin Viewing
        /\ UNCHANGED <<viewCount, lookClock>>
    BY <1>5 DEF Hit, IsHit, Viewing
  <2>2. CASE party = "sender" \/ SeenLately
    <3>1. Viewing' = Viewing /\ viewedUntil' = viewedUntil
      BY <1>5, <2>1, <2>2 DEF Hit, Answered, Viewing, LookShape
    <3>2. Views' = Views
      BY <2>1, <3>1 DEF Views
    <3> QED
      BY <1>1, <2>1, <3>1, <3>2, ViewsNoMore
  <2>3. CASE ~(party = "sender" \/ SeenLately)
    <3>1. /\ viewedUntil' = lookClock + ViewWindow /\ viewedUntil <= lookClock
          /\ asking' = [asking EXCEPT ![k] = "viewed"]
      BY <1>1, <1>5, <2>3 DEF Hit, SeenLately
    <3>2. Viewing' = Viewing \cup {k}
      BY <3>1 DEF Viewing, LookShape
    <3>3. Cardinality(Viewing \cup {k}) = Cardinality(Viewing) + 1
      BY <1>1, <2>1, FS_AddElement
    <3>4. Views' = Views + 1
      BY <1>1, <2>1, <3>2, <3>3 DEF Views
    <3>5. (Views + 1) * ViewWindow = Views * ViewWindow + ViewWindow
      BY <1>1, OneMoreTimes, Zenon
    <3>6. Views = 0 => Views * ViewWindow = 0
      BY <1>1
    <3>7. Views * ViewWindow \in Nat
      BY <1>1
    <3>8. Views * ViewWindow + 1 <= lookClock
      BY <1>1, <3>1, <3>6, <3>7 DEF ViewsInv
    <3>9. Views' * ViewWindow + 1 <= viewedUntil'
      BY <1>1, <3>1, <3>4, <3>5, <3>7, <3>8
    <3>10. viewedUntil' <= lookClock' + ViewWindow
      BY <1>1, <2>1, <3>1
    <3> QED
      BY <3>9, <3>10 DEF ViewsInv
  <2> QED
    BY <2>2, <2>3
<1> QED
  BY <1>2, <1>3, <1>4, <1>5 DEF LookNext

(* What division gives: the greatest factor.                               *)
LEMMA DivIsGreatest ==
  ASSUME NEW a \in Nat, NEW b \in Nat \ {0}, NEW c \in Nat, c * b <= a
  PROVE  c <= a \div b
<1>1. a \div b \in Nat /\ a < ((a \div b) + 1) * b
  OBVIOUS
<1>2. CASE c <= a \div b
  BY <1>2
<1>3. CASE ~(c <= a \div b)
  <2>1. (a \div b) + 1 <= c /\ (a \div b) + 1 \in Nat
    BY <1>1, <1>3
  <2>2. ((a \div b) + 1) * b <= c * b /\ ((a \div b) + 1) * b \in Nat /\ c * b \in Nat
    BY <2>1, FewerTimes
  <2> QED
    BY <1>1, <2>2
<1> QED
  BY <1>2, <1>3

LEMMA ViewsAreFew ==
  ASSUME LookShape, ViewsInv
  PROVE  ViewsAreDeduplicated
<1>1. /\ viewCount \in Nat /\ Cardinality(Viewing) \in Nat /\ ViewWindow \in Nat \ {0}
      /\ lookClock - 1 \in Nat /\ viewedUntil \in Nat
  BY ViewingIsFinite, LookupAssumption DEF LookupAssumption, LookShape, LookTimes
<1>2. (lookClock - 1) \div ViewWindow \in Nat
  BY <1>1
<1>3. CASE Views = 0
  BY <1>1, <1>2, <1>3 DEF Views, ViewsAreDeduplicated
<1>4. CASE Views # 0
  <2>1. Views \in Nat /\ Views - 1 \in Nat
    BY <1>1, <1>4 DEF Views
  <2>2. Views * ViewWindow = (Views - 1) * ViewWindow + ViewWindow
    <3>1. ((Views - 1) + 1) * ViewWindow = (Views - 1) * ViewWindow + ViewWindow
      BY <1>1, <2>1, OneMoreTimes
    <3>2. (Views - 1) + 1 = Views
      BY <2>1
    <3> QED
      BY <3>1, <3>2
  <2>3. (Views - 1) * ViewWindow \in Nat
    <3>1. Views - 1 <= Views - 1 /\ ViewWindow \in Nat
      BY <1>1, <2>1
    <3> QED
      BY <2>1, <3>1, FewerTimes, Zenon
  <2>4. (Views - 1) * ViewWindow <= lookClock - 1
    <3>1. /\ viewedUntil <= lookClock + ViewWindow
          /\ Views * ViewWindow + 1 <= viewedUntil
      BY <1>4 DEF ViewsInv
    <3>2. PICK p \in Nat : p = (Views - 1) * ViewWindow
      BY <2>3
    <3>3. Views * ViewWindow = p + ViewWindow
      BY <2>2, <3>2, Zenon
    <3>4. PICK w \in Nat, c \in Nat, u \in Nat :
            w = ViewWindow /\ c = lookClock - 1 /\ u = viewedUntil
      BY <1>1
    <3>5. p + w + 1 <= u
      BY <3>1, <3>3, <3>4
    <3>6. lookClock = c + 1
      BY <1>1, <3>4 DEF LookShape, LookTimes
    <3>7. u <= (c + 1) + w
      BY <3>1, <3>4, <3>6
    <3>8. p <= c
      BY <3>5, <3>7
    <3> QED
      BY <3>2, <3>4, <3>8
  <2>5. Views - 1 <= (lookClock - 1) \div ViewWindow
    BY <1>1, <2>1, <2>4, DivIsGreatest
  <2> QED
    BY <1>1, <1>2, <2>1, <2>5 DEF Views, ViewsAreDeduplicated
<1> QED
  BY <1>3, <1>4

LEMMA LookBoundsInit == LookInit => MissesAreBounded /\ ViewsInv
<1> SUFFICES ASSUME LookInit PROVE MissesAreBounded /\ ViewsInv
  OBVIOUS
<1>1. LookShape
  BY LookShapeInit
<1>2. \A t, u \in DOMAIN misses : misses[u] - misses[t] = 0
  BY DEF LookInit, NoMisses
<1>3. 0 <= 2 * (MaxFailedLookups + Cardinality(Lookups) - 2)
  BY <1>1, LookNumbers
<1>4. Viewing = {} /\ viewCount = 0 /\ viewedUntil = 0 /\ lookClock = 1
  BY DEF LookInit, Viewing
<1>5. Cardinality(Viewing) = 0
  BY <1>4, FS_EmptySet
<1> QED
  BY <1>2, <1>3, <1>4, <1>5, LookupAssumption
     DEF MissesAreBounded, ViewsInv, Views, LookupAssumption

LookStrong == LookShape /\ LookInv /\ MissesAreBounded /\ ViewsInv

LEMMA LookStrongStep ==
  ASSUME LookStrong, LookNext
  PROVE  LookStrong'
BY LookShapeStep, LookInvStep, MissesStep, ViewsStep DEF LookStrong

LEMMA LookStrongSame ==
  ASSUME LookStrong, UNCHANGED lookVars
  PROVE  LookStrong'
BY DEF LookStrong, LookShape, LookInv, MissesStandStill, NoEntryInv, EntryInv, Late,
       Asking, Viewing, MissesAreBounded, ViewsInv, Views, lookVars

(* However the requests of an address overlap and whatever they find, the  *)
(* failed lookups of a window's length and the counted views are bounded.  *)
THEOREM LookupsBounded == LookSpec => []LookupsAreBounded
<1>1. LookInit => LookStrong
  BY LookShapeInit, LookInvInit, LookBoundsInit DEF LookStrong
<1>2. LookStrong /\ [LookNext]_lookVars => LookStrong'
  BY LookStrongStep, LookStrongSame
<1>3. LookStrong => LookupsAreBounded
  BY ViewsAreFew DEF LookStrong, LookupsAreBounded
<1> QED
  BY <1>1, <1>2, <1>3, PTL DEF LookSpec

--------------------------------------------------------------------------------
(* The password counter.                                                   *)

LEMMA PasswordTypeStep ==
  ASSUME PasswordTypeOK, PasswordNext
  PROVE  PasswordTypeOK'
<1> USE PasswordAssumption DEF PasswordAssumption, PasswordTypeOK
<1>1. PICK g \in Guessers : Guess(g) \/ Wrong(g) \/ Right(g) \/ WriteFails(g)
  BY DEF PasswordNext
<1>2. CASE Guess(g)
  <2>1. attempts \in 0..(MaxAttempts - 1)
    BY <1>2 DEF Guess, MayGuess
  <2>2. Cardinality({attempts}) <= 1
    <3>1. Cardinality({attempts}) = 1
      BY FS_Singleton
    <3> QED
      BY <3>1
  <2>3. \A h \in Guessers : copyOf'[h] \in {copyOf[h], {attempts}}
    BY <1>2 DEF Guess
  <2>4. \A h \in Guessers : Cardinality(copyOf'[h]) <= 1
    BY <2>2, <2>3
  <2>5. copyOf' \in [Guessers -> SUBSET (0..(MaxAttempts - 1))]
    BY <1>2, <2>1 DEF Guess
  <2> QED
    BY <1>2, <2>4, <2>5 DEF Guess
<1>3. CASE Wrong(g) \/ Right(g) \/ WriteFails(g)
  <2>1. copyOf' = [copyOf EXCEPT ![g] = {}]
    BY <1>3 DEF Wrong, Right, WriteFails, Compared
  <2>2. Cardinality({}) <= 1
    BY FS_EmptySet
  <2>3. \A h \in Guessers : copyOf'[h] \in {copyOf[h], {}}
    BY <2>1
  <2>4. \A h \in Guessers : Cardinality(copyOf'[h]) <= 1
    BY <2>2, <2>3
  <2>5. copyOf' \in [Guessers -> SUBSET (0..(MaxAttempts - 1))]
    BY <2>1
  <2>6. attempts' \in Nat /\ wrongSince' \in Nat /\ resets' \in Nat
    BY <1>3 DEF Wrong, Right, WriteFails, Incremented
  <2> QED
    BY <2>4, <2>5, <2>6
<1> QED
  BY <1>1, <1>2, <1>3

LEMMA PasswordTypeInit == PasswordInit => PasswordTypeOK
<1> SUFFICES ASSUME PasswordInit PROVE PasswordTypeOK
  OBVIOUS
<1>1. \A g \in Guessers : copyOf[g] = {}
  BY DEF PasswordInit
<1>2. Cardinality({}) <= 1
  BY FS_EmptySet
<1>3. \A g \in Guessers : Cardinality(copyOf[g]) <= 1
  BY <1>1, <1>2
<1> QED
  BY <1>3 DEF PasswordInit, PasswordTypeOK

(* Every variable keeps its shape, whoever guesses.                        *)
THEOREM PasswordTypeCorrect == PasswordSpec => []PasswordTypeOK
<1>1. PasswordTypeOK /\ UNCHANGED passwordVars => PasswordTypeOK'
  BY DEF PasswordTypeOK, passwordVars
<1> QED
  BY <1>1, PasswordTypeInit, PasswordTypeStep, PTL DEF PasswordSpec

LEMMA InFlightIsFinite ==
  /\ IsFiniteSet(InFlight) /\ Cardinality(InFlight) \in Nat
  /\ Cardinality(Guessers) \in Nat
  /\ Cardinality(InFlight) <= Cardinality(Guessers)
BY PasswordAssumption, FS_Subset, FS_CardinalityType
   DEF PasswordAssumption, InFlight

(* A guess that ends leaves the set of those in flight.                    *)
LEMMA EndedLeaves ==
  ASSUME PasswordTypeOK, NEW g \in Guessers, copyOf[g] # {}, Compared(g)
  PROVE  Cardinality(InFlight') = Cardinality(InFlight) - 1
<1>1. InFlight' = InFlight \ {g} /\ g \in InFlight
  BY DEF InFlight, Compared, PasswordTypeOK
<1> QED
  BY <1>1, InFlightIsFinite, FS_RemoveElement

LEMMA GuessBoundStep ==
  ASSUME PasswordTypeOK, PasswordTypeOK', GuessesAreBounded, PasswordNext
  PROVE  GuessesAreBounded'
<1> USE PasswordAssumption DEF PasswordAssumption
<1>1. PICK g \in Guessers : Guess(g) \/ Wrong(g) \/ Right(g) \/ WriteFails(g)
  BY DEF PasswordNext
<1>2. /\ Cardinality(InFlight) \in Nat /\ Cardinality(Guessers) \in Nat
      /\ attempts \in Nat
  BY InFlightIsFinite DEF PasswordTypeOK
<1>3. CASE Guess(g)
  <2>1. /\ Cardinality(InFlight') \in Nat
        /\ Cardinality(InFlight') <= Cardinality(Guessers)
    <3>1. InFlight' \subseteq Guessers
      BY DEF InFlight
    <3> QED
      BY <3>1, FS_Subset, FS_CardinalityType
  <2>2. attempts' <= MaxAttempts - 1 /\ attempts' = wrongSince'
    BY <1>2, <1>3 DEF Guess, MayGuess, GuessesAreBounded
  <2>3. attempts' \in Nat
    BY DEF PasswordTypeOK
  <2> QED
    BY <1>2, <2>1, <2>2, <2>3 DEF GuessesAreBounded
<1>4. CASE Wrong(g) \/ Right(g) \/ WriteFails(g)
  <2>1. Cardinality(InFlight') = Cardinality(InFlight) - 1
    BY <1>4, EndedLeaves DEF Wrong, Right, WriteFails
  <2>2. attempts' \in {attempts + 1, attempts, 0} /\ attempts' = wrongSince'
    BY <1>4 DEF Wrong, Right, WriteFails, Incremented, GuessesAreBounded
  <2>3. Cardinality(InFlight) <= Cardinality(Guessers)
    BY InFlightIsFinite
  <2>4. attempts' + Cardinality(InFlight')
          <= MaxAttempts - 1 + Cardinality(Guessers)
    BY <1>2, <2>1, <2>2, <2>3 DEF GuessesAreBounded
  <2> QED
    BY <2>2, <2>4 DEF GuessesAreBounded
<1> QED
  BY <1>1, <1>3, <1>4

(* No wrong answer is lost, and only guesses in flight exceed the limit.   *)
THEOREM GuessesBounded == PasswordSpec => []GuessesAreBounded
<1>1. PasswordInit => GuessesAreBounded
  <2> SUFFICES ASSUME PasswordInit PROVE GuessesAreBounded
    OBVIOUS
  <2>1. attempts = 0 /\ wrongSince = 0
    BY DEF PasswordInit
  <2> QED
    BY <2>1, InFlightIsFinite, PasswordAssumption
       DEF GuessesAreBounded, PasswordAssumption
<1>2. GuessesAreBounded /\ UNCHANGED passwordVars => GuessesAreBounded'
  BY DEF GuessesAreBounded, InFlight, passwordVars
<1> QED
  BY <1>1, <1>2, GuessBoundStep, PasswordTypeCorrect, PTL DEF PasswordSpec

--------------------------------------------------------------------------------
(* The login lockout.                                                      *)

RecordSet == [failures : 0..(MaxShort - 1), failures24h : Nat,
              firstAttempt : 1..LastLoginTime, lockedUntil : Nat]

LockoutShape ==
  /\ loginClock \in 1..LastLoginTime
  /\ AtMostOne(record)
  /\ record \subseteq RecordSet
  /\ trying \in SUBSET Attempts

(* What one failure makes of an entry: it counts for the day, and from the *)
(* day's limit on it starts the long lockout.                              *)
LEMMA AfterFailureFields ==
  ASSUME LockoutShape, NEW e \in RecordSet
  PROVE  /\ AfterFailure(e) \in RecordSet
         /\ AfterFailure(e).failures24h = e.failures24h + 1
         /\ AfterFailure(e).firstAttempt = e.firstAttempt
         /\ e.failures24h + 1 >= MaxDay =>
              AfterFailure(e).lockedUntil = loginClock + LongLock
<1> USE LockoutAssumption DEF LockoutAssumption
<1>1. /\ e.failures \in 0..(MaxShort - 1) /\ e.failures24h \in Nat
      /\ e.firstAttempt \in 1..LastLoginTime /\ e.lockedUntil \in Nat
      /\ loginClock \in Nat
  BY DEF RecordSet, LockoutShape
<1>2. PICK c : c = [e EXCEPT !.failures = @ + 1, !.failures24h = @ + 1]
  OBVIOUS
<1>3. /\ c.failures = e.failures + 1 /\ c.failures24h = e.failures24h + 1
      /\ c.firstAttempt = e.firstAttempt /\ c.lockedUntil = e.lockedUntil
      /\ c = [failures |-> e.failures + 1, failures24h |-> e.failures24h + 1,
              firstAttempt |-> e.firstAttempt, lockedUntil |-> e.lockedUntil]
  BY <1>2 DEF RecordSet
<1>4. CASE c.failures24h >= MaxDay
  <2>1. AfterFailure(e) = [c EXCEPT !.failures = 0, !.lockedUntil = loginClock + LongLock]
    BY <1>2, <1>4, <1>3, <1>1 DEF AfterFailure
  <2>2. AfterFailure(e) = [failures |-> 0, failures24h |-> e.failures24h + 1,
          firstAttempt |-> e.firstAttempt, lockedUntil |-> loginClock + LongLock]
    BY <2>1, <1>3
  <2> QED
    BY <1>1, <2>2 DEF RecordSet
<1>5. CASE c.failures24h < MaxDay /\ c.failures >= MaxShort
  <2>1. AfterFailure(e) = [c EXCEPT !.failures = 0, !.lockedUntil = loginClock + ShortLock]
    BY <1>2, <1>5, <1>3, <1>1 DEF AfterFailure
  <2>2. AfterFailure(e) = [failures |-> 0, failures24h |-> e.failures24h + 1,
          firstAttempt |-> e.firstAttempt, lockedUntil |-> loginClock + ShortLock]
    BY <2>1, <1>3
  <2> QED
    BY <1>1, <1>3, <1>5, <2>2 DEF RecordSet
<1>6. CASE c.failures24h < MaxDay /\ c.failures < MaxShort
  <2>1. AfterFailure(e) = c
    BY <1>2, <1>6, <1>3, <1>1 DEF AfterFailure
  <2> QED
    BY <1>1, <1>3, <1>6, <2>1 DEF RecordSet
<1> QED
  BY <1>1, <1>3, <1>4, <1>5, <1>6

(* The entry a failure leaves.                                             *)
LEMMA FailedRecord ==
  ASSUME LockoutShape, NEW a \in Attempts, FailLogin(a)
  PROVE  \E e \in RecordSet :
           /\ record' = {AfterFailure(e)}
           /\ e \in record \/ e = NewRecord
<1>1. NewRecord \in RecordSet
  BY LockoutAssumption DEF LockoutAssumption, NewRecord, RecordSet, LockoutShape
<1>2. CASE record = {}
  BY <1>1, <1>2 DEF FailLogin
<1>3. CASE record # {}
  <2>1. PICK e : record = {e}
    BY <1>3 DEF LockoutShape, AtMostOne
  <2> QED
    BY <1>3, <2>1 DEF FailLogin, LockoutShape
<1> QED
  BY <1>2, <1>3

LEMMA LockoutShapeStep ==
  ASSUME LockoutShape, LockoutNext
  PROVE  LockoutShape'
<1>1. CASE LoginTick
  BY <1>1, LockoutAssumption DEF LockoutAssumption, LoginTick, LockoutShape
<1>2. ASSUME NEW a \in Attempts, TryLogin(a) \/ SucceedLogin(a)
      PROVE  LockoutShape'
  BY <1>2 DEF TryLogin, SucceedLogin, LockoutShape, AtMostOne
<1>3. ASSUME NEW a \in Attempts, FailLogin(a)
      PROVE  LockoutShape'
  <2>1. PICK e \in RecordSet : record' = {AfterFailure(e)}
    BY <1>3, FailedRecord
  <2>2. AfterFailure(e) \in RecordSet
    BY AfterFailureFields
  <2> QED
    BY <1>3, <2>1, <2>2 DEF FailLogin, LockoutShape, AtMostOne
<1> QED
  BY <1>1, <1>2, <1>3 DEF LockoutNext

LEMMA LockoutShapeInit == LockoutInit => LockoutShape
BY LockoutAssumption DEF LockoutAssumption, LockoutInit, LockoutShape, AtMostOne

LEMMA LockoutShapeIsType == LockoutShape => LockoutTypeOK
BY AtMostOneCounts DEF LockoutShape, LockoutTypeOK, RecordSet

(* Past the day's limit there is a number k of lockouts behind the entry:  *)
(* each lasted its hour, the last but one ended within the day, and n      *)
(* requests failed for each, at most; those in flight count already while  *)
(* the last one lasts, and after it until the next failure they do not.    *)
Budget(k) == MaxDay - 1 + Cardinality(Attempts) * k
Lockouts(e, k) ==
  /\ (k - 1) * LongLock <= Day
  /\ e.firstAttempt + k * LongLock <= e.lockedUntil
  /\ \/ e.failures24h + Cardinality(trying) <= Budget(k)
     \/ /\ e.failures24h <= Budget(k)
        /\ e.firstAttempt + k * LongLock <= loginClock
        /\ k * LongLock <= Day

LockoutInv ==
  \A e \in record :
    /\ e.firstAttempt <= loginClock
    /\ e.failures24h >= MaxDay =>
         /\ e.lockedUntil <= loginClock + LongLock
         /\ \E k \in Nat \ {0} : Lockouts(e, k)

LEMMA TryingIsFinite ==
  ASSUME LockoutShape
  PROVE  /\ IsFiniteSet(trying) /\ Cardinality(trying) \in Nat
         /\ Cardinality(Attempts) \in Nat
         /\ Cardinality(trying) <= Cardinality(Attempts)
BY LockoutAssumption, FS_Subset, FS_CardinalityType DEF LockoutAssumption, LockoutShape

LEMMA LockoutNumbers ==
  ASSUME LockoutShape
  PROVE  /\ loginClock \in Nat /\ LongLock \in Nat /\ Day \in Nat
         /\ MaxDay \in Nat /\ MaxDay >= 1
         /\ Cardinality(trying) \in Nat /\ Cardinality(Attempts) \in Nat
         /\ Cardinality(trying) <= Cardinality(Attempts)
         /\ \A e \in RecordSet : /\ e.failures24h \in Nat /\ e.lockedUntil \in Nat
                                 /\ e.firstAttempt \in Nat
<1>1. /\ loginClock \in Nat /\ LongLock \in Nat /\ Day \in Nat
      /\ MaxDay \in Nat /\ MaxDay >= 1
  BY LockoutAssumption DEF LockoutAssumption, LockoutShape
<1>2. /\ Cardinality(trying) \in Nat /\ Cardinality(Attempts) \in Nat
      /\ Cardinality(trying) <= Cardinality(Attempts)
  BY TryingIsFinite
<1>3. \A e \in RecordSet : /\ e.failures24h \in Nat /\ e.lockedUntil \in Nat
                          /\ e.firstAttempt \in Nat
  BY DEF RecordSet
<1> QED
  BY <1>1, <1>2, <1>3

LEMMA LockoutProducts ==
  ASSUME LockoutShape
  PROVE  /\ \A k \in Nat : Budget(k) \in Nat /\ k * LongLock \in Nat
         /\ \A k \in Nat : Budget(k + 1) = Budget(k) + Cardinality(Attempts)
         /\ \A k \in Nat : (k + 1) * LongLock = k * LongLock + LongLock
<1>1. /\ LongLock \in Nat /\ MaxDay \in Nat /\ MaxDay >= 1
  BY LockoutNumbers
<1>2. Cardinality(Attempts) \in Nat
  BY LockoutNumbers
<1>4. ASSUME NEW k \in Nat, NEW n \in Nat PROVE n * k \in Nat /\ n * (k + 1) = n * k + n
  OBVIOUS
<1>5. ASSUME NEW k \in Nat
      PROVE  /\ Budget(k) \in Nat /\ Budget(k + 1) = Budget(k) + Cardinality(Attempts)
             /\ k * LongLock \in Nat
  <2>1. PICK n \in Nat : n = Cardinality(Attempts)
    BY <1>2
  <2>2. n * k \in Nat /\ n * (k + 1) = n * k + n
    BY <1>4
  <2>3. PICK p \in Nat : p = n * k
    BY <2>2
  <2>4. Budget(k) = MaxDay - 1 + p /\ Budget(k + 1) = MaxDay - 1 + (p + n)
    BY <2>1, <2>2, <2>3 DEF Budget
  <2>5. k * LongLock \in Nat
    BY <1>1
  <2> QED
    BY <1>1, <2>1, <2>4, <2>5
<1>6. \A k \in Nat : (k + 1) * LongLock = k * LongLock + LongLock
  BY <1>1, OneMoreTimes, Zenon
<1> QED
  BY <1>5, <1>6

LEMMA TryInv ==
  ASSUME LockoutShape, LockoutShape', LockoutInv, NEW a \in Attempts, TryLogin(a)
  PROVE  LockoutInv'
<1> SUFFICES ASSUME NEW e \in record'
             PROVE  /\ e.firstAttempt <= loginClock
                    /\ e.failures24h >= MaxDay =>
                         /\ e.lockedUntil <= loginClock + LongLock
                         /\ \E k \in Nat \ {0} : Lockouts(e, k)'
  BY DEF LockoutInv, TryLogin
<1>1. /\ e \in record /\ loginClock <= e.firstAttempt + Day
      /\ loginClock' = loginClock /\ ~IsLocked
  BY DEF TryLogin
<1>2. e \in RecordSet /\ e.lockedUntil <= loginClock
  BY <1>1, LockoutNumbers DEF LockoutShape, IsLocked, RecordSet
<1>3. ASSUME e.failures24h >= MaxDay
      PROVE  \E k \in Nat \ {0} : Lockouts(e, k)'
  <2>1. PICK k \in Nat \ {0} : Lockouts(e, k)
    BY <1>1, <1>3 DEF LockoutInv
  <2>2. PICK p \in Nat, b \in Nat, f \in Nat, q \in Nat :
          /\ p = k * LongLock /\ b = Budget(k) /\ f = e.failures24h
          /\ q = Cardinality(trying)
    BY <1>2, LockoutNumbers, LockoutProducts
  <2>3. f + q <= b \/ f <= b
    BY <2>1, <2>2 DEF Lockouts
  <2>4. f <= b
    BY <2>3
  <2>5. e.firstAttempt + p <= e.lockedUntil
    BY <2>1, <2>2 DEF Lockouts
  <2>6. e.firstAttempt + p <= loginClock /\ p <= Day
    BY <1>1, <1>2, <2>5, LockoutNumbers
  <2>7. (k - 1) * LongLock <= Day
    BY <2>1 DEF Lockouts
  <2>8. Lockouts(e, k)'
    BY <1>1, <2>2, <2>4, <2>5, <2>6, <2>7 DEF Lockouts, Budget
  <2> QED
    BY <2>8
<1> QED
  BY <1>1, <1>3 DEF LockoutInv

LEMMA FailInv ==
  ASSUME LockoutShape, LockoutShape', LockoutInv, NEW a \in Attempts, FailLogin(a)
  PROVE  LockoutInv'
<1>1. PICK e \in RecordSet : record' = {AfterFailure(e)} /\ (e \in record \/ e = NewRecord)
  BY FailedRecord
<1>2. PICK d : /\ record' = {d} /\ d.failures24h = e.failures24h + 1
               /\ d.firstAttempt = e.firstAttempt
               /\ e.failures24h + 1 >= MaxDay => d.lockedUntil = loginClock + LongLock
  BY <1>1, AfterFailureFields
<1>3. /\ loginClock' = loginClock /\ trying' = trying \ {a} /\ a \in trying
  BY DEF FailLogin
<1>4. Cardinality(trying)' = Cardinality(trying) - 1 /\ Cardinality(trying) >= 1
  <2>1. Cardinality(trying \ {a}) = Cardinality(trying) - 1
    BY <1>3, TryingIsFinite, FS_RemoveElement
  <2>2. Cardinality(trying \ {a}) \in Nat
    BY <1>3, TryingIsFinite, FS_RemoveElement, FS_CardinalityType
  <2> QED
    BY <1>3, <2>1, <2>2, TryingIsFinite
<1>5. /\ e.firstAttempt <= loginClock
      /\ e = NewRecord => e.failures24h = 0
  BY <1>1, LockoutNumbers DEF NewRecord, LockoutInv
<1>6. PICK c \in Nat, l \in Nat, f \in Nat, s \in Nat, q \in Nat, n \in Nat :
        /\ c = loginClock /\ l = LongLock /\ f = e.failures24h /\ s = e.firstAttempt
        /\ q = Cardinality(trying) /\ n = Cardinality(Attempts) /\ q >= 1 /\ q <= n
  BY <1>1, <1>4, LockoutNumbers
<1>7. ASSUME f + 1 >= MaxDay
      PROVE  \E k \in Nat \ {0} :
               /\ (k - 1) * LongLock <= Day
               /\ s + k * LongLock <= c + l
               /\ f + q <= Budget(k)
  <2>1. CASE f < MaxDay
    <3>1. Budget(0) = MaxDay - 1 /\ 0 * LongLock = 0
      BY <1>6, LockoutNumbers, LockoutProducts DEF Budget
    <3>2. /\ Budget(0 + 1) = Budget(0) + Cardinality(Attempts)
          /\ (0 + 1) * LongLock = 0 * LongLock + LongLock
      BY LockoutProducts
    <3>3. Budget(1) = MaxDay - 1 + n /\ 1 * LongLock = l /\ (1 - 1) * LongLock = 0
      BY <1>6, <3>1, <3>2
    <3>4. s + l <= c + l /\ f + q <= MaxDay - 1 + n /\ 0 <= Day
      BY <1>5, <1>6, <2>1, LockoutNumbers
    <3> WITNESS 1 \in Nat \ {0}
    <3> QED
      BY <3>3, <3>4
  <2>2. CASE ~(f < MaxDay)
    <3>1. e \in record /\ e.failures24h >= MaxDay
      BY <1>1, <1>5, <1>6, <2>2, LockoutNumbers
    <3>2. PICK k \in Nat \ {0} : Lockouts(e, k)
      BY <3>1 DEF LockoutInv
    <3>3. PICK p \in Nat, b \in Nat : p = k * LongLock /\ b = Budget(k)
      BY LockoutProducts
    <3>4. e.lockedUntil <= c + l /\ e.lockedUntil \in Nat
      BY <1>1, <1>6, <3>1, LockoutNumbers DEF LockoutInv
    <3>5. /\ s + p <= e.lockedUntil
          /\ (k - 1) * LongLock <= Day
          /\ f + q <= b \/ (f <= b /\ s + p <= c /\ p <= Day)
      BY <1>6, <3>2, <3>3 DEF Lockouts
    <3>6. CASE f + q <= b
      <4>1. s + p <= c + l
        BY <3>4, <3>5
      <4> WITNESS k \in Nat \ {0}
      <4> QED
        BY <3>3, <3>5, <3>6, <4>1
    <3>7. CASE f <= b /\ s + p <= c /\ p <= Day
      <4>1. Budget(k + 1) = b + n /\ (k + 1) * LongLock = p + l
        BY <1>6, <3>3, LockoutProducts
      <4>2. s + (p + l) <= c + l /\ f + q <= b + n
        BY <1>6, <3>7
      <4>3. (k + 1) - 1 = k /\ k + 1 \in Nat \ {0}
        OBVIOUS
      <4>4. ((k + 1) - 1) * LongLock <= Day
        BY <3>3, <3>7, <4>3
      <4> WITNESS k + 1 \in Nat \ {0}
      <4> QED
        BY <4>1, <4>2, <4>4
    <3> QED
      BY <3>5, <3>6, <3>7
  <2> QED
    BY <2>1, <2>2
<1>8. ASSUME d.failures24h >= MaxDay
      PROVE  /\ d.lockedUntil <= loginClock + LongLock
             /\ \E k \in Nat \ {0} : Lockouts(d, k)'
  <2>1. f + 1 >= MaxDay /\ d.failures24h = f + 1 /\ d.lockedUntil = c + l
    BY <1>2, <1>6, <1>8
  <2>2. PICK k \in Nat \ {0} :
               /\ (k - 1) * LongLock <= Day
               /\ s + k * LongLock <= c + l
               /\ f + q <= Budget(k)
    BY <1>7, <2>1
  <2>3. d.failures24h + Cardinality(trying)' = f + q
    BY <1>4, <1>6, <2>1
  <2>4. Lockouts(d, k)'
    BY <1>2, <1>6, <2>1, <2>2, <2>3 DEF Lockouts, Budget
  <2>5. d.lockedUntil <= loginClock + LongLock
    BY <1>6, <2>1
  <2> QED
    BY <2>4, <2>5
<1>9. d.firstAttempt <= loginClock
  BY <1>2, <1>5
<1> QED
  BY <1>2, <1>3, <1>8, <1>9 DEF LockoutInv

LEMMA LockoutInvStep ==
  ASSUME LockoutShape, LockoutShape', LockoutInv, LockoutNext
  PROVE  LockoutInv'
<1>1. ASSUME NEW a \in Attempts, SucceedLogin(a)
      PROVE  LockoutInv'
  BY <1>1 DEF SucceedLogin, LockoutInv
<1>2. CASE LoginTick
  <2>1. loginClock' = loginClock + 1 /\ UNCHANGED <<record, trying>>
    BY <1>2 DEF LoginTick
  <2>2. ASSUME NEW e \in record
        PROVE  /\ e.firstAttempt <= loginClock'
               /\ e.failures24h >= MaxDay =>
                    /\ e.lockedUntil <= loginClock' + LongLock
                    /\ \E k \in Nat \ {0} : Lockouts(e, k)'
    <3>1. e \in RecordSet
      BY DEF LockoutShape
    <3>2. e.firstAttempt <= loginClock'
      BY <2>1, <3>1, LockoutNumbers DEF LockoutInv
    <3>3. ASSUME e.failures24h >= MaxDay
          PROVE  /\ e.lockedUntil <= loginClock' + LongLock
                 /\ \E k \in Nat \ {0} : Lockouts(e, k)'
      <4>1. e.lockedUntil <= loginClock + LongLock
        BY <3>3 DEF LockoutInv
      <4>2. PICK k \in Nat \ {0} : Lockouts(e, k)
        BY <3>3 DEF LockoutInv
      <4>3. PICK p \in Nat : p = k * LongLock
        BY LockoutProducts
      <4>4. e.firstAttempt + p <= loginClock => e.firstAttempt + p <= loginClock'
        BY <2>1, <3>1, LockoutNumbers
      <4>5. Lockouts(e, k)'
        BY <2>1, <4>2, <4>3, <4>4 DEF Lockouts, Budget
      <4>6. e.lockedUntil <= loginClock' + LongLock
        BY <2>1, <3>1, <4>1, LockoutNumbers
      <4> QED
        BY <4>5, <4>6
    <3> QED
      BY <3>2, <3>3
  <2> QED
    BY <2>1, <2>2 DEF LockoutInv
<1> QED
  BY <1>1, <1>2, TryInv, FailInv DEF LockoutNext

LEMMA LockoutIsBounded ==
  ASSUME LockoutShape, LockoutInv
  PROVE  FailuresPerDayAreBounded
<1> SUFFICES ASSUME NEW e \in record
             PROVE  e.failures24h <= MaxDay - 1
                      + Cardinality(Attempts) * (1 + (Day \div LongLock))
  BY DEF FailuresPerDayAreBounded
<1>1. PICK n \in Nat, f \in Nat, b \in Nat :
        n = Cardinality(Attempts) /\ f = e.failures24h /\ b = Day \div LongLock
  <2>1. Day \div LongLock \in Nat
    BY LockoutAssumption DEF LockoutAssumption
  <2> QED
    BY <2>1, LockoutNumbers DEF LockoutShape
<1>2. PICK m \in Nat : m = n * (1 + b)
  OBVIOUS
<1>3. CASE f < MaxDay
  <2>1. f <= MaxDay - 1 + m
    BY <1>3, LockoutNumbers
  <2> QED
    BY <1>1, <1>2, <2>1
<1>4. CASE ~(f < MaxDay)
  <2>1. PICK k \in Nat \ {0} : Lockouts(e, k)
    BY <1>1, <1>4, LockoutNumbers DEF LockoutInv
  <2>2. f <= Budget(k)
    <3>1. PICK q \in Nat, u \in Nat : q = Cardinality(trying) /\ u = Budget(k)
      BY LockoutNumbers, LockoutProducts
    <3>2. f + q <= u \/ f <= u
      BY <1>1, <2>1, <3>1 DEF Lockouts
    <3> QED
      BY <3>1, <3>2
  <2>3. k - 1 <= b
    <3>1. k - 1 \in Nat /\ (k - 1) * LongLock <= Day
      BY <2>1 DEF Lockouts
    <3> QED
      BY <1>1, <3>1, DivIsGreatest, LockoutAssumption DEF LockoutAssumption
  <2>4. k <= 1 + b /\ k \in Nat /\ 1 + b \in Nat
    BY <2>3
  <2>5. k * n <= (1 + b) * n /\ k * n \in Nat
    BY <2>4, FewerTimes, Zenon
  <2>6. k * n = n * k /\ (1 + b) * n = n * (1 + b)
    OBVIOUS
  <2>7. PICK r \in Nat : r = n * k /\ r <= m
    BY <1>2, <2>5, <2>6
  <2>8. f <= MaxDay - 1 + r
    BY <1>1, <2>2, <2>7 DEF Budget
  <2>9. f <= MaxDay - 1 + m
    BY <2>7, <2>8, LockoutNumbers
  <2> QED
    BY <1>1, <1>2, <2>9
<1> QED
  BY <1>3, <1>4

(* Whatever requests are in flight around a lockout, the wrong logins of   *)
(* an address under one entry stay within its daily allowance.             *)
THEOREM FailuresBounded == LockoutSpec => []FailuresPerDayAreBounded
<1>1. LockoutInit => LockoutShape /\ LockoutInv
  BY LockoutShapeInit DEF LockoutInit, LockoutInv
<1>2. LockoutShape /\ LockoutInv /\ LockoutNext => LockoutShape' /\ LockoutInv'
  BY LockoutShapeStep, LockoutInvStep
<1>3. LockoutShape /\ LockoutInv /\ UNCHANGED lockoutVars => LockoutShape' /\ LockoutInv'
  BY DEF LockoutShape, LockoutInv, Lockouts, Budget, lockoutVars
<1>4. LockoutShape /\ LockoutInv => FailuresPerDayAreBounded
  BY LockoutIsBounded
<1> QED
  BY <1>1, <1>2, <1>3, <1>4, PTL DEF LockoutSpec

--------------------------------------------------------------------------------
(* The composition.                                                        *)

LEMMA RateTypeCorrect == RateSpec => []RateTypeOK
<1>1. RateShape /\ UNCHANGED rateVars => RateShape'
  BY DEF RateShape, rateVars
<1> QED
  BY <1>1, RateShapeInit, RateShapeStep, RateShapeIsType, PTL DEF RateSpec

LEMMA LookTypeCorrect == LookSpec => []LookTypeOK
<1>1. LookShape /\ UNCHANGED lookVars => LookShape'
  BY DEF LookShape, lookVars
<1> QED
  BY <1>1, LookShapeInit, LookShapeStep, LookShapeIsType, PTL DEF LookSpec

LEMMA LockoutTypeCorrect == LockoutSpec => []LockoutTypeOK
<1>1. LockoutShape /\ UNCHANGED lockoutVars => LockoutShape'
  BY DEF LockoutShape, lockoutVars
<1> QED
  BY <1>1, LockoutShapeInit, LockoutShapeStep, LockoutShapeIsType, PTL DEF LockoutSpec

(* The components share no variable: a behaviour of the composition is a   *)
(* behaviour of each, so what is proved of one holds beside the others.    *)
THEOREM EachRunsAlone ==
  Spec => RateSpec /\ LookSpec /\ PasswordSpec /\ LockoutSpec /\ AdminSpec
<1> USE DEF rateVars, lookVars, passwordVars, lockoutVars, adminVars
<1>1. Init => RateInit /\ LookInit /\ PasswordInit /\ LockoutInit /\ AdminInit
  BY DEF Init
<1>2. [Next]_<<focus, rateVars, lookVars, passwordVars, lockoutVars, adminVars>>
        => [RateNext]_rateVars
  BY DEF Next, OnRate, OnLookup, OnPassword, OnLockout, OnAdmin
<1>3. [Next]_<<focus, rateVars, lookVars, passwordVars, lockoutVars, adminVars>>
        => [LookNext]_lookVars
  BY DEF Next, OnRate, OnLookup, OnPassword, OnLockout, OnAdmin
<1>4. [Next]_<<focus, rateVars, lookVars, passwordVars, lockoutVars, adminVars>>
        => [PasswordNext]_passwordVars
  BY DEF Next, OnRate, OnLookup, OnPassword, OnLockout, OnAdmin
<1>5. [Next]_<<focus, rateVars, lookVars, passwordVars, lockoutVars, adminVars>>
        => [LockoutNext]_lockoutVars
  BY DEF Next, OnRate, OnLookup, OnPassword, OnLockout, OnAdmin
<1>6. [Next]_<<focus, rateVars, lookVars, passwordVars, lockoutVars, adminVars>>
        => [AdminNext]_adminVars
  BY DEF Next, OnRate, OnLookup, OnPassword, OnLockout, OnAdmin
<1> QED
  BY <1>1, <1>2, <1>3, <1>4, <1>5, <1>6, PTL
     DEF Spec, RateSpec, LookSpec, PasswordSpec, LockoutSpec, AdminSpec

(* Every variable of the composition keeps its shape.                      *)
THEOREM LimitsTypeCorrect == Spec => []LimitsTypeOK
<1>1. RateTypeOK /\ LookTypeOK /\ PasswordTypeOK /\ LockoutTypeOK /\ AdminTypeOK
        => LimitsTypeOK
  BY DEF LimitsTypeOK
<1> QED
  BY <1>1, EachRunsAlone, RateTypeCorrect, LookTypeCorrect, PasswordTypeCorrect,
     LockoutTypeCorrect, AdminTypeCorrect, PTL

(* What the run limits checks of its instance holds of every one.          *)
THEOREM LimitsHold ==
  Spec => [](/\ TwiceTheLimitAtMost /\ LookupsAreBounded /\ GuessesAreBounded
             /\ FailuresPerDayAreBounded /\ SpentCodesStayMarked
             /\ TwoFactorIsOfOneSetup)
BY EachRunsAlone, TwiceTheLimit, LookupsBounded, GuessesBounded, FailuresBounded,
   SpentStayMarked, OneSetup, PTL

================================================================================
