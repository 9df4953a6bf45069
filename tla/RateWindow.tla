------------------------------- MODULE RateWindow ------------------------------
(***************************************************************************)
(* The fixed-window counter of one address: ipBasedRateLimit in            *)
(* middleware/rateLimiter.js, which every limited route falls back to when *)
(* Redis is absent or fails, and the same algorithm in front of socket     *)
(* connections (config/socket.js).  All routes share the entry of an       *)
(* address; each compares it with its own limit.                           *)
(***************************************************************************)
EXTENDS Integers, FiniteSets

CONSTANTS
  Routes, LimitOf,   \* maxRequests: 100, page views 120, socket connections 10
  WindowLength,      \* windowMs
  LastRateTime, MaxRestarts   \* bounds of the instance

ASSUME RateAssumption ==
  /\ LimitOf \in [Routes -> Nat \ {0}]
  /\ WindowLength \in Nat /\ LastRateTime \in Nat \ {0} /\ MaxRestarts \in Nat

VARIABLES
  rateClock,
  window,        \* the entry of the address in ipRateLimitMap, at most one
  letThrough,    \* history: per route, the requests let through up to a time
  rateRestarts   \* history: the map lives in the process

rateVars == <<rateClock, window, letThrough, rateRestarts>>

RateTimes == 0..LastRateTime

RateInit ==
  /\ rateClock = 1
  /\ window = {}
  /\ letThrough = [r \in Routes |-> [t \in RateTimes |-> 0]]
  /\ rateRestarts = 0

IsOver(w) == rateClock > w.resetAt

(* An absent or elapsed entry starts a window; a current one takes the     *)
(* request if its count is below the route's limit.  A refused request     *)
(* changes nothing, not even the count.                                    *)
MutantNextWindow(r) ==      \* an elapsed window restarts without a new end
  LET open == {w \in window : IsOver(w) \/ w.count < LimitOf[r]}
  IN  IF window = {} THEN {[count |-> 1, resetAt |-> rateClock + WindowLength]}
      ELSE {[w EXCEPT !.count = IF IsOver(w) THEN 1 ELSE @ + 1] : w \in open}
NextWindow(r) ==
  IF \A w \in window : IsOver(w)
  THEN {[count |-> 1, resetAt |-> rateClock + WindowLength]}
  ELSE {[w EXCEPT !.count = @ + 1] : w \in {v \in window : v.count < LimitOf[r]}}

LetThrough(r) ==
  /\ NextWindow(r) # {}
  /\ window' = NextWindow(r)
  /\ letThrough' = [letThrough EXCEPT ![r] =
                      [t \in RateTimes |-> IF rateClock <= t THEN @[t] + 1 ELSE @[t]]]
  /\ UNCHANGED <<rateClock, rateRestarts>>

(* The periodic sweep and the sweep of an overfull map.                    *)
DropElapsed ==
  /\ \E w \in window : IsOver(w)
  /\ window' = {}
  /\ UNCHANGED <<rateClock, letThrough, rateRestarts>>

RateRestart ==
  /\ rateRestarts < MaxRestarts
  /\ window' = {}
  /\ rateRestarts' = rateRestarts + 1
  /\ UNCHANGED <<rateClock, letThrough>>

RateTick ==
  /\ rateClock < LastRateTime
  /\ rateClock' = rateClock + 1
  /\ UNCHANGED <<window, letThrough, rateRestarts>>

RateNext ==
  \/ \E r \in Routes : LetThrough(r)
  \/ DropElapsed \/ RateRestart \/ RateTick

RateSpec == RateInit /\ [][RateNext]_rateVars

--------------------------------------------------------------------------------
(* Every variable keeps its shape.                                         *)
RateTypeOK ==
  /\ rateClock \in RateTimes \ {0}
  /\ Cardinality(window) <= 1
  /\ \A w \in window : w \in [count : Nat \ {0}, resetAt : Nat]
  /\ letThrough \in [Routes -> [RateTimes -> Nat]]
  /\ rateRestarts \in 0..MaxRestarts

(* A fixed window is no sliding one: around the end of a window a route    *)
(* may be called twice its limit within one window's length.  It is never  *)
(* more than that, whatever other routes of the address do with the entry, *)
(* except for one further limit per restart of the process.                *)
TwiceTheLimitAtMost ==
  \A r \in Routes : \A t, u \in RateTimes :
    u <= t + 1 + WindowLength =>
      letThrough[r][u] - letThrough[r][t] <= (2 + rateRestarts) * LimitOf[r]
================================================================================
