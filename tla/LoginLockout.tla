------------------------------ MODULE LoginLockout -----------------------------
(***************************************************************************)
(* Progressive lockout of one address at the admin login: the check of     *)
(* rateLimitAdminLogin, and recordAdminLoginFailure and                    *)
(* clearAdminLoginFailures which the handler calls after bcrypt and the    *)
(* second factor.  Redis and the fixed window in between may refuse a      *)
(* request as well; here they let through as much as they like.            *)
(***************************************************************************)
EXTENDS Naturals, FiniteSets

CONSTANTS
  Attempts,               \* logins of the address that may be in flight
  ShortLock, MaxShort,    \* 15 minutes after 5 failures
  LongLock, MaxDay,       \* 1 hour from 10 failures on
  Day,                    \* 24 hours
  LastLoginTime           \* bound of the instance

ASSUME LockoutAssumption ==
  /\ IsFiniteSet(Attempts)
  /\ ShortLock \in Nat \ {0} /\ LongLock \in Nat \ {0} /\ Day \in Nat
  /\ MaxShort \in Nat \ {0} /\ MaxDay \in Nat \ {0} /\ LastLoginTime \in Nat \ {0}

VARIABLES
  loginClock,
  record,     \* adminLockoutMap of the address: at most one entry
  trying      \* logins between the check and the verdict

lockoutVars == <<loginClock, record, trying>>

LockoutInit == loginClock = 1 /\ record = {} /\ trying = {}

IsLocked == \E e \in record : loginClock < e.lockedUntil

(* checkAdminLoginLockout.                                                 *)
TryLogin(a) ==
  /\ a \notin trying /\ ~IsLocked
  /\ trying' = trying \cup {a}
  /\ record' = {e \in record : loginClock <= e.firstAttempt + Day}
  /\ UNCHANGED loginClock

(* recordAdminLoginFailure: lockedUntil 0 stands for its absence.          *)
MutantAfterFailure(e) ==
  [e EXCEPT !.failures = 0, !.failures24h = @ + 1,
            !.lockedUntil = loginClock + ShortLock]
AfterFailure(e) ==
  LET counted == [e EXCEPT !.failures = @ + 1, !.failures24h = @ + 1]
  IN  CASE counted.failures24h >= MaxDay ->
             [counted EXCEPT !.failures = 0, !.lockedUntil = loginClock + LongLock]
        [] counted.failures24h < MaxDay /\ counted.failures >= MaxShort ->
             [counted EXCEPT !.failures = 0, !.lockedUntil = loginClock + ShortLock]
        [] OTHER -> counted

NewRecord ==
  [failures |-> 0, failures24h |-> 0, firstAttempt |-> loginClock, lockedUntil |-> 0]

FailLogin(a) ==
  /\ a \in trying
  /\ trying' = trying \ {a}
  /\ record' = {AfterFailure(e) : e \in IF record = {} THEN {NewRecord} ELSE record}
  /\ UNCHANGED loginClock

(* A login that succeeds clears the entry, also one locked meanwhile.      *)
SucceedLogin(a) ==
  /\ a \in trying
  /\ trying' = trying \ {a}
  /\ record' = {}
  /\ UNCHANGED loginClock

LoginTick ==
  /\ loginClock < LastLoginTime
  /\ loginClock' = loginClock + 1
  /\ UNCHANGED <<record, trying>>

LockoutNext ==
  \/ \E a \in Attempts : TryLogin(a) \/ FailLogin(a) \/ SucceedLogin(a)
  \/ LoginTick

LockoutSpec == LockoutInit /\ [][LockoutNext]_lockoutVars

--------------------------------------------------------------------------------
(* Every variable keeps its shape.                                         *)
LockoutTypeOK ==
  /\ loginClock \in 1..LastLoginTime
  /\ Cardinality(record) <= 1
  /\ \A e \in record : e \in [failures : 0..(MaxShort - 1), failures24h : Nat,
                             firstAttempt : 1..LastLoginTime, lockedUntil : Nat]
  /\ trying \in SUBSET Attempts

(* Wrong logins of an address under one entry: nine before the long        *)
(* lockout, then at most the concurrent ones for each hour of the day,     *)
(* however the requests in flight interleave with the lockouts.            *)
FailuresPerDayAreBounded ==
  \A e \in record :
    e.failures24h <= MaxDay - 1 + Cardinality(Attempts) * (1 + (Day \div LongLock))
================================================================================
