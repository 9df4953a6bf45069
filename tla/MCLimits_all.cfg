SPECIFICATION Spec
CONSTANTS
  Routes = {"upload", "pageView"}
  LimitOf <- TheLimits
  WindowLength = 2
  LastRateTime = 6
  MaxRestarts = 1
  Lookups = {"k1", "k2"}
  MaxFailedLookups = 2
  LookupLockout = 3
  LookupWindow = 3
  ViewWindow = 2
  LastLookupTime = 8
  Guessers = {"g1", "g2", "g3"}
  MaxAttempts = 2
  MaxResets = 1
  Attempts = {"a1", "a2"}
  ShortLock = 1
  MaxShort = 2
  LongLock = 2
  MaxDay = 4
  Day = 6
  LastLoginTime = 9
  Logins = {"l1", "l2"}
  Changes = {"o1", "o2"}
  BackupCodes = {"b"}
  MaxSetups = 2
INVARIANTS
  LimitsTypeOK
  TwiceTheLimitAtMost
  LookupsAreBounded
  GuessesAreBounded
  FailuresPerDayAreBounded
  SpentCodesStayMarked
  TwoFactorIsOfOneSetup
CHECK_DEADLOCK FALSE
