SPECIFICATION FairSpec
CONSTANTS
  Requests = {r1, r2}
  Tokens = {"t1", "t2"}
  Fingers = {"f1"}
  Sessions = {"s1"}
  Files = {a, b}
  Profiles <- ReapedProfiles
  PasswordProtected = FALSE
  MaxFaults = 1
PROPERTIES
  ClaimedTransferIsReaped
  ExpiredTransferIsReaped
  DeletedFilesAreRemoved
