SPECIFICATION Spec
CONSTANTS
  Requests = {r1, r2, r3}
  Tokens = {"t1", "t2"}
  Fingers = {"f1", "f2"}
  Sessions = {"s1", "s2"}
  Files = {a}
  Profiles <- RaceProfiles
  PasswordProtected = TRUE
  MaxFaults = 1
SYMMETRY RequestSymmetry
INVARIANTS
  TypeOK
  SingleClaim
  SingleCauseOfDeletion
  FilesOutliveTheTransfer
  NothingIsOrphaned
  CountMatchesDownloads
PROPERTY
  ImplementsClaimOnce
