SPECIFICATION Spec
CONSTANTS
  Sockets = {s1, s2, s3}
  Tokens = {t1, t2}
  MaxFaults = 1
SYMMETRY ClientSymmetry
INVARIANTS
  TypeOK
  OnlyClaimantsTimerBurns
  SoleClaimantIsSpared
PROPERTY
  DeletedStatusStands
CHECK_DEADLOCK FALSE
