SPECIFICATION Spec
CONSTANTS
  Requests = {r1, r2, r3}
  Owners = {r1, r2}
  FirstExpiry = 2
  Extensions = {1, 2}
  MaxTime = 5
SYMMETRY OwnerSymmetry
INVARIANTS
  TypeOK
  ExtendedOnceByOwner
  CountdownIsNeverLate
  LiveTransferIsCountedDown
CHECK_DEADLOCK FALSE
