SPECIFICATION Spec
CONSTANTS
  Sockets = {s1, s2}
  Tokens = {t1}
  MaxFaults = 0
PROPERTY
  ConnectedClaimantIsSpared
CHECK_DEADLOCK FALSE
