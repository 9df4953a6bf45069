SPECIFICATION FairSpec
CONSTANTS
  Sockets = {s1}
  Tokens = {t1}
  MaxFaults = 0
PROPERTY
  ExpiredIsPurged
CHECK_DEADLOCK FALSE
