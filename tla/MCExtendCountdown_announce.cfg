SPECIFICATION Spec
CONSTANTS
  Requests = {r1, r2}
  Owners = {r1, r2}
  FirstExpiry = 2
  Extensions = {1, 2}
  MaxTime = 5
PROPERTY
  ExpiredIsTrueWhenAnnounced
CHECK_DEADLOCK FALSE
