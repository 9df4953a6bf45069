SPECIFICATION Spec
CONSTANTS
  Requests = {r1, r2}
  Tokens = {"t1"}
  Fingers = {"f1", "f2"}
  Sessions = {"s1"}
  Files = {a}
  Profiles <- TokenlessProfiles
  PasswordProtected = FALSE
  MaxFaults = 0
INVARIANT
  SingleClaim
