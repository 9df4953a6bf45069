SPECIFICATION Spec
CONSTANTS
  Shares = {"s1", "s2", "s3"}
  Snippets = {"s1", "s2"}
  Codes = {"c"}
  Titles = {"title"}
  TitleOf <- TheTitles
  MaxDraws = 1
  NoShare = NoShare
  Sockets = {"x1", "x2"}
  NoSocket = NoSocket
  MaxFaults = 2
  Readers = {"r1", "r2"}
  TTL = 2
  Latency = 2
  LastCacheTime = 7
  Callers = {"p1", "p2", "p3"}
  MaxRequests = 2
  Visits = {"v1", "v2", "v3", "v4"}
  KeyOf <- TheKeys
  NoKey = NoKey
  BatchSize = 3
  Runners = {"w1", "w2"}
INVARIANTS
  ServicesTypeOK
  UncontestedShareIsWhole
  OnlyOwnTextIsShown
  LiveSenderIsKnown
  OldStatusFades
  OneComputation
  EachItemIsWorkedOnce
  AcceptedAreAnswered
PROPERTIES
  DeadSenderIsForgotten
  VisitsAreAnnounced
CHECK_DEADLOCK FALSE
