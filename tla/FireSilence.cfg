SPECIFICATION FairSpec
CONSTANTS
  None = None
  Effectors = {f1}
  Engagements = {e1}
  Requests = {r1}
  AbortRequests = {a1}
  Calls = {c1}
  Lossy = TRUE
  Reorder = TRUE
  Redelivery = TRUE
  ClockSkew = TRUE
  AuditMayFail = FALSE
  MaxC2Restarts = 0
  MaxEffectorRestarts = 0
  RestConsume = FALSE
PROPERTIES
  NeverExecutedTwice
  SilenceIsFlagged
  AbortEventuallyAnswered
CHECK_DEADLOCK FALSE
