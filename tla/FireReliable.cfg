SPECIFICATION FairSpec
CONSTANTS
  None = None
  Effectors = {f1}
  Engagements = {e1}
  Requests = {r1}
  AbortRequests = {a1, a2}
  Calls = {c1}
  Lossy = FALSE
  Reorder = FALSE
  Redelivery = FALSE
  ClockSkew = FALSE
  AuditMayFail = TRUE
  MaxC2Restarts = 0
  MaxEffectorRestarts = 0
  RestConsume = FALSE
INVARIANTS
  EffectorVerdictIsFinal
  ReceiptIsTruthful
PROPERTIES
  ReceiptsSettle
  ReleasedEventuallyTerminal
CHECK_DEADLOCK FALSE
