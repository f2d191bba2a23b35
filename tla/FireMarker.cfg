SPECIFICATION Spec
CONSTANTS
  None = None
  Effectors = {f1}
  Engagements = {e1}
  Requests = {r1}
  AbortRequests = {a1}
  Calls = {c1}
  Lossy = FALSE
  Reorder = FALSE
  Redelivery = FALSE
  ClockSkew = FALSE
  AuditMayFail = FALSE
  MaxC2Restarts = 0
  MaxEffectorRestarts = 0
  RestConsume = FALSE
INVARIANTS
  PendingMarkerRetained
CHECK_DEADLOCK FALSE
