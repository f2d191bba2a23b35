SPECIFICATION Spec
CONSTANTS
  None = None
  Effectors = {f1}
  Engagements = {e1, e2}
  Requests = {r1, r2}
  AbortRequests = {}
  Calls = {c1, c2}
  Lossy = TRUE
  Reorder = TRUE
  Redelivery = FALSE
  ClockSkew = TRUE
  AuditMayFail = TRUE
  MaxC2Restarts = 1
  MaxEffectorRestarts = 1
  RestConsume = TRUE
SYMMETRY Symmetry
INVARIANTS
  FireInv
  ReservationExact
  EvidenceBeforeOrder
  OneEngagementPerRequest
CHECK_DEADLOCK FALSE
