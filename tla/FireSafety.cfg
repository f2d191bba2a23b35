SPECIFICATION Spec
CONSTANTS
  None = None
  Effectors = {f1}
  Engagements = {e1, e2}
  Requests = {r1, r2}
  AbortRequests = {a1}
  Calls = {c1, c2}
  Lossy = TRUE
  Reorder = TRUE
  Redelivery = FALSE
  ClockSkew = FALSE
  AuditMayFail = TRUE
  MaxC2Restarts = 0
  MaxEffectorRestarts = 1
  RestConsume = FALSE
SYMMETRY Symmetry
INVARIANTS
  InhibitCoversOrders
  TerminalIsTruthful
  NoStaleAnnotation
PROPERTIES
  ImplementsInterlock
  AbortPreemptsEffect
CHECK_DEADLOCK FALSE
