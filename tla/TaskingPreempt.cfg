SPECIFICATION Spec
CONSTANTS
  None = None
  Sensors = {s1}
  TaskRequests = {q1, q2}
  TaskCalls = {c1}
  MaxPriority = 2
  MaxAuditFaults = 0
  FeedCount = 2
  MaxLosses = 1
  MaxCloses = 0
PROPERTY SentTaskKeepsSensor
CHECK_DEADLOCK FALSE
