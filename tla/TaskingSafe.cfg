SPECIFICATION FairSpec
CONSTANTS
  None = None
  Sensors = {s1}
  TaskRequests = {q1, q2}
  TaskCalls = {c1, c2}
  MaxPriority = 2
  MaxAuditFaults = 1
  FeedCount = 2
  MaxLosses = 1
  MaxCloses = 1
INVARIANTS
  TypeOK
  SubscribedIsInstalled
  SentOnce
PROPERTIES
  AnswersStand
  YieldsOnlyUpward
  ConnectionRecovers
CHECK_DEADLOCK FALSE
