SPECIFICATION MCSpec
CONSTANTS
  None = None
  Absent = Absent
  Tracks = {t1}
  TimeToLive = 3
  MaxFutureSkew = 1
  Tick = 2
  Latencies = {0, 1}
  MaxSessions = 2
  MaxNow = 8
  MaxReports = 3
  Sensors = {s1}
  Effectors = {f1}
  Engagements = {e1, e2}
  Capacity = 1
  Lossy = TRUE
  MaxReportTime = 1
  MaxUplink = 4
  MaxPosts = 1
  MaxDelivered = 1
  Bodies = {plain, separated}
  PlainBodies = {plain, separated}
  MaxRecords = 3
SYMMETRY Symmetry
INVARIANTS
  CopInv
  NewsIsTaken
  NeverOverstatesStock
  LapseIsEvidenced
  AuditInv
PROPERTIES
  PictureAdvances
  EvidenceSurvives
CHECK_DEADLOCK FALSE
