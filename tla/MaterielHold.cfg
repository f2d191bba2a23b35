SPECIFICATION MaterielSpec
CONSTANTS
  None = None
  Sensors = {s1}
  Effectors = {f1}
  Engagements = {e1}
  Capacity = 1
  Lossy = FALSE
  MaxReportTime = 1
  MaxUplink = 3
  MaxPosts = 0
  MaxDelivered = 0
PROPERTIES
  HoldIsHeeded
CHECK_DEADLOCK FALSE
