SPECIFICATION MCSpec
CONSTANTS
  None = None
  Persons = {p1, p2}
  Founder = p1
  Editors = {p1, p2}
  Invitations = {i1}
  Tasks = {}
  Handovers = {}
  Transfers = {}
  MaxReports = 5
  MaxEvents = 8
  MaxRevisions = 4
  MaxPosts = 2
  Tenth = 3
  Millisecond = 2
  MaxNow = 6
  MaxAdjusted = 2
  MaxCrashes = 0
INVARIANTS
  CheckpointsOnRecord
  CorrectionsFollowOn
  ElapsedTracksRunningTime
CHECK_DEADLOCK FALSE
