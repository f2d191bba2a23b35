SPECIFICATION FairSpec
CONSTANTS
  None = None
  Persons = {p1, p2}
  Founder = p1
  Editors = {p2}
  Invitations = {i1}
  Tasks = {k1}
  Handovers = {h1, h2}
  Transfers = {t1, t2}
  MaxReports = 1
  MaxEvents = 8
  MaxRevisions = 2
  MaxPosts = 1
  Tenth = 1
  Millisecond = 1
  MaxNow = 0
  MaxAdjusted = 0
  MaxCrashes = 1
INVARIANTS
  OneTransferAtATime
  AlwaysAController
  HandoverStaysAcceptable
  WorkStaysWithAWorker
  OutcomeAlwaysRecordable
  RecordIsTruthful
PROPERTIES
  NeverResent
  TransferConcludes
CHECK_DEADLOCK FALSE
