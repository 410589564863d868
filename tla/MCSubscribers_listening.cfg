\* Two clients of one id, a channel that is full after one notification.
CONSTANTS
  Clients = {c, d}
  SnapshotId = 1
  CheckpointInterval = 2
  Payloads = {p}
  EventKeys <- MCEventKeys
  SnapshotTimes <- MCSnapshotTimes
  SnapshotIds = {1}
  QueryTimes <- MCQueryTimes
  AdvanceSteps <- MCNone
  LowerTimeHorizonDelta = 0
  ReconciliationCapacity = 1
  MaxTime = 0
  LateEvents = FALSE
  AheadSnapshots = FALSE
SPECIFICATION SubscriberSpec
INVARIANTS AnswersAccounted SomebodyWillHear
PROPERTY CatchesUp
CHECK_DEADLOCK FALSE
