\* Queries at the time of an event whose id is below the snapshot id.
CONSTANTS
  SnapshotId = 1
  CheckpointInterval = 2
  Payloads = {p}
  EventKeys <- MCEventKeys
  SnapshotTimes <- MCSnapshotTimes
  SnapshotIds = {1}
  QueryTimes <- MCQueryTimes
  AdvanceSteps <- MCNone
  LowerTimeHorizonDelta = 0
  ReconciliationCapacity = 0
  MaxTime = 4
  LateEvents = FALSE
  AheadSnapshots = FALSE
SPECIFICATION Spec
INVARIANT QueriesExcludeTheirTime
CHECK_DEADLOCK FALSE
