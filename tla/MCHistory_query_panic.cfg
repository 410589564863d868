\* Queries at the time of an authoritative snapshot.
CONSTANTS
  SnapshotId = 1
  CheckpointInterval = 2
  Payloads = {p}
  EventKeys <- MCOtherIdEventKeys
  SnapshotTimes <- MCSnapshotTimes
  SnapshotIds = {1}
  QueryTimes <- MCQueryTimes
  AdvanceSteps <- MCNone
  LowerTimeHorizonDelta = 0
  ReconciliationCapacity = 0
  MaxTime = 4
  LateEvents = FALSE
  AheadSnapshots = FALSE
SPECIFICATION Spec
INVARIANT QueriesNeverPanic
CHECK_DEADLOCK FALSE
