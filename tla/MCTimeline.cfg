\* Events and corrections in every order, queries in between, no pruning.
CONSTANTS
  SnapshotId = 1
  CheckpointInterval = 2
  Payloads = {p, q}
  EventKeys <- MCEventKeys
  SnapshotTimes <- MCSnapshotTimes
  SnapshotIds = {1}
  QueryTimes <- MCQueryTimes
  AdvanceSteps <- MCNone
  LowerTimeHorizonDelta = 0
  ReconciliationCapacity = 0
  MaxTime = 0
  LateEvents = FALSE
  AheadSnapshots = FALSE
SPECIFICATION Spec
INVARIANTS OrderIndependent Unpruned
PROPERTY ImplementsTimeline
CHECK_DEADLOCK FALSE
