\* Every operation, checkpoints at every second event.
CONSTANTS
  SnapshotId = 1
  CheckpointInterval = 2
  Payloads = {p}
  EventKeys <- MCEventKeys
  SnapshotTimes <- MCSnapshotTimes
  SnapshotIds = {1, 2}
  QueryTimes <- MCQueryTimes
  AdvanceSteps <- MCAdvanceSteps
  LowerTimeHorizonDelta = 1
  ReconciliationCapacity = 1
  MaxTime = 4
  LateEvents = FALSE
  AheadSnapshots = FALSE
  EventSize = 3
  SnapshotSize = 5
  ItemSize = 1
SPECIFICATION MemorySpec
INVARIANTS TypeOK Consistent CheckpointsSound AnswersSound AppliedInOrder UsageMatchesMaps
PROPERTIES HistoryChangesAreAnnounced PruningIsInvisible LoopsAgree
CHECK_DEADLOCK FALSE
