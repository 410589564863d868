\* Two clients of one id, a channel that never fills up.
CONSTANTS
  Clients = {c, d}
  SnapshotId = 1
  CheckpointInterval = 2
  Payloads = {p}
  EventKeys <- MCEventKeys
  SnapshotTimes <- MCSnapshotTimes
  SnapshotIds = {1}
  QueryTimes <- MCQueryTimes
  AdvanceSteps <- MCNone
  LowerTimeHorizonDelta = 0
  ReconciliationCapacity = 3
  MaxTime = 0
  LateEvents = FALSE
  AheadSnapshots = FALSE
SPECIFICATION SubscriberSpec
INVARIANT EverybodyHears
CHECK_DEADLOCK FALSE
