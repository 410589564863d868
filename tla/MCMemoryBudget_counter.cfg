CONSTANTS
  Workers = {1, 2}
  Clients = {c}
  Budget = 2
  InboundCapacity = 1
  InputSizes = {1}
  SnapshotSize = 0
  CheckpointDeltas <- MCCheckpointDeltas
  TargetLists <- MCTargetLists
  MaxRequests = 4
  MaxWord = 15
SPECIFICATION Spec
INVARIANTS BudgetAccounted NothingLost OvershootBounded
CHECK_DEADLOCK FALSE
