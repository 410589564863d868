CONSTANTS
  SnapshotTypes = {"Account", "Character"}
  Variants = {"Renamed", "Created"}
  TargetTypes <- MCTargetTypes
  WorkerCount = 2
  WorkerIndex <- MCWorkerIndex
  Events <- MCEvents
  Corrections <- MCCorrections
  QueryIds = {1, 2, 3}
  Clients = {c, d}
  InboundCapacity = 1
  MaxRequests = 2
  MayPanic = TRUE
SPECIFICATION Spec
INVARIANTS TypeOK RequestsAccounted ContentsAccounted AcknowledgedIsApplied QueriesSeeEarlierSends AcknowledgedAdvanceReachedAll FailuresAreReal
PROPERTIES EveryRequestResolves DropTerminates ImplementsStore
