\* One model that is created, deleted and created again, and two nodes: two
\* things happen to the nodes or the manager, and one API call fails.
SPECIFICATION FairSpec
CONSTANTS
  Models = {m1}
  Nodes = {n1, n2}
  NoModel = NoModel
  MaxUser = 3
  MaxEvents = 2
  MaxFaults = 1
INVARIANTS
  NothingLeftBehind
PROPERTIES
  QueuedReachesReadyNodes
  ReportsReachTheCache
  DeletionEnds
CHECK_DEADLOCK FALSE
