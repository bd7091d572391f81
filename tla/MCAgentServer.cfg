\* Two requests of one or two instances through both handlers, in one or two
\* batches, with a sink that may never answer.
SPECIFICATION ServerFairSpec
CONSTANTS
  Requests = {r1, r2}
  Paths = {p1}
  MaxInstances = 2
  MaxBatchSize = 3
  MaxLatency = 2
  LogMode = "all"
  QueueCap = 1
  LogWorkers = {w1}
  NoEntry = NoEntry
INVARIANTS
  OwnPredictions
  LimitsKept
  LoggerInv
PROPERTIES
  EveryRequestEnds
CHECK_DEADLOCK FALSE
