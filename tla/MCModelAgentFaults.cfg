\* One model, two specs, every fault but a failing removal, two kills.
SPECIFICATION AgentSpec
CONSTANTS
  Models = {m1}
  Specs = {s1, s2}
  NoSpec = NoSpec
  Workers = {w1}
  NoWorker = NoWorker
  NoOp = NoOp
  EventCap = 3
  OpCap = 3
  CompCap = 2
  Faults = {"download", "write", "load", "stat"}
  MaxChanges = 2
  MaxCrashes = 2
INVARIANTS
  AgentInv
  LoadedIsComplete
  SuccessFilesAreTruthful
PROPERTIES
  CommandsInOrder
CHECK_DEADLOCK FALSE
