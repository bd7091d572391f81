\* Two models, no fault: any configuration replaced by any other.
SPECIFICATION FairAgentSpec
CONSTANTS
  Models = {m1, m2}
  Specs = {s1, s2}
  NoSpec = NoSpec
  Workers = {w1}
  NoWorker = NoWorker
  NoOp = NoOp
  EventCap = 4
  OpCap = 4
  CompCap = 4
  Faults = {}
  MaxChanges = 1
  MaxCrashes = 0
PROPERTIES
  EveryCommandApplied
  StartupTerminates
  ConfigEndsServed
CHECK_DEADLOCK FALSE
