\* One model: channels opened and closed again and again, with restarts.
SPECIFICATION Spec
CONSTANTS
  Models = {m1}
  Specs = {s1}
  NoSpec = NoSpec
  EventCap = 3
  Workers = {w1, w2}
  NoWorker = NoWorker
  NoOp = NoOp
  OpCap = 2
  CompCap = 2
  Faults = {"download", "write", "load", "remove", "stat"}
SYMMETRY Symmetry
INVARIANTS
  OneProcessorPerModel
  InFlightIsOutstanding
  StartupCompletesFirst
