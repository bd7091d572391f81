\* Two models of which one fits, two objects for each name, and one failed call
\* or restart.
SPECIFICATION MCSpec
CONSTANTS
  Models = {m1, m2}
  NoModel = NoModel
  Capacity = 1
  MaxUid = 2
  MaxFaults = 1
INVARIANTS
  ListedIsHeld
  MemoryRespected
PROPERTIES
  ListedUntilDeleted
  EverythingSettles
CHECK_DEADLOCK FALSE
