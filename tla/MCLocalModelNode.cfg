\* One model that is listed, taken off the list and listed again, with one
\* restart or loss of its folder or failed call.
SPECIFICATION FairSpec
CONSTANTS
  Models = {m1}
  MaxJobs = 2
  MaxChanges = 3
  MaxFaults = 1
INVARIANTS
  NodeInv
PROPERTIES
  ListIsFollowed
CHECK_DEADLOCK FALSE
