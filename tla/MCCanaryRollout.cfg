\* Two changes of the specification, with canaries of 10 and 100 percent, and two
\* failed calls or restarts. When the user is done everybody may be at rest.
SPECIFICATION FairSpec
CONSTANTS
  Canaries = {10, 100}
  NoCanary = NoCanary
  MaxChanges = 2
  MaxFaults = 2
INVARIANTS
  RolloutInv
PROPERTIES
  RollbackIsAsked
  RolloutSettles
CHECK_DEADLOCK FALSE
