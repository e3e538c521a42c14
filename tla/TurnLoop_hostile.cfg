SPECIFICATION FairSpec
CONSTANTS
  w0 = w0
  w1 = w1
  k1 = k1
  Worker = {w0, w1}
  Leader = w0
  Call = {k1}
  Proxied = {k1}
  Steps = 3
  MaxRows = 11
  MaxPosts = 1
  Faults <- FaultKinds
  MaxFaults = 1
INVARIANTS
  ClaimedOnce
  StepBudget
PROPERTY
  Settles
CHECK_DEADLOCK FALSE
