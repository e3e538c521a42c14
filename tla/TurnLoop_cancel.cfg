SPECIFICATION Spec
CONSTANTS
  w0 = w0
  w1 = w1
  k1 = k1
  Worker = {w0, w1}
  Leader = w0
  Call = {k1}
  Proxied = {k1}
  Steps = 3
  MaxRows = 9
  MaxPosts = 1
  Faults <- CancelFaults
  MaxFaults = 1
INVARIANT
  CancelStopsLoop
CHECK_DEADLOCK FALSE
