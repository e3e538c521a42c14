SPECIFICATION Spec
CONSTANTS
  w0 = w0
  w1 = w1
  k1 = k1
  k2 = k2
  Worker = {w0, w1}
  Leader = w0
  Call = {k1, k2}
  Proxied = {k1}
  Steps = 3
  MaxRows = 7
  MaxPosts = 1
  Faults <- CalmFaults
  MaxFaults = 2
INVARIANTS
  TypeOK
  OneDriver
  AnsweredOnce
  DispatchContinues
PROPERTIES
  TerminalStays
  ImplementsTurn
CHECK_DEADLOCK FALSE
