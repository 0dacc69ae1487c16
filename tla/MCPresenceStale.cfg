SPECIFICATION Spec
CONSTANTS
  Socket = {k1}
  User = {u1}
  Instance = {i1}
  MaxFaults = 0
INVARIANT NoStalePresence
CHECK_DEADLOCK FALSE
