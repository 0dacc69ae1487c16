SPECIFICATION Spec
CONSTANTS
  Socket = {k1, k2, k3}
  User = {u1, u2}
  Instance = {i1, i2}
  MaxFaults = 1
SYMMETRY Symmetry
INVARIANT TypeOK
INVARIANT JoinedBeforeLeft
INVARIANT GhostsAreMissedDisconnects
INVARIANT MissingAfterSecondSocket
\* Sockets are used once.
CHECK_DEADLOCK FALSE
