SPECIFICATION FairSpec
CONSTANTS
  Request = {r1, r2, r3}
  Code = {c1, c2}
  Capacity = {2, 3}
  Seed = {0, 1}
  NumColors = 2
  MaxAttempts = 2
  PoolSize = 2
  MaxFaults = 1
  Nobody = Nobody
INVARIANT TypeOK
INVARIANT CapacityHolds
INVARIANT ColorsDistinct
INVARIANT AllOrNothing
PROPERTY EveryRequestAnswered
PROPERTY ImplementsSeats
\* Requests stop arriving.
CHECK_DEADLOCK FALSE
