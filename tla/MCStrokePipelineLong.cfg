SPECIFICATION FairSpec
CONSTANTS
  Stroke = {s1}
  MaxSegments = 3
  MaxFaults = 2
INVARIANT BatchIsWholeStroke
INVARIANT RelayedInOrder
PROPERTY CompletedGetsSaved
CHECK_DEADLOCK FALSE
