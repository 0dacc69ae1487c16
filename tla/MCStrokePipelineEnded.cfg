SPECIFICATION Spec
CONSTANTS
  Stroke = {s1}
  MaxSegments = 1
  MaxFaults = 0
INVARIANT EndedStrokeIsCompleted
CHECK_DEADLOCK FALSE
