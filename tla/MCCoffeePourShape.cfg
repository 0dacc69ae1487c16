SPECIFICATION Spec
CONSTANTS
  Pour = {p1, p2}
  Drawing <- MCDrawing
  Abandoned <- MCAbandoned
  CamelCase = FALSE
  MaxFaults = 0
  Radius = 3
  Steps = 3
INVARIANT FallbackMeansUnavailable
CHECK_DEADLOCK FALSE
