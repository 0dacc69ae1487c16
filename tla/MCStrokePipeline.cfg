SPECIFICATION Spec
CONSTANTS
  Stroke = {s1, s2}
  MaxSegments = 1
  MaxFaults = 1
SYMMETRY Symmetry
INVARIANT TypeOK
INVARIANT CompletedIsSettled
INVARIANT SafetyNet
\* The clients stop when every stroke is drawn.
CHECK_DEADLOCK FALSE
