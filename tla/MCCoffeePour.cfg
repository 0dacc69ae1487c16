SPECIFICATION Spec
CONSTANTS
  Pour = {p1, p2}
  Drawing <- MCDrawing
  Abandoned <- MCAbandoned
  CamelCase = TRUE
  MaxFaults = 1
  Radius = 3
  Steps = 3
INVARIANT TypeOK
INVARIANT NoStainForgotten
INVARIANT CachedIsShown
INVARIANT SnapshotIsRecent
INVARIANT CleanupSparesStrokes
INVARIANT TrialIsAlone
INVARIANT VolumeConserved
INVARIANT OutlinesClosed
INVARIANT StrokesUnbroken
PROPERTY EveryPourSettled
PROPERTY ShutdownEnds
PROPERTY KeepsPromise
CHECK_DEADLOCK FALSE
