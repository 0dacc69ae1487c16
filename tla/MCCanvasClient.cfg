CONSTANTS
  r1 = r1
  r2 = r2
  Room <- MCRoom
  Watched = r1
  MaxEvents = 3
  MaxSessions = 2
  MaxLosses = 1
SPECIFICATION Spec
INVARIANT TypeOK
INVARIANT SentOnceInOrder
INVARIANT WatcherDrawsStroke
INVARIANT KickedOnlyByCarryOver
INVARIANT LostOnlyWithConnection
PROPERTY OfflineEventsFlushed
