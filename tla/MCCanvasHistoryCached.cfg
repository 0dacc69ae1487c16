SPECIFICATION Spec
CONSTANTS
  k1 = k1
  t1 = t1
  t2 = t2
  c1 = c1
  c2 = c2
  Stroke = {k1}
  Stain = {t1, t2}
  Chunk = {c1, c2}
  Target <- MCTarget
  ChunkOf <- MCChunkOf
  Reader = {r1, r2}
  Limit = 4
  Fraction = 2
  Ttl = 1
  MaxClock = 1
  MaxFaults = 0
INVARIANT FailuresAreFaults
CHECK_DEADLOCK FALSE
