\* make_memcache: one thread, no mutex, a make() that may suspend; partitions of 0 ms.
CONSTANTS
  k1 = k1  k2 = k2  v1 = v1  v2 = v2  c1 = c1  c2 = c2
  None = None
  Keys <- MCOneKey
  Values <- MCOneValue
  Callers <- MCCallers
  multi_thread = FALSE
  expiry_ms = 2
  segments = 3
  MaxTime = 5
  MaxDelay = 1
SPECIFICATION FairSpec
PROPERTIES CacheSpec ExpiredFreed LoopEnds
