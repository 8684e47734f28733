\* make_memcache_mt: every call under mtx.
CONSTANTS
  k1 = k1  k2 = k2  v1 = v1  v2 = v2  c1 = c1  c2 = c2
  None = None
  Keys <- MCKeys
  Values <- MCValues
  Callers <- MCCallers
  multi_thread = TRUE
  expiry_ms = 2
  segments = 2
  MaxTime = 6
  MaxDelay = 2
SPECIFICATION Spec
SYMMETRY Symmetry
INVARIANTS SegmentsApart
PROPERTIES CreatedOnce CacheSpec
