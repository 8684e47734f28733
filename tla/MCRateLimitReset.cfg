\* reset() racing a checkpoint.
CONSTANTS
  h1 = h1  c1 = c1  c2 = c2
  None = None
  Hashes <- MCHashes
  Callers <- MCCallers
  Points = {0, 1, 2}
  Buckets <- MCOneBucket
  MsPerSec = 2
  ExpirySec = 2
  Segments = 6
  ClockMod = 64
  Boot = 62
  MaxStall = 1
  MaxTime = 4
SPECIFICATION Spec
SYMMETRY Symmetry
INVARIANTS ResetRestores
