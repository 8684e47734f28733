\* Three fibers share two connections; the service may be stopped.
CONSTANTS
  d1 = d1  d2 = d2  f1 = f1  f2 = f2  f3 = f3
  Checker = Checker  None = None
  Conns <- MCConns
  Users <- MCUsers
  MaxChecks = 2
  MayStop = TRUE
SPECIFICATION FairSpec
INVARIANTS PoolConserved MutexDiscipline
PROPERTIES WaitEnds
