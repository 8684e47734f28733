\* Forced stop while a fiber waits in get_session().
CONSTANTS
  d1 = d1  d2 = d2  f1 = f1  f2 = f2  f3 = f3
  Checker = Checker  None = None
  Conns <- MCOneConn
  Users <- MCTwoUsers
  MaxChecks = 2
  MayStop = TRUE
SPECIFICATION Spec
INVARIANTS StopUnwinds
