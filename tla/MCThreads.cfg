\* Three calls of async() on two worker threads; a thread with three fibers
\* and one other thread that wakes them.
CONSTANTS
  t1 = t1  t2 = t2  t3 = t3  w1 = w1  w2 = w2  s1 = s1  s2 = s2
  External = External  None = None
  Tasks <- MCThree
  Workers <- MCWorkers
  Services <- MCOneService
  Origin <- OriginSame
  Capacity = 1
  MaxNaps = 1
  Main = Main  WorkerFibers = {f1, f2}  SchedDispatcher = SchedDispatcher
  Remotes = {r1}  Stacks = {k1, k2}  NoStack = NoStack
SPECIFICATION ThreadsSpec
INVARIANTS OnePool  NoLostWakeup StacksApart
PROPERTIES AsyncResolved RemoteRuns StopEndsSleepers
