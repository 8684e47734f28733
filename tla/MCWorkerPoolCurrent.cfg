\* Two tasks of one service on one worker.
CONSTANTS
  t1 = t1  t2 = t2  t3 = t3  w1 = w1  w2 = w2  s1 = s1  s2 = s2
  External = External  None = None
  Tasks <- MCTwo
  Workers <- MCOneWorker
  Services <- MCOneService
  Origin <- OriginSame
  Capacity = 1
  MaxNaps = 2
SPECIFICATION Spec
INVARIANTS CurrentServiceIsOrigin
