CONSTANTS
  t1 = t1
  t2 = t2
  t3 = t3
  stop1 = stop1
  External = External
  Tasks <- MCTwo
  StopTasks <- MCStop
  Capacity = 1
SPECIFICATION FairSpec
PROPERTIES StopReturns IoDelivered
