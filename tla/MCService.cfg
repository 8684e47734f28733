CONSTANTS
  t1 = t1
  t2 = t2
  t3 = t3
  stop1 = stop1
  External = External
  Tasks <- MCThree
  StopTasks <- MCStop
  Capacity = 2
INVARIANTS ExecuteCountExact CapturesDestroyed LostOnlyByStop
PROPERTIES CompletionExit
SPECIFICATION Spec
SYMMETRY Symmetry
