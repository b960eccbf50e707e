CONSTANTS
  b1 = b1
  b2 = b2
  b3 = b3
  b4 = b4
  BuildId = {b1, b2, b3}
  Graphs <- AllDags
  Parallelisms = {2}
  MaxRuns = 1
SPECIFICATION Spec
CHECK_DEADLOCK FALSE
PROPERTIES
  FailureSkipsConsumers
