CONSTANTS
  b1 = b1
  b2 = b2
  b3 = b3
  b4 = b4
  BuildId = {b1, b2, b3, b4}
  Graphs <- Shapes
  Parallelisms = {0, 1, 2, 3}
  MaxRuns = 2
SPECIFICATION PSpec
CHECK_DEADLOCK FALSE
INVARIANTS
  TypeOK
  CountersExact
  PendingExact
  DepsBuiltFirst
  ConcurrencyBound
  MainNeverPanics
  NothingLost
  SendNeverFails
  OkMeansBuilt
  IInv
  ReportsExact
PROPERTIES
  BuiltOnce
  ImplementsSchedule
  RunReturns
