CONSTANTS
  lib = lib
  app = app
  a = a
  c = c
  x = x
  y = y
  BuildId = {lib, app}
  File = {a, c, x, y}
  Scenarios <- MissingScenarios
  Graphs <- ManifestGraphs
  Parallelisms = {2}
  MaxRuns = 1
SPECIFICATION ISpec
CHECK_DEADLOCK FALSE
PROPERTIES
  NothingRunsWithInputsMissing
