CONSTANTS
  b1 = b1
  b2 = b2
  b3 = b3
  x = x
  y = y
  z = z
  p = p
  q = q
  BuildId = {b1, b2, b3}
  Name = {x, y, z, p, q}
  NinjaFiles <- AllNinjaFiles
  TargetLists <- Targets
SPECIFICATION FairSpec
CHECK_DEADLOCK FALSE
INVARIANTS
  TypeOK
  EdgesExact
  NoInputForgotten
  PendingInputsExact
  AcceptedIsBuildable
  TargetsExact
  NamesMeanTheSame
PROPERTIES
  FrontEndEnds
