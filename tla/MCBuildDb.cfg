CONSTANTS
  c1 = c1
  c2 = c2
  lib = lib
  app = app
  x = x
  y = y
  z = z
  v1 = v1
  v2 = v2
  None = None
  Client = {c1, c2}
  Build = {lib, app}
  Path = {x, y, z}
  Outs <- OutsOfBoth
  Version = {v1, v2}
  Backends = {"in_memory", "dumb", "redb", "heed"}
SPECIFICATION Spec
SYMMETRY Symmetry
INVARIANTS
  TypeOK
  ReadsAllOrNothing
  DiskAllOrNothing
  CommittedStays
PROPERTIES
  ImplementsRecordStore
