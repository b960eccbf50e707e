CONSTANTS
  MaxPieces = 3
  MaxDepth = 3
  Endless = Endless
  Mains <- AllMains
  Included <- Files
SPECIFICATION FairSpec
CHECK_DEADLOCK FALSE
INVARIANTS
  TypeOK
  ParsedAsWritten
PROPERTIES
  ParserEnds
