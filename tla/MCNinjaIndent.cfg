CONSTANTS
  MaxPieces = 3
  MaxDepth = 3
  Endless = Endless
  Mains <- AllMains
  Included <- Files
SPECIFICATION Spec
CHECK_DEADLOCK FALSE
INVARIANTS
  IndentationSeen
