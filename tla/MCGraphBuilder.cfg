CONSTANTS
  b1 = b1
  b2 = b2
  b3 = b3
  Text <- Names
  Build = {b1, b2, b3}
  Plans <- AllPlans
SPECIFICATION GSpec
CHECK_DEADLOCK FALSE
INVARIANTS
  GTypeOK
  IdsFaithful
  
  SameHashSameBuild
  InputDigestExact
