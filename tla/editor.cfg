SPECIFICATION Spec
CONSTANTS
  MaxSends = 2
  MaxOthers = 1
INVARIANTS
  TypeOK
  OwnWritesShown
  LongEnough

  
  
CHECK_DEADLOCK FALSE
