SPECIFICATION FairSpec
CONSTANTS
  dana = dana
  omer = omer
  Templates = {k1}
  Ids = {i1, i2, i3}
  AdhocIds = {a1}
  Coaches = {dana}
  Requests = {x1}
  Jobs = {x2}
  Weekdays = {0, 1}
  Slots = {0}
  NoTemplate = NoTemplate
  NoDate = NoDate
  Horizon = 1
  MaxDay = 1
  NewTemplates <- MCNewTemplates
  Patches = {"weekdays"}
  Moves = {}
INVARIANTS
  TypeOK
  
PROPERTIES
  CancelledStays
  HorizonCatchesUp
CHECK_DEADLOCK FALSE
