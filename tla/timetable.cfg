SPECIFICATION Spec
CONSTANTS
  dana = dana
  omer = omer
  Templates = {k1}
  Ids = {i1, i2, i3, i4}
  AdhocIds = {}
  Coaches = {dana, omer}
  Requests = {x1}
  Jobs = {x1}
  Weekdays = {0, 1}
  Slots = {0, 1}
  NoTemplate = NoTemplate
  NoDate = NoDate
  Horizon = 1
  MaxDay = 0
  NewTemplates <- MCNewTemplates
  Patches = {"slot", "coach"}
  Moves <- MCMoves
SYMMETRY Symmetry
INVARIANTS
  FutureFollowsTemplate
  
PROPERTIES
  CustomStays
CHECK_DEADLOCK FALSE
