SPECIFICATION Spec
CONSTANTS
  pass = pass
  monthly = monthly
  Members = {m1}
  Subs = {s1, s2, s3}
  Plans = {pass, monthly}
  OnSale = {pass, monthly}
  OneTime = {pass}
  PlanDays <- MCPlanDays
  Sessions = {x1, x2}
  NoDate = NoDate
  NoSub = NoSub
  MaxDay = 1
  MaxPaid = 0
SYMMETRY Symmetry
INVARIANTS
  TypeOK
  
  
  ReplacedHasSuccessor
PROPERTIES
  TerminalIsFinal
  FollowsRacedLifecycle
CHECK_DEADLOCK FALSE
