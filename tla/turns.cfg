SPECIFICATION Spec
CONSTANTS
  pass = pass
  monthly = monthly
  Members = {m1}
  Subs = {s1, s2, s3}
  Plans = {pass, monthly}
  OnSale = {pass, monthly}
  OneTime = {pass}
  PlanDays <- MCPlanDays
  Sessions = {x1}
  NoDate = NoDate
  NoSub = NoSub
  MaxDay = 2
  MaxPaid = 3
SYMMETRY Symmetry
INVARIANTS
  CancelledOnce
PROPERTIES
  FollowsDocumentedLifecycle
  
  FreezeKeepsDaysLeft
  SuccessorIsFinal
CHECK_DEADLOCK FALSE
