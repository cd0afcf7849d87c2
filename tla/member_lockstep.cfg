SPECIFICATION Spec
CONSTANTS
  pass = pass
  monthly = monthly
  Members = {m1}
  Subs = {s1, s2}
  Plans = {pass, monthly}
  OnSale = {pass, monthly}
  OneTime = {pass}
  PlanDays <- MCPlanDays
  Sessions = {x1}
  NoDate = NoDate
  NoSub = NoSub
  MaxDay = 1
  MaxPaid = 2
INVARIANT
  LiveSetsStatus
CHECK_DEADLOCK FALSE
