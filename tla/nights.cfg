SPECIFICATION NSpec
CONSTANTS
  Members = {m1, m2}
  Subs = {s1, s2}
  Plans = {p1}
  OnSale = {p1}
  OneTime = {}
  PlanDays <- MCPlanDays
  Sessions = {x1, x2}
  NoDate = NoDate
  NoSub = NoSub
  MaxDay = 1
  MaxPaid = 0
  MaxRequests = 4
PROPERTIES
  OverdueIsExpired
  EndedFreezeIsLifted
CHECK_DEADLOCK FALSE
