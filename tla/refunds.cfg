SPECIFICATION Spec
CONSTANTS
    ann = ann
    bob = bob
    annSub = annSub
    monthly = monthly
    Members = {ann}
    Payments = {p1, p2, p3}
    Sessions = {x1}
    Methods = {cash, card}
    Subs = {annSub}
    Plans = {monthly}
    Owner <- MCOwner
    PlanOf <- MCPlanOf
    NoPayment = NoPayment
    NoSub = NoSub
    NoSummary = NoSummary
    MaxCents = 2
    DaysPerMonth = 1
    MaxDay = 1
SYMMETRY Symmetry
CHECK_DEADLOCK FALSE
INVARIANTS RefundsWithinOriginal FiguresAgree
