SPECIFICATION DeskSpec
CONSTANTS
  MaxAsks = 2
  Switchable = {"coaches"}
  Desks <- Everything
  Restless = {"login"}
  Doubled = {"member", "coach", "payment", "session"}
INVARIANTS
  DeskTypeOK
  
  SettledAgree
  PageIsAdmitted

  
  
CHECK_DEADLOCK FALSE
