SPECIFICATION Spec
CONSTANTS
  Searches = {"", "a"}
  First = ""
  MaxPage = 1
  NoSearch = "no search"
  Members = {"ann", "bob"}
  Classes = {"yoga", "spin"}
  Plans <- MCPlans
  Finds <- MCFinds
  MaxEntries = 2
  Shared = {"ann"}
  NoMember = "nobody"
INVARIANTS
  TypeOK
PROPERTIES
  
  ShownIsServed
