SPECIFICATION Spec
CONSTANTS
  Searches = {"", "a"}
  First = ""
  MaxPage = 1
  NoSearch = "no search"
  Members = {"ann", "bob"}
  Classes = {"yoga", "spin"}
  Plans <- MCPlansWithNoRules
  Finds <- MCFinds
  MaxEntries = 2
  Shared = {"ann"}
  NoMember = "nobody"
INVARIANT
  NoRulesNoLimit
