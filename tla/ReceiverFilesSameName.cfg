SPECIFICATION Safety
CONSTANTS
  o1 = o1
  o2 = o2
  o3 = o3
  o4 = o4
  o5 = o5
  Offers = {o1, o2}
  Folders = {}
  Empty = {}
  SizeOf <- MCTwoSizes
  Paths <- MCPaths
  NameOf <- MCTwo
  Numbers = {0, 1}
  Numbered <- MCNumbered
  Zip <- MCZip
  Part <- MCPart
  Present = {}
  Blocked = {}
  DiskMayFail = FALSE
  LinkMayFail = FALSE
INVARIANTS FilesWhole
CHECK_DEADLOCK FALSE
