SPECIFICATION Spec
CONSTANTS
  o1 = o1
  o2 = o2
  o3 = o3
  o4 = o4
  o5 = o5
  Offers = {o1, o2, o3, o4, o5}
  Folders = {o2, o4}
  Empty = {o4}
  SizeOf <- MCSizes
  Paths <- MCPaths
  NameOf <- MCNames
  Numbers = {0, 1}
  Numbered <- MCNumbered
  Zip <- MCZip
  Part <- MCPart
  Present = {"a"}
  Blocked = {"e", "e(1)"}
  DiskMayFail = TRUE
  LinkMayFail = TRUE
INVARIANTS TypeOK FilesWhole CompletedIsOnDisk AcceptedHasWriter
PROPERTIES NeverReplaced TransferEnds
CHECK_DEADLOCK FALSE
