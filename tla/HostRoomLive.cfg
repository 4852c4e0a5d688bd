SPECIFICATION Spec
CONSTANTS
  p1 = p1
  p2 = p2
  t1 = t1
  Peers = {p1, p2}
  Transfers = {t1}
  Chunks = 1
  ProgressCap = 12
  LinksMayFail = FALSE
PROPERTIES SettledIsDropped SendSettles RoomStaysOpen
CHECK_DEADLOCK FALSE
