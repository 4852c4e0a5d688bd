SPECIFICATION Safety
CONSTANTS
  p1 = p1
  p2 = p2
  t1 = t1
  Peers = {p1, p2}
  Transfers = {t1}
  Chunks = 1
  ProgressCap = 2
  LinksMayFail = TRUE
SYMMETRY Symmetry
INVARIANTS TypeOK NoLostSettlement ChunksOnlyAfterAccept
CHECK_DEADLOCK FALSE
