SPECIFICATION Spec
CONSTANTS
  p1 = p1
  p2 = p2
  t1 = t1
  Peers = {p1, p2}
  Transfers = {t1}
  Chunks = 2
  ProgressCap = 2
  LinksMayFail = FALSE
PROPERTIES SlowConsumerNeverStalls
CHECK_DEADLOCK FALSE
