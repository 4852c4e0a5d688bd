SPECIFICATION AppSpec
CONSTANTS
  o1 = o1
  o2 = o2
  Offers = {o1, o2}
  SizeOf <- MCTwo
  ProgressCap = 3
  OfferCap = 1
  EntriesCap = 1
  MaxEntries = 2
  AnswerMayFail = TRUE
  DiskMayFail = TRUE
  LinkMayFail = TRUE
INVARIANTS TypeOK
PROPERTIES OffersReachUi ProgressReachesUi NothingHangs
CHECK_DEADLOCK FALSE
