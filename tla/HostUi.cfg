SPECIFICATION UiSpec
CONSTANTS
  Dirs <- MCDirs
  Listing <- MCListing
  Parent <- MCParent
  Home = "home"
  Peers = {p1, p2}
  ProgressCap = 1
  EventCap = 1
  MaxOffers = 1
  MaxCopies = 2
  MaxTools = 2
  Typed <- MCTyped
  Budgets <- MCBudgets
INVARIANTS CopyReportIsTrue RowsAreNamed PathsListed
PROPERTIES UiCatchesUp
CHECK_DEADLOCK FALSE
