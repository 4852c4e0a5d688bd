SPECIFICATION SystemSpec
CONSTANTS
  NumChunks = 4
  ChunkChCap = 2
  ReadsMayFail = TRUE
  WritesMayFail = TRUE
  Sizes = {5, 7, 8, 9}
  DiskMayFail = TRUE
  LinkMayFail = TRUE
INVARIANTS TypeOK ChunksInOrder OffsetIsWritten CompletedIsSent ReaderLeaksOnlyOnFailure
           RealNameIsWhole
PROPERTIES DeliverySpec FileDeliverySpec
CHECK_DEADLOCK FALSE
