SPECIFICATION Safety
CONSTANTS
  NumChunks = 2
  ChunkChCap = 2
  ReadsMayFail = TRUE
  WritesMayFail = FALSE
INVARIANTS CompletedIsWhole
CHECK_DEADLOCK FALSE
