SPECIFICATION Spec
CONSTANTS
  Streams = {s1, s2}
  Controls = {c1}
  FileKinds <- MCBoth
  ControlLen = 2
  BufSize = 3
  WritesMayFail = TRUE
INVARIANTS TypeOK StreamsKeepOrder ControlFramesWhole
PROPERTIES WritesEnd EverythingArrives
CHECK_DEADLOCK FALSE
