SPECIFICATION Safety
CONSTANTS
  Streams = {s1}
  Controls = {c1}
  FileKinds <- MCLarge
  ControlLen = 2
  BufSize = 3
  WritesMayFail = FALSE
INVARIANTS FramesContiguous
CHECK_DEADLOCK FALSE
