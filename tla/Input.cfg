SPECIFICATION InputSpec
CONSTANTS
  HRes = 13
  VRes = 21
  Flags = {41}
  Moves = {1, 41}
  Errors = {FALSE, TRUE}
  PacketSize = 4
  Neighbours = {"updateMouse"}
  Strays = {32767}
  Codes = {142, 156}
  Flagged = {FALSE, TRUE}
  MAX_NAME_SIZE = 1
  EventCapacity = 100
INVARIANTS InputTypeOK CursorOnScreen NoByteLeftBehind OneEventPerDevice ScancodeFits NameIsTerminated
INVARIANTS OnlyErrorsOverrun 
PROPERTIES StaysAligned QuietPacketAligns MouseIsSilenced ImplementsMouse
CHECK_DEADLOCK FALSE
