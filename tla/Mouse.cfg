SPECIFICATION Spec
CONSTANTS
  HRes = 800
  VRes = 600
  Flags = {8, 57}
  Moves = {1, 8}
  Errors = {FALSE, TRUE}
  PacketSize = 12
  Neighbours = {"i", "valid_packet", "updateMouse"}
  Strays = {32767}
INVARIANT ReadsIntoPacket
CHECK_DEADLOCK FALSE
