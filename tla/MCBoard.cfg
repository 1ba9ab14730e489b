SPECIFICATION Spec
CONSTANTS
  Beyond <- MCBeyond
  Movers = {0, 1, 2, 3, 4, 8, 48, 57, 58, 59, 60, 63}
  Blockers = {4, 52}
  MoverSquares = {0, 7, 11, 15, 27, 35, 48, 52, 56, 63}
  MaxBlockers = 1
INVARIANTS AcceptedMovesAreChess ChessMovesAreAccepted
CHECK_DEADLOCK FALSE
