SPECIFICATION Spec
CONSTANTS
  Beyond <- MCBeyond
  MAX_NAME_SIZE = 1
  QueueCapacity = 8
  FifoDepth = 8
  Codes <- MCCodes
  Spots <- MCSpots
  Notifications <- MCNotifications
INVARIANTS NoByteIsDropped OneTurn BoardsAgree DragIsCurrent NoNullMove KingGoneMeansOver NoPieceTwice VerdictsAgree
PROPERTY MovesAreChess
CONSTRAINT FirstChooses
CHECK_DEADLOCK FALSE
