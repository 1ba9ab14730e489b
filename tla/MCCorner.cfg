SPECIFICATION CornerSpec
CONSTANTS
  Beyond <- MCBeyond
  MAX_NAME_SIZE = 1
  QueueCapacity = 10
  FifoDepth = 16
  Codes <- MCCodes
  Spots <- CornerSpots
  Notifications <- MouseAndTimer
INVARIANT EveryMoveIsCommunicated
CHECK_DEADLOCK FALSE
