SPECIFICATION PawnSpec
CONSTANTS
  Beyond <- MCBeyond
  MAX_NAME_SIZE = 1
  QueueCapacity = 10
  FifoDepth = 16
  Codes <- MCCodes
  Spots <- PawnSpots
  Notifications <- WithKeys
PROPERTY PawnsDoubleStepFromHome
CHECK_DEADLOCK FALSE
