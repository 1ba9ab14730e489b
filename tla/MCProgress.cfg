SPECIFICATION ProgressSpec
CONSTANTS
  Beyond <- MCBeyond
  MAX_NAME_SIZE = 1
  QueueCapacity = 10
  FifoDepth = 16
  Codes <- ProgressCodes
  Spots <- ProgressSpots
  Notifications <- ProgressNotifications
INVARIANTS TypeOK OppositeColours
PROPERTIES HandshakeCompletes ColourArrives TurnArrives LoserIsTold
CHECK_DEADLOCK FALSE
