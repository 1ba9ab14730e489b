SPECIFICATION EndingSpec
CONSTANTS
  Beyond <- MCBeyond
  MAX_NAME_SIZE = 1
  QueueCapacity = 10
  FifoDepth = 16
  Codes <- MCCodes
  Spots <- EndingSpots
  Notifications <- MouseAndTimer
PROPERTY WinnerIsTold
CHECK_DEADLOCK FALSE
