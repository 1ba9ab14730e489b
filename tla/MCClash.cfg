SPECIFICATION Spec
CONSTANTS
  Beyond <- MCBeyond
  MAX_NAME_SIZE = 1
  QueueCapacity = 10
  FifoDepth = 16
  Codes <- MCCodes
  Spots <- MCSpots
  Notifications <- AllNotifications
INVARIANT TurnIsExclusive
CHECK_DEADLOCK FALSE
