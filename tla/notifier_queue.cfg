SPECIFICATION NotifierFairSpec
CHECK_DEADLOCK FALSE
CONSTANTS
  MaxMessages = 4
  QueueSize = 2
  MaxRetries = 2
  Cancels = TRUE
INVARIANT QueueInv
PROPERTY PostedOnce
PROPERTY MeshHears
