SPECIFICATION Spec
CONSTANTS
  PKT_SIZE = 2
  MAX_DROPPED_PACKETS = 0
  PARTS = 2
  MaxTick = 7
  MaxRequests = 2
  MaxRestarts = 1
INVARIANTS
  PingPong
  PacketsNotMixed
  DiskInOrder
  DeliveredInOrder
  UnattendedLoadGoesOff
PROPERTIES
  LoadOffOnlyWhenLost
  ImplementsMailbox
