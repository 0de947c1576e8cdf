CONSTANTS
  Ids = {1, 2}
  MIN_CONNECTION_LIFETIME = 3
  WEAK_CONNECTION_RECEIVE_TIMEOUT = 1
  CONNECTION_WRITE_TIMEOUT = 4
  CONNECTION_WRITE_CONNECT_TIMEOUT = 2
  CONNECTION_WRITE_CONNECT_FAILURES = 2
  CONNECTION_RESPONSE_TIMEOUT = 2
  MINIMUM_RTT = 0
  MAXIMUM_RTT = 1
SPECIFICATION LSpec
CHECK_DEADLOCK FALSE
INVARIANTS
  ProvenSincePrune
PROPERTIES
  ResponseKeepsWritable
  SilentIsDeleted
