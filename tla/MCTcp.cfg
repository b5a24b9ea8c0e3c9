CONSTANTS
  MAX_CONNS = 2
  MAX_WRITE = 1
  MAX_SEND = 0
  SYN_RETRY_TICKS = 1
  MAX_RETRIES = 0
  MAX_TO_PEER = 1
  MAX_TO_US = 2
SPECIFICATION Spec
INVARIANTS
  TypeOK
PROPERTIES
  ImplementsStream
CHECK_DEADLOCK FALSE
