CONSTANTS
  MAX_CONNS = 1
  MAX_WRITE = 1
  MAX_SEND = 1
  SYN_RETRY_TICKS = 2
  MAX_RETRIES = 1
  MAX_TO_PEER = 1
  MAX_TO_US = 1
SPECIFICATION FairSpec
INVARIANTS
  AcksWhatWasRead
  EndIsReported
  CloseWaitIsHandled
PROPERTIES
  HalfOpenEnds
CHECK_DEADLOCK FALSE
