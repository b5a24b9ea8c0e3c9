CONSTANTS
  SYN_TICKS = 1
  People <- Everyone
  Layouts <- Cuts
  HEADER = 1
  RESP_MAX = 2
  RING = 4
  TIMEOUT = 1
  DNS_TICKS = 1
  DNS_TRIES = 2
  MAX_REDIRECTS = 1
  MSG_UNITS = 2
  RX_RING = 2
  SENT_MAX = 1
  SMTP_TIMEOUT = 1
SPECIFICATION Spec
INVARIANTS
  NoLeakedConnection
  PageIsWhole
  TlsAgrees
  SentIsAccepted
PROPERTIES
  OneAtATimeIsSafe
  EverythingEnds
CHECK_DEADLOCK FALSE
