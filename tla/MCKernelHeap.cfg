\* Seven minimal blocks, requests of one, two and three of them.
CONSTANTS
  HEAP_SIZE = 112
  REQUESTS = {0, 1, 4, 5, 21}
SPECIFICATION Spec
INVARIANTS
  TypeOK
  WellFormed
  AllFreedIsWhole
  WalksAgree
PROPERTY Implements
