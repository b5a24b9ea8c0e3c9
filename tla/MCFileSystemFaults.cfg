CONSTANTS
  name1 = name1
  name2 = name2
  bytes1 = bytes1
  Names = {name1, name2}
  Data = {bytes1}
  Sizes = {0, 1, 3}
  MAX_FILES = 3
  MAX_BLOCKS_PER_FILE = 2
  TOTAL_BLOCKS = 6
  META_BLOCKS = 1
  ENTRIES_PER_BLOCK = 3
  BITS_PER_BLOCK = 6
  BadSectors = {{}, {5}}
  CrashDuring = {"other"}
  CALLS_AFTER_FAULT = 2
SPECIFICATION Spec
INVARIANTS
  TypeOK
  BlocksOwnedOnce
  DiskAgrees
  TreeOK
  WalkEnds
PROPERTIES
  BystandersStay
SYMMETRY Symmetry
CHECK_DEADLOCK FALSE
