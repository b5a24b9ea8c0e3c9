CONSTANTS
  name1 = name1
  name2 = name2
  bytes1 = bytes1
  Names = {name1, name2}
  Data = {bytes1}
  Sizes = {1}
  MAX_FILES = 3
  MAX_BLOCKS_PER_FILE = 2
  TOTAL_BLOCKS = 6
  META_BLOCKS = 1
  ENTRIES_PER_BLOCK = 3
  BITS_PER_BLOCK = 4
  BadSectors = {{}}
  CrashDuring = {}
  CALLS_AFTER_FAULT = 2
SPECIFICATION Spec
INVARIANTS
  BlocksOwnedOnce
SYMMETRY Symmetry
CHECK_DEADLOCK FALSE
