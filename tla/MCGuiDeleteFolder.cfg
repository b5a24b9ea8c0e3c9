CONSTANTS
  Apps <- Programs
  MAX_WINDOWS = 2
  MAX_IDS = 3
  Users <- Workers
  Names = {"a", "b"}
  Texts = {"", "one"}
  MAX_FILES = 4
  MAX_ENTRIES = 4
  ENTRIES_PER_BLOCK = 3
SPECIFICATION Spec
PROPERTY
  OnlyEmptyFoldersGo
CHECK_DEADLOCK FALSE
