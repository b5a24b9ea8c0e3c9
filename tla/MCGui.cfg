CONSTANTS
  Apps <- Programs
  MAX_WINDOWS = 2
  MAX_IDS = 3
  Users <- Everybody
  Names = {"a", "b"}
  Texts = {"", "one"}
  MAX_FILES = 4
  MAX_ENTRIES = 4
  ENTRIES_PER_BLOCK = 3
SPECIFICATION Spec
INVARIANTS
  ClickHasOneOwner
  WindowOfItsApp
  ListingIsCurrent
  CleanMeansSaved
PROPERTIES
  DragKeepsItsWindow
  DeletesWhatWasConfirmed
CHECK_DEADLOCK FALSE
