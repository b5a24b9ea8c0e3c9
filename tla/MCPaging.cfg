CONSTANTS
  low = low
  high = high
  code = code
  heap = heap
  stack = stack
  Junk = Junk
  Zero = Zero
  FRAMES = 12
  Regions = {0, 1}
  Firmware = {3}
  PAGING_STRUCT = 1
  Low = low
  High = high
  UserSlots <- Slots3
  CodePages <- CodePages2
  HeapPage <- HeapPage1
  Touched <- Touched5
SPECIFICATION Spec
INVARIANTS
  FramesHaveOneUse
  PagesKeepTheirBytes
CHECK_DEADLOCK FALSE
