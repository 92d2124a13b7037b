CONSTANTS
  Chunk = 3
  MaxRows = 8
  MaxFaults = 3
SPECIFICATION Spec
INVARIANT RowsKept
INVARIANT ClosedIsComplete
CHECK_DEADLOCK FALSE
