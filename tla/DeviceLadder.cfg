CONSTANTS
  NRep = 3
  NBase = 1
  Batch = 1
  MaxBatches = 2
  NTherm = 0
  NMeas = 2
  NNr = 1
  NRm = 2
  Exchange = TRUE
  MaxRamp = 1
  None = None
  Mixed = Mixed
SPECIFICATION Spec
INVARIANT WindowsPermuted
INVARIANT RowsGroupByWindow
PROPERTY UpdatesUseTheirBlock
PROPERTY Finishes
CHECK_DEADLOCK FALSE
