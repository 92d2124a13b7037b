CONSTANTS
  NRep = 3
  NBase = 1
  Batch = 1
  MaxBatches = 2
  NTherm = 1
  NMeas = 1
  NNr = 1
  NRm = 2
  Exchange = TRUE
  MaxRamp = 0
  None = None
  Mixed = Mixed
SPECIFICATION Spec
INVARIANT NeighboursExchanged
CHECK_DEADLOCK FALSE
