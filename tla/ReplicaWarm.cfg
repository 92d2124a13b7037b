CONSTANTS
  En = 7
  Delta = 3
  NTherm = 1
  Batch = 2
  MaxTraj = 7
  Threshold = 1
  Qs = {0, 1, 4, 6, 7, 9}
  MaxMeasured = 1
SPECIFICATION Spec
INVARIANTS WindowRestored NoEmptyBatch BudgetKept
PROPERTIES HopsSmall Ends
CHECK_DEADLOCK FALSE
