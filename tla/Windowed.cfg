CONSTANTS
  N = 2
  L = 2
  Vals <- MCVals
  Tilts <- MCTilts
  Thresholds <- MCThresholds
  Self = FALSE
  S <- MCS
  O <- MCO
  LocalS <- MCLocalS
  LocalO <- MCLocalO
  Centre <- MCCentre
  Width2 <- MCWidth2
  NaN = NaN
  Cold <- MCCold
  AInit = 1
  Lanes = 1
  MaxWave = 2
  Fused = FALSE
SPECIFICATION Spec
INVARIANT ScalarsDescribeField
PROPERTY ImplementsIdeal
PROPERTY IncrementalExact
CHECK_DEADLOCK FALSE
