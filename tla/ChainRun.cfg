CONSTANTS
  Kinds <- MCKinds
  Outs = {a, b}
  Widths = {1, 2}
  NTherm = 1
  MeasEvery = 2
  Block = 2
  CheckpointEvery = 1
  Goals = {3, 4}
  MaxLaunches = 3
  Cold = 0
  Fields <- MCFields
  Rngs <- MCRngs
  Seeded <- MCSeeded
  Step <- MCStep
  S <- MCS
  Chain <- MCChain
SPECIFICATION Spec
INVARIANTS BitExactResume CheckpointsExact RowsExact CleanCoversGrid SourceIntact
CHECK_DEADLOCK FALSE
