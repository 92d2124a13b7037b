CONSTANTS
  Shapes <- MCShapes
  Kinds = {"hmc", "site", "link"}
  Requests = {0, 2}
  PerThread = {1, 2}
  Ambients = {1, 3}
  Hot <- MCHot
  Move <- MCMove
  Drift <- MCDrift
  Plus <- MCPlus
  Zero = 0
  MaxSteps = 2
SPECIFICATION Spec
INVARIANTS SlabsTile StreamsStayBound NoRace DrawsUsedOnce StepExact SumExact
