CONSTANTS
  Jobs <- MCJobs
  K = 4
  MaxGrid = 2
SPECIFICATION Spec
INVARIANTS StencilsExact SumsCountOnce ForcesAreGradients SweepsSequential TrajectoryExact AlgebraExact StreamsExact
CHECK_DEADLOCK FALSE
