CONSTANTS
  N = 3
  NNr = 2
  MaxIter = 3
  WarmOn = FALSE
  Exchange = TRUE
  Smoothed <- MCSmoothed
  Cfg <- MCCfg
  Rng <- MCRng
  Tilt <- MCTilt
  Obs <- MCObs
  ExchSeed = 1
  Fresh <- MCFresh
  Seat <- MCSeat
  Move <- MCMove
  MeanDE <- MCMeanDE
  Update <- MCUpdate
  Shrink <- MCShrink
  Q <- MCQ
  Sure <- MCSure
  Lucky <- MCLucky
  Draw <- MCDraw
  Walker <- MCWalker
  RmBudgets <- MCBudgets
  Every = 1
  Checkpointing = TRUE
  Lanes = 1
  MaxLaunch = 3
  NoFile = NoFile
  NoObs = NoObs
SPECIFICATION HFairSpec
INVARIANT BitExactResume
PROPERTY Finishes
CHECK_DEADLOCK FALSE
