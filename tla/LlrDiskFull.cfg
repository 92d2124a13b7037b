CONSTANTS
  N = 2
  NNr = 1
  MaxIter = 3
  WarmOn = TRUE
  Exchange = TRUE
  Smoothed = FALSE
  Cfg <- MCCfg
  Rng <- MCRng
  Tilt <- MCTilt
  Obs <- MCObs
  ExchSeed = 1
  Fresh <- MCFresh
  Seat <- MCSeat
  Move <- MCMove
  MeanDE <- MCMeanDE
  Update <- MCUpdate
  Shrink <- MCShrink
  Q <- MCQ
  Sure <- MCSure
  Lucky <- MCLucky
  Draw <- MCDraw
  Walker <- MCWalker
  RmBudgets <- MCBudgets
  Every = 2
  Checkpointing = TRUE
  Lanes = 2
  MaxLaunch = 2
  NoFile = NoFile
  NoObs = NoObs
SPECIFICATION FullSpec
PROPERTY AtomicOverwrite
CHECK_DEADLOCK FALSE
