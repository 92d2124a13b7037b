CONSTANTS
  N = 4
  NNr = 2
  MaxIter = 3
  WarmOn = TRUE
  Exchange = TRUE
  Smoothed <- MCPlain
  Cfg <- MCCfg
  Rng <- MCRng
  Tilt <- MCTilt
  Obs <- MCObs
  ExchSeed = 1
  Fresh <- MCFresh
  Seat <- MCSeat
  Move <- MCMove
  MeanDE <- MCMeanDE
  Update <- MCUpdate
  Shrink <- MCShrink
  Q <- MCQ
  Sure <- MCSure
  Lucky <- MCLucky
  Draw <- MCDraw
  Walker <- MCWalker
  RmBudgets <- MCBudgets
  Every = 2
  Checkpointing = TRUE
  Lanes = 2
  MaxLaunch = 3
  NoFile = NoFile
  NoObs = NoObs
SPECIFICATION HSpec
INVARIANT TypeOK
INVARIANT LiveNeverTruncated
INVARIANT WalkersPermuted
INVARIANT EnergyFollowsField
INVARIANT LossBounded
PROPERTY ImplementsSerial
CHECK_DEADLOCK FALSE
