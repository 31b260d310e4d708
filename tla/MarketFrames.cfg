SPECIFICATION FairSpec
CONSTANTS
  Instruments = {i1}
  MaxBoundary = 3
  Lookback = 3
  RecoveryLimit = 3
  MaxCrashes = 2
  MaxErrors = 0
  MaxStepBacks = 0
PROPERTIES
  ImplementsLog
  AnalysedOnce
  EveryFrameSettles
  EveryFrameAnalysed
