SPECIFICATION Spec
CONSTANTS
  Instruments = {i1}
  MaxBoundary = 3
  Lookback = 2
  RecoveryLimit = 1
  MaxCrashes = 2
  MaxErrors = 2
  MaxStepBacks = 1
INVARIANTS
  TypeOK
  PublishedInOrder
  PublishedWasAnalysed
  StartupResolves
PROPERTIES
  TerminalRowFrozen
