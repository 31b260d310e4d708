SPECIFICATION Spec
CONSTANTS
  NumDays = 2
  Workers = {w1, w2}
  Dirs = {1, 2, 3, 4}
  Broken = {}
  MaxAttempts = 2
  MaxLosses = 0
  MaxFailures = 2
PROPERTIES
  ImplementsArchive
  FailuresRemembered
