SPECIFICATION FairSpec
CONSTANTS
  NumDays = 2
  Workers = {w1, w2}
  Dirs = {1, 2}
  Broken = {1}
  MaxAttempts = 1
  MaxLosses = 1
  MaxFailures = 1
PROPERTIES
  NoLatePublication
  EveryDayPreserved
