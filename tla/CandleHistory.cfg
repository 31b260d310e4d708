SPECIFICATION FairHistorySpec
CONSTANTS
  NumSlots = 4
  Durations = {2}
  Versions = {1, 2}
  Writers = {"live", "rest"}
  MaxFailures = 1
  Discovered = 3
  Retention = 3
  PageSize = 1
  Buffer = 1
  MaxGaps = 1
  MaxLate = 1
  MaxApiErrors = 1
INVARIANTS
  NoSilentGap
  OnlyDiscoveryCandleForming
PROPERTIES
  CatchesUp
  BootstrapEnds
  WatermarksOnlyExtend
