SPECIFICATION MCSpec
CONSTANTS
  NumSlots = 4
  Durations = {2, 4}
  Versions = {1, 2}
  Writers = {"live", "rest"}
  MaxFailures = 1
INVARIANTS
  OnlyCompleteWindows
  CompleteWindowsStored
  CurrentUnlessOverlapped
PROPERTIES
  RederivesTouched
