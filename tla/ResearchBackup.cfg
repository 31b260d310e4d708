\* The registration, a shard still to be generated and one that no longer can be.
\* MaxBytes is below the archive's size, so the recovery test takes a sample.
SPECIFICATION Spec
CONSTANTS
  NumItems = 3
  Expired = {3}
  Reverify = 2
  Interval = 1
  RecoveryInterval = 1
  BackupOverdue = 1
  MaxPerPass = 1
  MaxBytes = 2
  LongestJob = 1
  MaxFaults = 1
  MaxSessions = 1
INVARIANTS
  VerifiedWasWhole
  DamageDoesNotSpread
PROPERTIES
  ProtectedOrReported
