SPECIFICATION Spec
CONSTANTS
  Commits = {k1}
  Uploaders = {u1}
  MaxVersion = 2
  MaxAttempts = 2
  MaxCrashes = 0
INVARIANT SyncedIsCurrent
CHECK_DEADLOCK FALSE
