SPECIFICATION FairSpec
CONSTANTS
  Commits = {k1}
  Uploaders = {u1, u2}
  MaxVersion = 3
  MaxAttempts = 3
  MaxCrashes = 2
INVARIANTS
  TypeOK
  NoNoteLost
PROPERTY NotesSettle
CHECK_DEADLOCK FALSE
