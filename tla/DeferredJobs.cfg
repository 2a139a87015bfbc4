SPECIFICATION FairSpec
CONSTANTS
  pre = pre
  post = post
  R = R
  NoJob = NoJob
  Jobs = {pre, post}
  Repos = {R}
  RepoOf <- MCRepoOf
  PreOf <- MCPreOf
  Generations <- MCGenerations
  MaxEntries = 1
  MaxFaults = 1
  StallsInPublication = FALSE
INVARIANTS
  TypeOK
  LogOnceInOrder
  PublicationKept
  MetricsOnce
  OnePublisher
PROPERTY JobsSettle
CHECK_DEADLOCK FALSE
