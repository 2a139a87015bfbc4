SPECIFICATION FairSpec
CONSTANTS
  Readers = {s1, s2}
  Fences = {w1}
  Capacity = 2
  MaxFrames = 2
INVARIANTS
  TypeOK
  NoGapNoDuplicate
PROPERTIES
  ImplementsIngestOrder
  FenceReleased
CHECK_DEADLOCK FALSE
