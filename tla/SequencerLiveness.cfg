SPECIFICATION FairSpec
CONSTANTS
  Roots = {r1}
  Children = {}
  Families = {F}
  Checkpoints = {c1, c2}
  Kinds = {"commit"}
  Killable = {r1}
  Ticks = {0}
  GcInterval = 2
  NoFamily = NoFamily
  NoSlot = NoSlot
INVARIANTS
  CheckpointsInReceiptOrder
  ExactlyOnce
PROPERTY CheckpointsComplete
CHECK_DEADLOCK FALSE
