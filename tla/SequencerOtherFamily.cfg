SPECIFICATION FairSpec
CONSTANTS
  Roots = {r1}
  Children = {}
  Families = {F, G}
  Checkpoints = {c1}
  Kinds = {"commit"}
  Killable = {}
  Ticks = {1}
  GcInterval = 2
  NoFamily = NoFamily
  NoSlot = NoSlot
PROPERTY CheckpointsComplete
CHECK_DEADLOCK FALSE
