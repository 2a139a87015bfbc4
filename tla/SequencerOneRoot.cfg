SPECIFICATION Spec
CONSTANTS
  Roots = {r1}
  Children = {r1}
  Families = {F, G}
  Checkpoints = {c1}
  Kinds = {"commit", "alias", "clone", "add", "status"}
  Killable = {r1}
  Ticks = {0, 1}
  GcInterval = 2
  NoFamily = NoFamily
  NoSlot = NoSlot
SYMMETRY Sym
INVARIANTS
  TypeOK
  AttributedRootFirst
  LaterCommandWaits
  ExactlyOnce
  PendingRootsWillResolve
CHECK_DEADLOCK FALSE
