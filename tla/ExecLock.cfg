SPECIFICATION FairSpec
CONSTANTS
  Drains = {d1, d2, d3}
  Families = {F, G}
  Locks = {l1, l2, l3}
  NoLock = NoLock
INVARIANTS
  MutualExclusion
  HandlesCurrent
PROPERTY DrainsServed
