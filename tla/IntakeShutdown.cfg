SPECIFICATION FairSpec
CONSTANTS
  Clients = {c1, c2}
  Bodies <- UnitBodies
  Syncs = {s1}
  Stop = Stop
  Task = Task
  Nobody = Nobody
  RequestLimit = 2
  ByteLimit = 2
  MaxDeferrals = 1
  MaxStalls = 2
INVARIANTS
  TypeOK
  QuotaExact
  SyncAdmits
  StopLosesNothing
  RetainedWereCounted
PROPERTIES
  ReservationsEnd
  RequestsReturn
  WedgedExits
CHECK_DEADLOCK FALSE
