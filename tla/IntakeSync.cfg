SPECIFICATION Spec
CONSTANTS
  Clients = {c1, c2}
  Bodies <- MCBodies
  Syncs = {s1}
  Stop = Stop
  Task = Task
  Nobody = Nobody
  RequestLimit = 2
  ByteLimit = 3
  MaxDeferrals = 1
  MaxStalls = 2
INVARIANT SyncProcesses
CHECK_DEADLOCK FALSE
