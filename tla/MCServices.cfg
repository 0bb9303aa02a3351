SPECIFICATION ServicesSpec
CONSTANTS
  Call = {l1, l2, l3}
  Key = {1, 2}
  Mutex = {m1, m2, m3}
  None = None
  Commands = {c1, c2}
  Permits = 1
  Immune = {c2}
  Levels = {0, 2}
  EventKinds <- MCEventKinds
  QueueDepth = 1
  RotationUnits = 1
  Retained = 3
  MaxEvents = 3
  MaxRecords = 4
  MaxFaults = 1
  Calls = {callA, callB, callC}
  Ids = {id, other}
  IdOf <- MCIdOf
  Mutations = {callB}
  callA = callA
  callB = callB
  callC = callC
  id = id
  other = other
INVARIANTS
  TreesAccounted
  LogInOrder
  CancelledForCause
PROPERTIES
  ImplementsLocks
  LocksGranted
  CallsReturn
CHECK_DEADLOCK FALSE
