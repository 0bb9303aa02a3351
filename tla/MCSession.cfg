SPECIFICATION MCSpec
CONSTANTS
  a = a
  b = b
  k1 = k1
  k2 = k2
  k3 = k3
  s1 = s1
  s2 = s2
  s3 = s3
  m1 = m1
  m2 = m2
  None = None
  Content = {a, b}
  SizeOf <- Sizes
  DigestOf <- Digests
  Name = {n1, n2}
  CacheKey = {k1, k2}
  NamespaceOf <- Namespaces
  EntryBytes = {1, 2}
  Operation = {o1}
  OperationBytes = {2}
  Snapshot = {s1, s2}
  Line = {1, 2, 3}
  ResourceOf <- Resources
  KeyBytes = 1
  RangeBytes = 1
  Mutation = {m1, m2}
  SessionLimit = 4
  ObjectLimit = 2
  MaxArtifacts = 3
  MaxOperations = 1
  MaxObjectId = 3
  MaxLate = 1
INVARIANTS
  LedgerSound
  SerialLedger
PROPERTIES
  ArtifactsImmutable
  SerialLinesKept
  ReservationsResolve
CHECK_DEADLOCK FALSE
