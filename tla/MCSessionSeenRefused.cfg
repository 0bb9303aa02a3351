SPECIFICATION Spec
CONSTANTS
  a = a
  b = b
  k1 = k1
  k2 = k2
  k3 = k3
  s1 = s1
  s2 = s2
  s3 = s3
  m1 = m1
  m2 = m2
  None = None
  Content = {}
  SizeOf <- Sizes
  DigestOf <- Digests
  Name = {}
  CacheKey = {k1, k2}
  NamespaceOf <- Namespaces
  EntryBytes = {2}
  Operation = {}
  OperationBytes = {1, 2}
  Snapshot = {s1, s2}
  Line = {1, 2}
  ResourceOf <- Resources
  KeyBytes = 1
  RangeBytes = 1
  Mutation = {m1}
  SessionLimit = 6
  ObjectLimit = 2
  MaxArtifacts = 2
  MaxOperations = 1
  MaxObjectId = 2
  MaxLate = 0
INVARIANTS
  SeenRefusedOnlyWithoutCache
CHECK_DEADLOCK FALSE
