SPECIFICATION FairSpec
CONSTANTS
  r1 = r1
  m1 = m1
  l = l
  a = a
  b = b
  None = None
  Call = {r1, m1}
  Mutation = {m1}
  Root = {l, a, b}
  IdOf <- MCIdOf
  Launch = {l}
  ClientRoots <- MCClientRoots
  Versions = 3
INVARIANTS
  AuthoritySound
PROPERTIES
  ServedInForce
  CallsAnswered
CHECK_DEADLOCK FALSE
