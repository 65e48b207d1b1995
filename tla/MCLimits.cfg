SPECIFICATION LimitsSpec
CONSTANTS
  w1 = w1
  w2 = w2
  NoWorker = NoWorker
  Workers = {w1, w2}
  Kinds = {"query"}
  LastDay = 2
  Limits = {1, 2}
  i1 = i1
  i2 = i2
  i3 = i3
  s1 = s1
  s2 = s2
  s3 = s3
  Redis = Redis
  InstanceNames = {i1, i2, i3}
  SubjectNames = {s1, s2, s3}
  Calls = {w1, w2}
  Window = 2
  Cooldown = 1
  MaxTime = 6
  Deployments <- MCDeployments
SYMMETRY Symmetry
INVARIANTS
  LimitsTypeOK
  LedgerInv
  NoSlotForgotten
  ServedWithinQuota
  ForeignBounded
  WindowLimit
  GrantsAreCounted
  MemoryBounded
PROPERTIES
  ImplementsAtomicQuota
