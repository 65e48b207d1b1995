SPECIFICATION ServicesSpec
CONSTANTS
  k1 = k1
  k2 = k2
  NoKey = NoKey
  CacheKeys = {k1, k2}
  c1 = c1
  c2 = c2
  CacheCalls = {c1, c2}
  MemorySize = 1
  MemoryTtl = 1
  Ttls = {2}
  CommandTime = 1
  LastTime = 3
  LastVersion = 2
  u1 = u1
  u2 = u2
  FormUsers = {u1, u2}
  a1 = a1
  KeyUsers = {a1}
  ApiKeys = {k1, k2}
  s1 = s1
  Sessions = {s1}
  AuthCalls = {c1, c2}
  p1 = p1
  p2 = p2
  Processes = {p1, p2}
  NoCaller = NoCaller
  Nothing = Nothing
  UserLimits = {1, 2}
  VerifiedMax = 1
  g1 = g1
  g2 = g2
  Plugins = {g1, g2}
  Dependencies <- MCDependencies
  Copies = {1, 2, 3}
  Points = {k1, k2}
  Stores = {p1, p2}
  StoreCalls = {c1, c2}
  Gone = Gone
  Sizes = {1, 2}
  ConfiguredSize = 1
SYMMETRY Symmetry
INVARIANTS
  ServicesTypeOK
  MemoryWithinSize
  LifetimesAdd
  BackOnlyByOverlap
  RevokedKeysRefused
  DeactivatedUsersRefused
  ActiveIsRegistered
  HooksFollowActive
  LostOnlyUncounted
  MissingOnlyByFailure
PROPERTIES
  CreationIsAtomic
  VerifiedKeysBounded
CHECK_DEADLOCK FALSE
