SPECIFICATION IsolationSpec
CONSTANTS
  default = default
  t1 = t1
  Default = default
  Tenants = {t1}
  q1 = q1
  Questions = {q1}
  Similar <- AllSimilar
  r1 = r1
  r2 = r2
  Requests = {r1, r2}
  d1 = d1
  d2 = d2
  Documents = {d1, d2}
  TopK = 1
  MaxSize = 1
  RerankSize = 1
  Deployments <- AllDeployments
  Proxied = FALSE
SYMMETRY Symmetry
PROPERTIES
  ScopesArePrivate
INVARIANTS
  TypeOK
  TenantIsolation
  CacheBounded
  StaleOnlyByRace
