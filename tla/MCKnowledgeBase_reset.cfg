SPECIFICATION Spec
CONSTANTS
  default = default
  t1 = t1
  Default = default
  Tenants = {t1}
  q1 = q1
  q2 = q2
  Questions = {q1, q2}
  Similar <- AllSimilar
  r1 = r1
  r2 = r2
  Requests = {r1, r2}
  d1 = d1
  Documents = {d1}
  TopK = 1
  MaxSize = 2
  RerankSize = 1
  Deployments <- KeywordDeployments
  Proxied = TRUE
INVARIANTS
  ResetClears
