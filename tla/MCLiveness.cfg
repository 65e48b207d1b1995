SPECIFICATION PartsSpec
CONSTANTS
  w1 = w1
  w2 = w2
  NoWorker = NoWorker
  Workers = {w1, w2}
  Kinds = {"query", "document"}
  LastDay = 1
  Limits = {1}
  r1 = r1
  r2 = r2
  Requests = {r1, r2}
  FailureThreshold = 2
  SuccessThreshold = 2
  RecoveryTimeout = 2
  DegradedAt = 1
  CriticalAt = 2
  MostErrors = 3
  MostWins = 3
INVARIANTS
  BreakerTypeOK
PROPERTIES
  RequestsEnd
  ClosesByProbes
  ReopensOnFailure
  RecoveryComes
