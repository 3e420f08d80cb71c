SPECIFICATION Spec
CONSTANTS
  Tenants = {t1}
  Sessions = {s1, s2}
  HttpCalls = {h}
  Configs <- MCConfigs
  DefaultConfig <- MCDefault
  MaxTime = 1
SYMMETRY Symmetry
INVARIANTS
  RatesBounded
  BucketsFollow
