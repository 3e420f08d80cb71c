SPECIFICATION Spec
CONSTANTS
  c = c
  p = p
  NoTarget = NoTarget
  Tenants = {t1}
  Channels = {c}
  Patterns = {p}
  Match <- MCMatch
  Ids = {m1}
  Receivers = {r1}
  Publishers = {p1}
  HistoryCapacity = 1
  MaxSenders = 3
INVARIANT PublishReachesSubscribers
