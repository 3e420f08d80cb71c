SPECIFICATION Spec
CONSTANTS
  c = c
  p = p
  NoTarget = NoTarget
  Tenants = {t1, t2}
  Channels = {c}
  Patterns = {p}
  Match <- MCMatch
  Ids = {m1, m2}
  Receivers = {r1, r2}
  Publishers = {p1, p2}
  HistoryCapacity = 1
  MaxSenders = 3
INVARIANTS
  ExactSubscribersMapped
  AudienceReached
  ReportsAgreeWithFeed
PROPERTIES
  KeepsPromise
SYMMETRY Symmetry
