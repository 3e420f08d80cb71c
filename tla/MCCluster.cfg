SPECIFICATION FairSpec
CONSTANTS
  i1 = i1
  i2 = i2
  s1 = s1
  s2 = s2
  u = u
  Instances = {i1, i2}
  Sessions = {s1, s2}
  Home <- MCHome
  Names = {u}
  Subscribed <- MCSubscribed
  OutboundCapacity = 1
  Script <- MCScript
INVARIANTS
  DeliveredOncePerInstance
  SessionOrderKept
  PushedAtMostOnce
  StreamHoldsDeliveries
PROPERTY ReachesEveryInstance
CHECK_DEADLOCK FALSE
