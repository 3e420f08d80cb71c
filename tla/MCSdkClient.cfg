SPECIFICATION Spec
CONSTANTS
  Channels = {c}
  Handlers = {h1, h2}
  MaxSockets = 3
  MaxSends = 2
  MaxConnects = 2
SYMMETRY Symmetry
INVARIANTS
  NothingForgotten
  ServerFollowsSubscriptions
  KeepsTrying
  SocketsUnderControl
