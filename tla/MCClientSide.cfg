SPECIFICATION Spec
CONSTANTS
  Senders = {alice, bob}
  Texts <- MCTexts
  Channel <- MCChannel
  Keys <- MCKeys
  MsgIds = {m1, m2}
  LenPayload = 7
  HeaderMax = 3
  LenChannel = 2
  MaxMessage = 12
  MaxChunks = 4
  Ttl = 1
  MaxTime = 2
  MaxLosses = 1
  Controls = {"sdkCard", "scriptCard", "reactCard", "app", "scriptButton", "hookButton", "hookBrowser", "toggle", "portal"}
  MaxCalls = 2
  MaxEndpoints = 2
  MaxDays = 1
  MaxMessages = 3
  MaxOpens = 3
  Limit = 3
  Utf8 <- MCUtf8
  Star = "star"
  Nul = "nul"
  LEN_TENANT = 1
  LEN_CHANNEL = 3
  LEN_PAYLOAD = 3
  Tenant <- MCTenant
  Text <- MCText
  Payload <- MCPayload
  Handler <- MCHandler
  Wants <- MCWants
  Exact = "x"
  Pattern <- MCPattern
  Events <- MCEvents
  MaxTouches = 2
  HookChannel = {a, b}
  NullChannel = null
  MaxHookClients = 2
  MaxHookSockets = 2
  HookLimit = 1
  ChatChannel = {c1, c2}
  NoChannel = none
  MaxClients = 2
  MaxUnread = 2
  MaxNotifications = 1
  Tab = {t1, t2}
  MaxVersion = 3
  CacheName <- MCCacheName
SYMMETRY Symmetry
INVARIANTS
  MessagesArriveWhole
  PushRowsAgree
  FeedIsTrue
  BufferIsOfItsChannel
  SubscribedToJoined
  ShellFollowsDeploys
PROPERTIES
  HeardWhenCovered
  HeardOnce
CHECK_DEADLOCK FALSE
