SPECIFICATION Spec
CONSTANTS
  Tenants = {1, 2}
  Row <- MCRow
  Owned <- MCOwned
  MaxInFlight = 2
  Id <- MCId
  Column <- MCColumn
  Rank <- MCRank
  Query <- MCQuery
  Matches <- MCMatches
  Channel <- MCChannel
  Device <- MCDevice
  Patterns <- MCPatterns
  Template <- MCTemplate
  Limit = 2
  MaxSize = 3
  MaxSends = 1
  FilledFor <- MCFilledFor
  FirstSecret <- MCFirstSecret
  MaxCalls = 2
  MaxSecrets = 2
  MaxNotices = 3
  ListLimit = 2
  MaxRefreshes = 2
  Instance <- MCInstance
  AdminTenant <- MCTenant
  MaxRequests = 2
  MaxReveals = 2
  MaxJoins = 3
  MaxPublished = 2
  Windows <- MCWindows
  Small <- MCSmall
  Step <- MCStep
  MaxClicks = 4
  Key = {11, 12}
  MaxGenerated = 3
  MaxOps = 2
  MaxTokens = 1
INVARIANTS
  BroadcastIsHonest
  OwnRowsOnly
  RemovedStaysRemoved
  TokenBelongsToItsTenant
  BadgeCoversItems
  AdminKeepsToItsPage
  MemoryFollowsRows
PROPERTIES
  OnlyALoadEmptiesThePage
  ReloadRestores
CHECK_DEADLOCK FALSE
