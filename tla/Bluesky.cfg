SPECIFICATION MCSpec
CONSTANTS
  night = night
  refresh = refresh
  Collector <- MCCollector
  Nightly = night
  ActorCount = 2
  MaxPosts <- MCMaxPosts
  Seeded <- MCSeeded
  NoImage <- MCNoImage
  PageSize = 1
  PageCap <- MCPageCap
  Quota <- MCQuota
  Target = 1
  MaxCrashes = 1
  MaxRefreshes = 1
  u1 = u1
  u2 = u2
  u4 = u4
  u5 = u5
  u6 = u6
  g1 = g1
  g2 = g2
  Source <- MCSource
  OracleOf <- MCOracleOf
  LimitOf <- MCLimitOf
  HitsOf <- MCHitsOf
  SampleOf <- MCSampleOf
  ListOf <- MCListOf
  Circular = {g2}
  Hidden = {u4}
  ListPageSize = 2
  MaxMembers = 3
  MaxRetries = 1
  RequestLimit = 15
  PackLimit = 6
  Parallel = 2
INVARIANTS
  
  CleanRunIsComplete
PROPERTIES
  BacklogDrains
