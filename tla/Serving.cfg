SPECIFICATION MCSpec
CONSTANTS
  r1 = r1
  r2 = r2
  r3 = r3
  b1 = b1
  b2 = b2
  v1 = v1
  v2 = v2
  m = m
  n = n
  a1 = a1
  a2 = a2
  s1 = s1
  s2 = s2
  k1 = k1
  k2 = k2
  q1 = q1
  x = x
  y = y
  ra = ra
  rb = rb
  rc = rc
  null = null
  bare = bare
  broken = broken
  Request <- MCThree
  Builder <- MCBuilder
  Version <- MCVersion
  Grade <- MCGrade
  PlannedPoints <- MCPlannedPoints
  ArtistName <- MCArtistName
  TopK <- MCTopK
  Shard <- MCShard
  Call <- MCCall
  Caller <- MCCaller
  HomeOf <- MCHomeOf
  Quota <- MCQuota
  Search <- MCSearch
  Result <- MCResult
  ShownOf <- MCShownOf
  Mark <- MCMark
  Reviewer <- MCReviewer
  ProcessOf <- MCProcessOf
  Dashboard <- MCDashboard
  Pick <- MCPick
  Verdict <- MCVerdict
  Artwork <- MCArtwork
  Line <- MCLine
  Lines <- MCLines
  Capacity = 1
  MaxPending = 1
  MaxPoints = 3
  MaxBuilds = 2
  MaxReports = 1
  Size = 4
  PrefetchLimit = 2
  RerankLimit = 2
  FusionLimit = 2
  ShortlistSize = 1
  RrfK = 1
  Scale = 60
  Window = 2
  IdleStop = 3
  MaxDeaths = 1
  TopRanks = 2
  MaxGrades = 2
  NoMark = null
  none = null
  absent = bare
  unreadable = broken
  MaxDecisions = 2
  MaxLabels = 3
  MayTear = TRUE
  Today = 4
  FreshDays = 1
  RecentDays = 0
  BaselineDays = 1
  MinCohort = 1
  Endpoint = {"disabled", "unprobed", "unset", "green"}
  MaxChanges = 2
VIEW MCView
SYMMETRY MCSymmetry
INVARIANTS
  SlotsExact OutcomeTruthful FeedbackFindsShown PromotedWasMeasured ServesPromoted
  NoDominatedHit WindowLimitHolds ReportSaysAsTold OneLinePerAnnotation 
  ReportTrueToWorld
CHECK_DEADLOCK FALSE
