SPECIFICATION MCSpec
CONSTANTS
  j1 = j1
  j2 = j2
  p = p
  q = q
  da = da
  db = db
  dc = dc
  x = x
  y = y
  pa = pa
  pb = pb
  pc = pc
  k1 = k1
  k2 = k2
  null = null
  Job <- MCJob
  Sifter <- MCJob
  Campaigner <- MCCampaigner
  Did <- MCDid
  SampleTask <- MCSampleTask
  ExpandTask <- MCExpandTask
  Listed <- MCListed
  RequestBudget <- MCRequestBudget
  Seed <- MCSeed
  Entry <- MCEntry
  Batch <- MCBatch
  Picture <- MCPicture
  Urls <- MCUrls
  Hits <- MCHits
  ScoresOf <- MCScoresOf
  Setting <- MCSetting
  Config <- MCConfig
  OutputOf <- MCOutputOf
  Bitmap <- MCBitmap
  Unreadable <- MCUnreadable
  Creator = {c1}
  JobCount = 2
  MaxFanout = 1
  KindLimit = 1
  CreatorBudget = 2
  MediaBudget = 1
  InitialSample = 1
  DeepSample = 2
  TaskBudget = 2
  Nothing = null
  AutoAccept = TRUE
  CommitCount = 2
  MaxBatches = 2
  MaxMishaps = 1
  CandidateCount = 3
  BatchSize = 2
  MaxSweeps = 2
  FileCount = 3
  Absent = null
  Torn = torn
  MaxChanges = 2
  MaxStops = 1
VIEW MCView
SYMMETRY JobSymmetry
INVARIANTS
  DecidedOnOwnImage  RunCoversFolder MediaWithinBudget FanoutWithinLimit
PROPERTIES
  ExclusionQuiesces BarredStaysBarred
CHECK_DEADLOCK FALSE
