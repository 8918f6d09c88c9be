SPECIFICATION MCSpec
CONSTANTS
  x = x
  y = y
  null = null
  c1 = c1
  c2 = c2
  s1 = s1
  s2 = s2
  pa = pa
  pb = pb
  k1 = k1
  k2 = k2
  a1 = a1
  i1 = i1
  i2 = i2
  b1 = b1
  b2 = b2
  e1 = e1
  e2 = e2
  a2 = a2
  o1 = o1
  o2 = o2
  o3 = o3
  w1 = w1
  w2 = w2
  Candidate <- MCCandidate
  BytesOf <- MCBytesOf
  Server <- MCServer
  Publisher <- MCPublisher
  Post <- MCPost
  Piece <- MCPiece
  ShownAs <- MCShownAs
  First <- MCFirst
  CallsOf <- MCCallsOf
  Agent <- MCAgent
  Image <- MCImage
  Content <- MCContent
  InitialFile <- MCInitialFile
  Work <- MCWork
  Edition <- MCEdition
  Sync <- MCSync
  Process <- MCProcess
  Did <- MCDid
  Ref <- MCRef
  Suggestion <- MCSuggestion
  Feeds <- MCFeeds
  Opener <- MCOpener
  Row <- MCRow
  NoBytes = null
  MaxJobs = 2
  DidCount = 1
  SeedCount = 1
  MaxEditions = 3
  MaxCalls = 2
  MissingFile = null
  MaxAttempts = 2
  MaxReplaced = 1
  MaxFailures = 1
  MaxPublishes = 2
  MaxDays = 2
  RestartCount = 1
  MaxManual = 1
  None = null
  ReadBatch = 1
  MaxSyncs = 2
  MaxEdits = 1
  MaxBreaks = 1
  MayOverlap = TRUE
  nobody = null
  MaxWork = 4
  MaxMishaps = 1
  Nobody = null
VIEW MCView
INVARIANTS
  ValidatedMatchesFile EmbeddingCurrent PrunedIsStored SnapshotKnowsEndedJobs
  EveryChangeQueued RowsOfOneCopy ReferenceHoldsItsBytes DayRunsOnce RowsSumUpEvidence
  ReportAddsUp UpgradeKeepsRows
PROPERTIES
  SyncedIsPublished
CHECK_DEADLOCK FALSE
