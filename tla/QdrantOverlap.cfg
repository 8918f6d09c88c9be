SPECIFICATION FairSpec
CONSTANTS
  a1 = a1
  a2 = a2
  v1 = v1
  v2 = v2
  Artwork = {a1}
  Version = {v1}
  Absent = Absent
  Keep = Keep
  Worker = {w1, w2}
  NoWorker = NoWorker
  BatchSize = 1
  MaxTries = 2
  MaxChanges = 1
  MaxFaults = 2
INVARIANTS
  TakedownHonoured
PROPERTIES
  OutboxDrains
