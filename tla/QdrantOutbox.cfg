SPECIFICATION Spec
CONSTANTS
  a1 = a1
  a2 = a2
  Artwork <- MCArtwork
  v1 = v1
  v2 = v2
  Version <- MCVersion
  Absent = Absent
  Keep = Keep
  Worker = {w1}
  NoWorker = NoWorker
  BatchSize = 2
  MaxTries = 2
  MaxChanges = 1
  MaxFaults = 1
SYMMETRY MCSymmetry
INVARIANTS
  QuietIsServed

