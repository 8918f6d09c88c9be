SPECIFICATION Spec
CONSTANTS
  j1 = j1
  j2 = j2
  Creator = {c1}
  Job <- MCJob
SYMMETRY JobSymmetry
PROPERTIES
  RemovedMediaStaysRemoved
