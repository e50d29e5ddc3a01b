SPECIFICATION Spec
CONSTANTS
  n1 = n1  n2 = n2  n3 = n3  dirA = dirA  dirB = dirB
  Runs <- TwoRuns
  Directories <- OneDirectory
  None = None
SYMMETRY Symmetry
INVARIANTS
  PartialNeverObserved
