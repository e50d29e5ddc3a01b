SPECIFICATION Spec
CONSTANTS
  n1 = n1  n2 = n2  n3 = n3  dirA = dirA  dirB = dirB
  Runs <- TwoRuns
  Directories <- TwoDirectories
  None = None
SYMMETRY Symmetry
INVARIANTS
  AccessedOncePerFreeze
