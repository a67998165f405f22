\* The hero may have put a chip in before the decision the tree is moved to.
CONSTANTS
  max_depth = 3
  Stack = 2
  Finals = {0, 3}
  Candidates = {1}
  MaxSweeps = 1
  MaxReshapes = 1
CHECK_DEADLOCK FALSE
SPECIFICATION Spec
INVARIANT ReportedFromOwnStack
