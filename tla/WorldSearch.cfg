\* Two candidates at every node, and a horizon that leaves room for a chance
\* node below a chance node and for a promotion below the hero's first action.
\* What the playouts return does not matter here.
CONSTANTS
  max_depth = 3
  Stack = 1
  Finals = {1}
  Candidates = {2}
  MaxSweeps = 2
  MaxReshapes = 1
  Decisions <- SolvedDecisions
  CandidateList <- Offered
  Played = {"Call", "Raise", "Bet"}
  Value <- Values
  Decks <- DealtDecks
CHECK_DEADLOCK FALSE
SPECIFICATION SolveSpec
INVARIANTS
  TheTreeIsConsistent
  EveryCandidateHasItsShare
  SolvesAreSound
