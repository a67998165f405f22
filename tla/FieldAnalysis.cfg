CONSTANTS
  Scan = {1, 2}
  Task = {1, 2}
  Export <- Exports
  HeroStack <- Stacks
  HeroWon <- Wins
  STARTING_STACK_WINDOW = 1
  MaxExports = 3
  ANALYSIS_WINDOW = 2
  EV_ROLLING_WINDOW = 1
  SKILL_ZERO_LOSS_BB = 5
  Grades <- GradesOfAHand
SPECIFICATION Spec
INVARIANTS
  PagesShowTheField
  NewHandsReportedOnce
  TheJobIsTrue
PROPERTY EveryScanEnds
