CONSTANTS
  STARTING_STACK = 2
  SMALL_BLIND = 1
  BIG_BLIND = 1
  MaxHands = 2
SPECIFICATION MCSpec
INVARIANT AutoFoldAnswersItsOwnCheck
