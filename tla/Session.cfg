\* Two hands between stacks of two blinds: enough for a re-deal, unequal
\* stacks, short blinds and the end of the tournament.
CONSTANTS
  STARTING_STACK = 2
  SMALL_BLIND = 1
  BIG_BLIND = 1
  MaxHands = 2
SPECIFICATION MCSpec
INVARIANTS
  AtRestTheHeroDecides
  TheEndIsTheHerosEnd
  EverythingIsRecordedOnce
PROPERTY EveryCallReturns
