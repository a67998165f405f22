SPECIFICATION HistorySpec
CONSTANTS
  STARTING_STACK = 7
  SMALL_BLIND = 1
  BIG_BLIND = 2
  SeatStacks = {0, 1, 7}
  Short = 0
  Middle = 1
  MIN_SAMPLE_HANDS = 2
  MIN_HAND_SAMPLES = 1
  MIN_HANDS_FOR_READ = 3
  TIGHT_VPIP = 25
  LOOSE_VPIP = 45
INVARIANTS
  ReplayIsFaithful
  DecisionsAreFiledAsPlayed
  InvestedIsExact
  TheFieldIsCountedAsItPlayed
