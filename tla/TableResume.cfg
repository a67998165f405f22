CONSTANTS
  DeckSize = 4
  HoleCards = {1, 2}
  BoardCards = 1
  MIN_DECK_FOR_HAND = 3
  target_hands = 1
  history_actions = 2
  history_hands = 2
  Loss = {0, 1, 2}
  MaxSessions = 2
  MaxHands = 2
  MaxDecisions = 3
  CHART_WINDOW = 2
  DECIMATED_POINTS = 1
  TOURNAMENTS_PAGE_SIZE = 1
  snapshot_interval = 2
  Outcomes = {"won", "lost_all_in"}
SPECIFICATION TableSpec
INVARIANTS
  HandNeverRunsOut
  NoCardTwiceUntilReshuffled
  TrackerIsSound
  RecordsAgree
CHECK_DEADLOCK FALSE
