CONSTANTS
  DeckSize = 5
  HoleCards = {1, 2}
  BoardCards = 1
  MIN_DECK_FOR_HAND = 3
SPECIFICATION Spec
INVARIANT HandsDealUniqueCards
