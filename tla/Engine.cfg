\* One tournament of three seats with two big blinds each.
CONSTANTS
  STARTING_STACK = 4
  SMALL_BLIND = 1
  BIG_BLIND = 2
SPECIFICATION HistorySpec
INVARIANTS
  TypeOK
  ChipsConserved
  EveryPotHasAClaimant
  ActorIsPending
  LegalActionsArePayable
  PayoutsAreCovered
  FullRaiseReopens
  EveryOfferIsSound
  ThePageIsTrue
PROPERTIES
  ImplementsLedger
  HandsEnd
