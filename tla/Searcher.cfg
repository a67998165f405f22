CONSTANTS
  LastStreet = 1
  MaxDecisions = 3
  MaxClicks = 2
  MaxFrames = 2
  MaxStatuses = 1
  Budget = 2
SPECIFICATION FairSpec
INVARIANTS
  OpenDockIsSolved
  ScoredByItsOwnSearch
  LabelsAreTruthful
PROPERTY EveryDecisionOpens
CHECK_DEADLOCK FALSE
