CONSTANTS
  MaxArms = 2
  MaxOthers = 0
  MaxFailures = 0
SPECIFICATION FairSpec
PROPERTY EveryOutcomeIsShown
CHECK_DEADLOCK FALSE
