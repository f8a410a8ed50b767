CONSTANTS
  MaxArms = 2
  MaxOthers = 1
  MaxFailures = 1
SPECIFICATION FairSpec
INVARIANTS TypeOK ShownWasAskedFor
PROPERTY OutcomeIsShown
CHECK_DEADLOCK FALSE
