CONSTANTS
  t1 = t1  t2 = t2  x = x  y = y
  Tabs = {t1, t2}
  Labels = {x}
  Imports <- MCImports
  MaxId = 3
  MaxRequests = 3
  MaxCrashes = 1
SPECIFICATION FairSpec
CHECK_DEADLOCK FALSE
INVARIANTS TypeOK RevIdentifiesConfig IdNeverReusedInBoot StoredServedApplied
PROPERTIES WritesBuildOnCurrent RestartKeepsWrites AppliedCatchesUp
