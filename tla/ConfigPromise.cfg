CONSTANTS
  t1 = t1  t2 = t2  x = x  y = y
  Tabs = {t1, t2}
  Labels = {x}
  Imports <- MCImports
  MaxId = 2
  MaxRequests = 2
  MaxCrashes = 0
SPECIFICATION Spec
CHECK_DEADLOCK FALSE
INVARIANTS PromisesAreKept
