SPECIFICATION Spec
CONSTANTS
  Tabs = {t1, t2}
  None = None
  MaxLoads = 4
  MaxMints = 5
  MaxSessions = 2
  MaxBoots = 2
SYMMETRY Symmetry
INVARIANTS TypeOK OneNonceOnePassword RefusedOnlyIfShared
CHECK_DEADLOCK FALSE
