CONSTANTS
  Threshold = 3
  MaxCount = 5
  StableRun = 4
  SafeHold = 2
  FactoryHold = 4
  MaxGap = 4
SPECIFICATION Spec
INVARIANTS TypeOK SafeModeIsEarned LedTellsSafeMode
PROPERTY FactoryResetIsAnnounced
