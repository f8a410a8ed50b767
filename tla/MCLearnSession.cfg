CONSTANTS
  Ir = ir
  Bands = {ir, rf}
  Window <- MCWindow
  ClockMod <- MCClockMod
  MaxStarts = 3
  MaxCancels = 2
SPECIFICATION FairSpec
INVARIANTS TypeOK ResultIsCurrent CancelHonoured RadiosFollowSession
PROPERTIES ServiceIsImplemented WindowClosesBeforeWrap
