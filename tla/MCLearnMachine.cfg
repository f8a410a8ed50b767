CONSTANTS
  TolerancePercent = 25
  ToleranceUs = 1
  ResetGapMinUs = 4
  EnvGapUs = 3
  RmtMaxDur = 3
  TrailGapUs = 4
  MinTrailGapUs = 5
  StoredFrameCount = 2
  MaxFrameRepeat = 5
  MaxPulses = 24
  Payloads <- Trains
  Malformed = malformed
  Near <- NearTrains
  Alike <- AlikeTrains
  Sources = {ir, rf}
  Ir = ir
  MatchesNeeded = 3
  RfPressesNeeded = 2
  RollingPressesNeeded = 2
  MaxClusters = 2
  MaxGroups = 3
  MaxMembers = 3
  MaxBursts = 5
SPECIFICATION Spec
INVARIANTS TypeOK CaptureIsHeard PressesTellTheTruth RollingIsEarned
PROPERTIES EstablishedSurvives
