CONSTANTS
  a2 = a2  a3 = a3  x = x  y = y  c1 = c1  c2 = c2  ir = ir  rf = rf
  Aids = {a2, a3}
  Labels = {x, y}
  Codes = {c1, c2}
  Unlearned = unlearned
  Bands = {ir, rf}
  BandOf <- MCBandOf
  Configs <- MCConfigs
  MaxDelay = 2
  MaxSend = 1
  MaxPass = 2
  ClockMod = 8
SPECIFICATION FairSpec
INVARIANTS TypeOK SequencesAreCurrent TilesFollowConfig SendsKeepRhythm
PROPERTIES LabelsFollowEdits SequencesEnd
