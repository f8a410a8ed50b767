SPECIFICATION Spec
CONSTANTS
  Pages = {p1, p2}
  Creds = {home, typo}
  Good = {home}
  Codes = {k1, k2}
  None = None
  MaxPosts = 4
  MaxResets = 2
SYMMETRY Symmetry
INVARIANTS TypeOK NonceStands
PROPERTY DoneIsTrue
CHECK_DEADLOCK FALSE
