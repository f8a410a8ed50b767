SPECIFICATION ThrottleSpec
CONSTANTS
  Clients = {c1, c2, c3}
  NoClient = NoClient
  Capacity = 2
  MaxFailures = 2
  MaxCount = 3
  Lockout = 2
  ClockMod <- MCClockMod
INVARIANTS ThrottleTypeOK LockoutIsEarned
PROPERTY LockoutSurvives
