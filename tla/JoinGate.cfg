SPECIFICATION Spec
CONSTANTS
  native = native
  browser = browser
  a1 = a1
  a2 = a2
  Clients = {native, browser}
  Wasm = {browser}
  IPs = {a1, a2}
  Skew <- MCSkew
  WaitMin = 2
  WaitMax = 3
  PowTTL = 2
  PassTTL = 1
  ChallengeCooldown = 8
  StatusCooldown = 2
  ConnCooldown = 1
  MaxAttempts = 3
  None = None
  MaxTime = 30
  MaxStarts = 2
  MaxMishaps = 1
  Ids = {1, 2, 3, 4}
SYMMETRY Alike
VIEW View
INVARIANTS NeverTurnedAway EntriesEarned StoreBounded
