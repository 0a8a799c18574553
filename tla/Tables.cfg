SPECIFICATION Spec
CONSTANTS
  a1 = a1
  a2 = a2
  None = None
  Ips = {a1, a2}
  Targets = {7, 8}
  TTL = 1
  Window = 2
  MaxDay = 2
  MaxVotes = 3
  MaxBoots = 1
  Cooldown = 2
  Keep = 3
  Burst = 4
  PerTick = 2
  Costs = {1, 3}
  FailLimit = 3
  BanTime = 3
  FailTTL = 6
  SweepEvery = 2
  MaxNow = 9
  AttackWindow = 2
  Buckets = 3
  EnterSecs = 2
  EnterRPS = 1
  AttackTTL = 2
  Epoch = 2
  MaxLag = 1
  MaxClock = 14
  MaxRejects = 2
  IPs = {a1, a2}
  Subnet <- OneNet
  Top = 4
  Configs <- Tables
  Beta <- Weight
  Cap = 1
  Values = {0, 4}
  MaxTime = 1
  MaxEvents = 5
INVARIANTS VotesExact  EngineKeepsUp
PROPERTY LimitsHold
SYMMETRY Symmetry
VIEW View
CHECK_DEADLOCK FALSE
