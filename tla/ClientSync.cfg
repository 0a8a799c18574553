SPECIFICATION FairSpec
CONSTANTS
  none = none
  NoWindow = none
  Log <- Talk
  AtJoin = 2
  Target = 2
  Batch = 1
  OlderLines = 2
  Retries = 1
  RecoverCap = 2
  MaxFaults = 3
  MaxOlder = 1
INVARIANTS NoFalseTamper NoSilentLoss RefillBounded
PROPERTY
  RefillSettles
CHECK_DEADLOCK FALSE
