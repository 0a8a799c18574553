SPECIFICATION MCSpec
CONSTANTS
  s1 = s1
  s2 = s2
  none = none
  NoKey = none
  k1 = k1
  k2 = k2
  Sessions = {s1, s2}
  Keys = {k1, k2}
  TTL = 1
  Cap = 1
  MaxSent = 3
  MaxNow = 2
  MaxLost = 1
  MaxBoots = 1
  MaxFaults = 2
  Texts = {"x"}
  Scrollback = 4
  PendCap = 1
  StashCap = 1
  SeenCap = 1
  MaxTyped = 2
  MaxLines = 2
SYMMETRY Symm
INVARIANTS RefusedIsExcused ChainsContinue  ScreenIsTrue
CHECK_DEADLOCK FALSE
