SPECIFICATION MCFairSpec
CONSTANTS
  MaxHistoryLines = 2
  FileCap = 2
  QueueCap = 2
  Faults = {"open", "close", "rename", "compress", "remove", "write"}
  NoFile = NoFile
  MaxLines = 5
  MaxStops = 2
  Stride = 2
  Levels = {3}
  Limits = {3}
  MaxPages = 1
  MaxMeanwhile = 1
  PageStops = 1
INVARIANTS StoredInSeqOrder TipFollowsWindow RestartIsSilent 
PROPERTIES QueuedIsHandled ImplementsOrderedLog
