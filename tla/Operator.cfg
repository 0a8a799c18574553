SPECIFICATION MCSpec
CONSTANTS
  Bad = Bad
  EnvFiles <- Dotenvs
  Shells <- Starts
  DefaultSend = 6
  MaxLookup = 5
  MaxClock = 5
  MaxEdits = 3
  Passes = {"plain", "first", "second"}
  MaxRuns = 3
INVARIANTS  KeySurvives SettingsFollow ReloadsAreWhole
CHECK_DEADLOCK FALSE
