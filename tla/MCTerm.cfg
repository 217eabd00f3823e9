CONSTANTS
  Speed = {0, 50, 9600}
  MAX_TERMS = 2
  FD = {0, 3, 4}
  Ttys = {3, 4}
  DevSettings <- MCOne
  Adopt <- MCNoRtscts
  SetArgs <- MCArgs
  Fallible = {"getattr", "setattr", "flush", "drain", "atexit"}
  OthersSet = FALSE
  Strict = TRUE
  KeyFallible = {"setattr", "getattr", "lines", "mctl"}
  Devices <- MCDevices
  Asked <- MCAsked
  Noinit = {TRUE, FALSE}
  Wishes <- MCWishes
  Stubborn = {"baud"}
  Shared = TRUE
  Resets = TRUE
  MaxKeys = 3
SPECIFICATION BothSpec
VIEW MCView
INVARIANTS TypeOK UniqueFds SettingsCatchUp LinesAgree WriteSizeFits
PROPERTIES CurrTellsDevice FailedCallChangesNothing ImplementsMap
CHECK_DEADLOCK FALSE
