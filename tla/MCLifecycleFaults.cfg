CONSTANTS
  Speed = {0, 9600}
  MAX_TERMS = 2
  FD = {0, 3}
  Ttys = {0, 3}
  DevSettings <- MCLines
  Adopt <- MCAdoptAll
  SetArgs <- MCArgs
  Fallible = {"getattr", "setattr", "flush", "drain", "mctl", "atexit"}
  OthersSet = TRUE
  Strict = TRUE
  STI = 0
  TTY = 3
  Config <- MCConfig
  Options <- MCOptions
  KeySpeed = {0}
  FlushWorks = TRUE
  CleanupWorks = TRUE
  Mishaps = {"open", "alloc", "loop", "assert"}
SPECIFICATION Life
INVARIANTS OrigKept StdinRestored PortRestored HangupAsDocumented
CHECK_DEADLOCK FALSE
