CONSTANTS
  Speed = {0, 9600}
  MAX_TERMS = 2
  FD = {0, 3}
  Ttys = {0, 3}
  DevSettings <- MCLines
  Adopt <- MCAdoptAll
  SetArgs <- MCArgs
  Fallible = {}
  OthersSet = FALSE
  Strict = TRUE
  STI = 0
  TTY = 3
  Config <- MCConfig
  Options <- MCFlowOptions
  KeySpeed = {0}
  FlushWorks = FALSE
  CleanupWorks = TRUE
  Mishaps = {"open", "alloc", "loop", "assert"}
SPECIFICATION FairLife
INVARIANTS PortKept
PROPERTIES ExitReached ExitRestores
CHECK_DEADLOCK FALSE
