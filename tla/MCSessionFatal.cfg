CONSTANTS
  Byte = {"e", "s"}
  Escape = "e"
  Return = "s"
  Cancel = {}
  Erase = {}
  MaxLine = 2
  Newline = {}
  Nul = {}
  Key <- MCKeys
  OutMap <- MCSame
  EchoMap <- MCSame
  InMap <- MCSame
  TTY_Q_SZ_MIN = 1
  TTY_Q_SZ = 2
  M_MAXMAP = 1
  WriteSize = 2
  STI_RD_SZ = 2
  CtlReadSize = 2
  NoEscape = FALSE
  Lecho = {FALSE}
  Exit = FALSE
  ExitAfter = {FALSE}
  InitString <- MCNone
  Fallible = {}
  MaxTyped = 5
  MaxPort = 0
  MaxCtl = 0
  MaxStops = 0
  Signals = FALSE
SPECIFICATION Spec
INVARIANTS FatalMeansFailure
CHECK_DEADLOCK FALSE
