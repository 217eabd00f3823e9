CONSTANTS
  Byte = {"e", "b", "w", "n"}
  Escape = "e"
  Return = "n"
  Cancel = {"b"}
  Erase = {"e"}
  MaxLine = 1
  Newline = {"n"}
  Nul = {"b"}
  Key <- MCKeys
  OutMap <- MCDouble
  EchoMap <- MCIgnore
  InMap <- MCIgnore
  TTY_Q_SZ_MIN = 2
  TTY_Q_SZ = 4
  M_MAXMAP = 2
  WriteSize = 3
  STI_RD_SZ = 2
  CtlReadSize = 2
  NoEscape = FALSE
  Lecho = {TRUE}
  Exit = FALSE
  ExitAfter = {FALSE}
  InitString <- MCInit
  Fallible = {"select", "stdin", "port", "stdout", "log", "write", "flush"}
  MaxTyped = 4
  MaxPort = 1
  MaxCtl = 1
  MaxStops = 0
  Signals = FALSE
SPECIFICATION Spec
VIEW MCQueueView
INVARIANTS TypeOK QueueInBounds PortGetsWhatWasAccepted
PROPERTIES RefusedOnlyWhenFull
CHECK_DEADLOCK FALSE
