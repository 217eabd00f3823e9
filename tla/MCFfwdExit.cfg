CONSTANTS
  Client = {"a", "b"}
  CtlClient = {"b"}
  CapSrv = 2
  CapCli = 1
  ReadSize = 2
  ZeroAt = {2}
  Taken = {FALSE}
  Fails = {FALSE}
  Early = FALSE
  MaxSaid = 2
  MaxSends = 1
  MaxConnects = 2
SPECIFICATION Spec
VIEW MCView
INVARIANT ExitIsClean
CHECK_DEADLOCK FALSE
