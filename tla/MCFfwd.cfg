CONSTANTS
  Client = {"a", "b"}
  CtlClient = {"b"}
  CapSrv = 2
  CapCli = 1
  ReadSize = 2
  ZeroAt = {2}
  Taken = {TRUE, FALSE}
  Fails = {TRUE, FALSE}
  Early = FALSE
  MaxSaid = 3
  MaxSends = 1
  MaxConnects = 2
SPECIFICATION FairSpec
VIEW MCView
INVARIANTS TypeOK TablesAgree PortsApart HeardInOrder
PROPERTY ForwardEnds
CHECK_DEADLOCK FALSE
