CONSTANTS
  Proc = {p1, p2, p3}
  Old = old
  Fallible = {"fork", "setattr", "split", "exec"}
  MaxSignals = 3
  MaxRuns = 2
  MsgClient = {"a"}
  CtlClient = {"b", "c"}
  MaxSaid = 2
  MaxConnections = 3
SPECIFICATION AllSpec
VIEW MCView
INVARIANTS OneHolder BackAsBefore HearsTheOtherPort
PROPERTIES LeftLockIsTaken ProgramStartsClean KillEndsCommand ImplementsTransfer
CHECK_DEADLOCK FALSE
