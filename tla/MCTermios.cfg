CONSTANTS
  Speed = {0, 9600}
  Bytes = {8, 9, 10, 13, 31, 32, 126, 127, 128}
  Plain = {"a"}
  Blanks = {"space"}
  Dollars = {"$"}
  MaxWritten = 4
  ArgvSz = 1
  MaxArg = 2
  Rates = {"9600", "50"}
  MaxArgs = 3
SPECIFICATION AllSpec
INVARIANTS SetAllReadsBack MapFollowsManual SplitFollowsHeader OptionsFollowManual
PROPERTY SetterSetsItsOwn
CHECK_DEADLOCK FALSE
