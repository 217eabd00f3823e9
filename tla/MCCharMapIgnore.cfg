CONSTANTS
  Bytes = {10, 13, 65}
SPECIFICATION Spec
INVARIANTS IgnoringGoesOn
CHECK_DEADLOCK FALSE
