SPECIFICATION Spec
CONSTANTS
  Dicts <- MCDicts
INVARIANTS
  RightKept
CHECK_DEADLOCK FALSE
