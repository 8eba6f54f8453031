SPECIFICATION Spec
CONSTANTS
  Dicts <- MCDicts
INVARIANTS
  MemorySuffices
  VariablesMerged
  OwnVariablesKept
CHECK_DEADLOCK FALSE
