SPECIFICATION Spec
CONSTANTS
  Exprs <- MCExprs
  StackMax = 8
INVARIANTS
  FastDecides
  TextDecides
CHECK_DEADLOCK FALSE
