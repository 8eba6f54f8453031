SPECIFICATION Spec
CONSTANTS
  Literals <- MCExprs
  Restrictions <- MCRestrictions
  StackMax = 5
INVARIANTS
  RestrictKeepsConstants
CHECK_DEADLOCK FALSE
