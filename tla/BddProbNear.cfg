SPECIFICATION Spec
CONSTANTS
  Exprs <- MCExprs
  Restrictions <- MCRestrictions
  Dictionaries <- MCNear
INVARIANTS
  AnswersAreSums
CHECK_DEADLOCK FALSE
