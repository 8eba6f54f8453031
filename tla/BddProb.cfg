SPECIFICATION Spec
CONSTANTS
  Exprs <- MCExprs
  Restrictions <- MCRestrictions
  Dictionaries <- MCDictionaries
INVARIANTS
  ProbabilityIsSum
  ErrorsExplained
CHECK_DEADLOCK FALSE
