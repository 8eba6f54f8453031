SPECIFICATION Spec
CONSTANTS
  Literals <- MCExprs
  Restrictions <- MCRestrictions
  StackMax = 5
INVARIANTS
  WellFormed
  EqualDecides
  QueriesDecide
  ApplyAgrees
  RedundanciesRemoved
PROPERTIES
  ImplementsBddAlgebra
CHECK_DEADLOCK FALSE
