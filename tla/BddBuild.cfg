SPECIFICATION FairSpec
CONSTANTS
  Inputs <- MCInputs
  NodeiMax = 7
  Unwritten = Unwritten
INVARIANTS
  TypeOK
  FramesIntact
  AlwaysReduced
  NoOrphan
  CallContract
  RootIsLast
  Canonical
  FailsOnlyWhenFull
  AgreesWithCreateBdd
PROPERTIES
  Termination
  ImplementsBddSpec
CHECK_DEADLOCK FALSE
