SPECIFICATION Spec
CONSTANTS
  Texts <- MCTexts
  StackMax = 3
  MaxRvaName = 2
  IntMod = 8
  LongMax = 127
  LocptrMod = 6
INVARIANTS
  TypeOK
  EvaluatesLeftToRight
  OrderSorted
  FrameSubstituted
  WritesBounded
  DryRunSpeaksForAll
CHECK_DEADLOCK FALSE
