SPECIFICATION Spec
CONSTANTS
  Rows <- MCRows
  Texts <- MCTexts
  InlineRoom = 9
  MaxValDeleted = 1
  MaxCalls = 2
  Broken = Broken
  Wildcard = Wildcard
  NoValue = NoValue
  NoDict = NoDict
INVARIANTS
  TypeOK
  ResultsReadable
  LeftoversWellFormed
  RefIsSnapshot
PROPERTIES
  OnlyModifyChanges
CHECK_DEADLOCK FALSE
