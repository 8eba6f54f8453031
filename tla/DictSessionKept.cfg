SPECIFICATION Spec
CONSTANTS
  Rows <- MCRows
  Texts <- MCTexts
  InlineRoom = 9
  MaxValDeleted = 1
  MaxCalls = 2
  Broken = Broken
  Wildcard = Wildcard
  NoValue = NoValue
  NoDict = NoDict
INVARIANTS
  ArgumentKept
CHECK_DEADLOCK FALSE
