SPECIFICATION Spec
CONSTANTS
  Texts <- MCTexts
  MaxValDeleted = 1
  MaxCalls = 3
  Wildcard = Wildcard
  NoValue = NoValue
  NoDict = NoDict
INVARIANTS
  TypeOK
  SegmentsApart
  LookupsFind
  HolesBounded
PROPERTIES
  ImplementsDictMap
CHECK_DEADLOCK FALSE
