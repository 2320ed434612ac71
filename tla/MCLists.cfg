CONSTANTS
  Span = 4
  Ids <- IdsC
  Vals <- ValsC
  Lower <- LowerC
  MemberKind <- MemberKindC
  Null = Null
  None = None
  Tables <- TablesC
  Writes <- WritesC
  Limits = {0, 1, 5}
  DefaultLimit = 2
  MaxLimit = 3
  WideLimit = 3
  MaxTotal = 3
  MaxRows = 3
  MaxChanges = 1
SPECIFICATION Spec
PROPERTY SweepsTheTable
INVARIANT OwnCursorAccepted
CHECK_DEADLOCK FALSE
