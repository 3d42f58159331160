SPECIFICATION Spec
CONSTANTS
  Keys <- OneKey
  LINE_BYTES = 384
  LevelSets <- FewLevelSets
  MaxDocuments = 2
  MaxEdits = 1
INVARIANT
  TruncatedIsRejected
CHECK_DEADLOCK FALSE
