SPECIFICATION Spec
CONSTANTS
  Keys <- FourKeys
  LINE_BYTES = 384
  LevelSets <- FewLevelSets
  MaxDocuments = 2
  MaxEdits = 2
INVARIANTS
  TypeOK
  WholeDocumentDecodes
  LossIsDetected
CHECK_DEADLOCK FALSE
