SPECIFICATION Spec

CONSTANTS
  w1 = w1
  v1 = v1
  v2 = v2
  NoRecord = NoRecord
  Writers <- OneWriter
  Values <- TwoValues
  MaxStoreRecs = 3
  MaxIndexEnts = 2
  BufRecs = 2
  InitialOffset = 1
  WholeLog = TRUE
  MaxOffset = 4

INVARIANTS
  TypeOK
  OffsetsUnique

PROPERTIES
  StableReads

CHECK_DEADLOCK FALSE
