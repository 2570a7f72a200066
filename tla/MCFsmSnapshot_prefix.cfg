SPECIFICATION SpecFsm

CONSTANTS
  w1 = w1
  v1 = v1
  v2 = v2
  NoReader = NoReader
  NoSnapshot = NoSnapshot
  NoRecord = NoRecord
  Writers <- OneWriter
  Values <- TwoValues
  MaxStoreRecs = 2
  MaxIndexEnts = 3
  BufRecs = 1
  InitialOffset = 0
  WholeLog = FALSE
  MaxOffset = 4
  Killable = FALSE
  MaxRestarts = 1

INVARIANTS
  SnapshotIsPrefix
  WipedIsInSnapshot

CHECK_DEADLOCK FALSE
