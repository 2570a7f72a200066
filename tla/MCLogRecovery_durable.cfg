SPECIFICATION SpecRecovery

CONSTANTS
  w1 = w1
  v1 = v1
  v2 = v2
  NoRecord = NoRecord
  Writers <- OneWriter
  Values <- OneValue
  MaxStoreRecs = 2
  MaxIndexEnts = 3
  BufRecs = 1
  InitialOffset = 0
  WholeLog = FALSE
  MaxOffset = 4
  Killable = TRUE
  MaxRestarts = 1

INVARIANTS
  StoredReadable

CHECK_DEADLOCK FALSE
