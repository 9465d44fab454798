CONSTANTS
  v1 = v1
  v2 = v2
  none = none
  Vals <- MCVals
  NoVal <- none
  ChunkUnit = 3
  SyncMode = TRUE
  MaxCrashes = 2
SPECIFICATION Spec
INVARIANTS TypeOK RecoveryNeverFails
PROPERTIES ImplementsAppendLog GetDataReadsLog
CHECK_DEADLOCK FALSE
