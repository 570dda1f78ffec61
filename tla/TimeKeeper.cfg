\* Three ids, so that they are used again; AddRecord(duration) gets stuck.
SPECIFICATION FairSpec
CONSTANTS
  IdMod = 3
  Durations = {0, 1}
  MaxRecords = 4
  MaxTime = 2
INVARIANTS
  NeverOversleeps
  IdsUnique
PROPERTIES
  RefinesService
  FateIsFinal
  LoneRecordFires
  StopReturns
CHECK_DEADLOCK FALSE
