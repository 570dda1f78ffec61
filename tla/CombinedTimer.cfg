\* Three ids, so that -1 is handed out and 0 for the second time.
SPECIFICATION FairSpec
CONSTANTS
  LowId = 1
  MaxId = 1
  Durations = {0, 1}
  MaxTimers = 4
  MaxLate = 1
INVARIANTS
  NeverOversleeps
PROPERTIES
  RefinesService
  StoppedIsSilent
  NeverEarly
  EveryTimerExpires
  CallsReturn
CHECK_DEADLOCK FALSE
