\* Two entries for connections; below a br_threaded_object, and without a parent.
SPECIFICATION FairSpec
CONSTANTS
  Size = 3
  Fds = {1, 2}
  TimerIds = {0, 1, 2}
  MaxArrivals = 3
  MaxSends = 1
INVARIANTS
  TablesAgree
  OwnPeer
  TimersKnown
PROPERTIES
  OnlyLeaversDropped
  LeaversRemoved
CHECK_DEADLOCK FALSE
