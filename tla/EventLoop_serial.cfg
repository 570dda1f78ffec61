\* One call of addEvent at a time, from outside and from events of the loop.
SPECIFICATION FairSpec
CONSTANTS
  Callers = {a, b, loop}
  Loop = loop
  Overlap = FALSE
  NodeSize = 2
  MaxEvents = 4
INVARIANTS
  LateAtMostOnce
PROPERTIES
  RefinesChannel
  StaysAwake
  LoopDrains
  AwakeLoopStops
CHECK_DEADLOCK FALSE
