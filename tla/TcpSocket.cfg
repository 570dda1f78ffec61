SPECIFICATION FairSpec
CONSTANTS
  Users = {u1, u2}
  Loop = u1
  Block = 2
  MaxSent = 4
INVARIANTS Announced OwnDescriptor
PROPERTIES RefinesStream CallsReturn
CHECK_DEADLOCK FALSE
