\* A single caller; does the loop always respond?
SPECIFICATION FairSpec
CONSTANTS
  Callers = {a}
  Loop = loop
  Overlap = FALSE
  NodeSize = 2
  MaxEvents = 2
PROPERTIES NothingSleepsForever
CHECK_DEADLOCK FALSE
