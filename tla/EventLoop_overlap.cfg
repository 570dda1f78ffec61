\* Two threads add events at the same time.
SPECIFICATION Spec
CONSTANTS
  Callers = {a, b}
  Loop = loop
  Overlap = TRUE
  NodeSize = 2
  MaxEvents = 2
INVARIANTS Fifo
CHECK_DEADLOCK FALSE
