\* Do the arguments of emit reach the slots?
SPECIFICATION DispatchSpec
CONSTANTS
  s1 = s1  s2 = s2  l1 = l1  l2 = l2  A = A  B = B
  Signals = {s1, s2}
  Slots = {l1, l2}
  Loops = {A, B}
  Clients = {main}
  Plain = plain
  NoParent = noparent
  Home <- MCHome
  Types = {"auto", "queued"}
  MaxConn = 1
  Reacts <- MCReacts
  MaxEmits = 2
  MaxChanges = 2
  MaxOps = 4
INVARIANTS ArgumentsArrive
CHECK_DEADLOCK FALSE
