\* Connections change while signals are emitted and answered.
SPECIFICATION FairDispatch
CONSTANTS
  s1 = s1  s2 = s2  l1 = l1  l2 = l2  A = A  B = B
  Signals = {s1, s2}
  Slots = {l1, l2}
  Loops = {A, B}
  Clients = {main}
  Plain = plain
  NoParent = noparent
  Home <- MCHome
  Types = {"auto", "queued"}
  MaxConn = 1
  Reacts <- MCReacts
  MaxEmits = 3
  MaxChanges = 3
  MaxOps = 5
INVARIANTS
  Mutual
  NoDangling
  AtHome
  NoneForgotten
  InOrder
  OncePerConnection
PROPERTIES
  NoCallLost
  EveryCallMade
CHECK_DEADLOCK FALSE
