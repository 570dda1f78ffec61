------------------------------- MODULE QueuePC -------------------------------
(***************************************************************************)
(* queue_pc (include/brutils/queue_pc.h): a queue between producers and    *)
(* consumers.  A consumer calls waitPop and, when it answers true, pop,    *)
(* until it answers false.                                                 *)
(*                                                                         *)
(* push and waitPop hold the mutex, pop and stop do not.  A push is a      *)
(* single step, except at the end of a node of the deque below the queue:  *)
(* there it may move the map of the nodes, and the begin cursor with it,   *)
(* which pop uses.  waitPop is a single step up to the beginning of its    *)
(* wait.  pop reads the first element and then advances the begin cursor.  *)
(* What a consumer does with a corrupt deque is not followed.              *)
(***************************************************************************)
EXTENDS Naturals, Sequences

CONSTANTS
  Consumers,    \* the threads that take items
  NodeSize,     \* how many items there are in a node of the deque
  MaxItems      \* bound: number of items pushed

ASSUME QueueAssumption == MaxItems \in Nat /\ NodeSize \in Nat \ {0}

VARIABLES
  head, tail,   \* begin and end cursor of _queue; the n-th push is item n
  nodes,        \* whether a push is moving the map of the nodes
  stopped,      \* _stopped
  pc,           \* where each consumer stands
  item,         \* the element it has read in pop, and the cursor it read
  taken,        \* the items returned by pop, in order
  late,         \* how many of them after _stopped was set
  closing       \* where the caller of stop() stands

vars == <<head, tail, nodes, stopped, pc, item, taken, late, closing>>

Junk == 0                                   \* memory that holds no element
LastOfNode(c) == (c + 1) % NodeSize = 0     \* the cell that cursor c stands at

Init ==
  /\ head = 0 /\ tail = 0 /\ nodes = "steady"
  /\ stopped = FALSE
  /\ pc = [c \in Consumers |-> "idle"]
  /\ item = [c \in Consumers |-> [value |-> Junk, at |-> 0]]
  /\ taken = <<>>
  /\ late = 0
  /\ closing = "open"

\* Nobody holds _mutexQ.
Unlocked == nodes = "steady" /\ \A c \in Consumers : pc[c] # "park"
Sleepers == {c \in Consumers : pc[c] = "blocked"}

\* Mutant: nobody is notified.
NotifyNobody == UNCHANGED pc

\* notify_one()
NotifyOne ==
  \/ Sleepers = {} /\ UNCHANGED pc
  \/ \E c \in Sleepers : pc' = [pc EXCEPT ![c] = "woken"]

\* push, when it moves the map of the nodes.
Extend ==
  /\ Unlocked
  /\ tail < MaxItems
  /\ LastOfNode(tail)
  /\ nodes' = "moving"
  /\ UNCHANGED <<head, tail, stopped, pc, item, taken, late, closing>>

\* The rest of a push, or the whole one.
Push ==
  /\ nodes = "moving" \/ Unlocked
  /\ nodes' = "steady"
  /\ tail < MaxItems
  /\ tail' = tail + 1
  /\ NotifyOne
  /\ UNCHANGED <<head, stopped, item, taken, late, closing>>

\* Mutant: what is left in the queue is given out after the stop.
WaitPopRest(c) ==
  /\ pc[c] \in {"idle", "woken"}
  /\ Unlocked
  /\ pc' = [pc EXCEPT ![c] = IF head # tail THEN "ready"
                             ELSE IF stopped THEN "refused" ELSE "park"]
  /\ UNCHANGED <<head, tail, nodes, stopped, item, taken, late, closing>>

\* waitPop, on entry and each time its wait ends.
WaitPop(c) ==
  /\ pc[c] \in {"idle", "woken"}
  /\ Unlocked
  /\ pc' = [pc EXCEPT ![c] = IF stopped THEN "refused"
                             ELSE IF head # tail THEN "ready" ELSE "park"]
  /\ UNCHANGED <<head, tail, nodes, stopped, item, taken, late, closing>>

\* The wait begins and the mutex is released.
Block(c) ==
  /\ pc[c] = "park"
  /\ pc' = [pc EXCEPT ![c] = "blocked"]
  /\ UNCHANGED <<head, tail, nodes, stopped, item, taken, late, closing>>

Spurious(c) ==
  /\ pc[c] = "blocked"
  /\ pc' = [pc EXCEPT ![c] = "woken"]
  /\ UNCHANGED <<head, tail, nodes, stopped, item, taken, late, closing>>

\* A consumer uses the begin cursor while a push writes it.
Corrupt(c) ==
  /\ pc' = [pc EXCEPT ![c] = "corrupt"]
  /\ UNCHANGED <<head, tail, nodes, stopped, item, taken, late, closing>>

\* pop: front()
ReadFront(c) ==
  /\ item' = [item EXCEPT ![c] = [value |-> IF head < tail THEN head + 1 ELSE Junk,
                                  at |-> head]]
  /\ pc' = [pc EXCEPT ![c] = "front"]
  /\ UNCHANGED <<head, tail, nodes, stopped, taken, late, closing>>

Front(c) ==
  /\ pc[c] = "ready"
  /\ ReadFront(c) \/ (nodes = "moving" /\ Corrupt(c))

\* The begin cursor has been advanced by another consumer, into a new node or to
\* the last cell of one: it leads out of the node, or a node is freed twice.
Crowded(c) == item[c].at # head /\ (LastOfNode(item[c].at) \/ LastOfNode(head))

\* pop: the increment of the begin cursor is not atomic.
AdvanceFront(c) ==
  /\ \E h \in {item[c].at, head} : head' = h + 1
  /\ taken' = Append(taken, item[c].value)
  /\ late' = IF stopped THEN late + 1 ELSE late
  /\ pc' = [pc EXCEPT ![c] = "idle"]
  /\ UNCHANGED <<tail, nodes, stopped, item, closing>>

Pop(c) ==
  /\ pc[c] = "front"
  /\ AdvanceFront(c) \/ ((nodes = "moving" \/ Crowded(c)) /\ Corrupt(c))

\* stop(), called once: the flag, then notify_one().
Stop ==
  /\ closing = "open"
  /\ closing' = "notify"
  /\ stopped' = TRUE
  /\ UNCHANGED <<head, tail, nodes, pc, item, taken, late>>

NotifyStop ==
  /\ closing = "notify"
  /\ closing' = "closed"
  /\ NotifyOne
  /\ UNCHANGED <<head, tail, nodes, stopped, item, taken, late>>

Consume(c) == WaitPop(c) \/ Block(c) \/ Front(c) \/ Pop(c)

Next == Extend \/ Push \/ Stop \/ NotifyStop \/ \E c \in Consumers : Consume(c) \/ Spurious(c)

Spec == Init /\ [][Next]_vars

\* Consumers go on calling waitPop and pop, and a push or stop() that was begun
\* is finished; nobody need push, or stop.
Fairness ==
  /\ WF_vars(nodes = "moving" /\ Push)
  /\ WF_vars(NotifyStop)
  /\ \A c \in Consumers : WF_vars(Consume(c))

FairSpec == Spec /\ Fairness

-----------------------------------------------------------------------------
TypeOK ==
  /\ tail \in 0..MaxItems /\ head \in 0..tail
  /\ nodes \in {"steady", "moving"}
  /\ stopped = (closing # "open")
  /\ pc \in [Consumers -> {"idle", "woken", "park", "blocked", "ready", "front",
                           "refused", "corrupt"}]
  /\ \A c \in Consumers : item[c].value \in 0..MaxItems /\ item[c].at \in Nat

Sound == \A c \in Consumers : pc[c] # "corrupt"

\* With one consumer the queue is an ordered channel that hands out at most
\* one item after the stop, although pop takes no lock, until pop meets a push
\* that moves the map of the deque's nodes.
Channel == INSTANCE EventChannel WITH
  Event <- 1..MaxItems,
  log <- [i \in 1..tail |-> i],
  delivered <- taken,
  open <- ~stopped,
  grace <- late = 0
RefinesChannel == Channel!Init /\ [][Sound' => Channel!Next]_(Channel!chanVars)

\* No item stays in the queue while a consumer sleeps: push notifies with the
\* mutex held.  A corrupt deque is excepted.
EveryItemTaken ==
  \A n \in 1..MaxItems : (n <= tail) ~> (n <= Len(taken) \/ stopped \/ ~Sound)

\* A consumer learns of the stop unless it is just about to sleep when the
\* notification is sent, or the deque is corrupt.
StopReleases ==
  \A c \in Consumers :
    (closing = "notify" /\ pc[c] # "park") ~> (pc[c] = "refused" \/ ~Sound)
=============================================================================
