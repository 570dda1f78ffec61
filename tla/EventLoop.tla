----------------------------- MODULE EventLoop ------------------------------
(***************************************************************************)
(* br_threaded_object (include/brutils/br_object.h): one thread, made by   *)
(* the constructor, that runs the functions other threads add with         *)
(* addEvent, until the destructor stops and joins it.                      *)
(*                                                                         *)
(* The event list is a std::queue over a std::deque and addEvent touches   *)
(* it without a lock, so the model follows the deque's own steps: an       *)
(* element is built in the cell behind the last one, then the end cursor   *)
(* is advanced.  The cells are in nodes, and a push that fills the last    *)
(* cell of one goes on in a new node; when the map of the nodes is full by *)
(* then it moves the map, and the begin cursor with it.  Whoever comes in  *)
(* between may leave the deque corrupt; what follows is not followed any   *)
(* further.  The mutex of the condition variable is only ever taken by the *)
(* loop itself, so it excludes nobody and is not a variable.               *)
(***************************************************************************)
EXTENDS Naturals, Sequences

CONSTANTS
  Callers,      \* the threads that call addEvent on this object
  Loop,         \* the object's own thread; a member of Callers when an event
                \*   running in the loop adds events to the same loop
  Overlap,      \* whether two calls of addEvent may be in progress at once
  NodeSize,     \* how many events there are in a node of the deque
  MaxEvents     \* bound: number of calls of addEvent

ASSUME EventLoopAssumption ==
  /\ MaxEvents \in Nat
  /\ NodeSize \in Nat \ {0}
  /\ Overlap \in BOOLEAN

VARIABLES
  running,      \* _running
  cells,        \* the memory of _eventList; the n-th call adds event n
  head, tail,   \* begin and end cursor: the elements are head+1 .. tail
  worker,       \* where run() stands in the object's thread
  caller,       \* where each thread stands in addEvent
  cursor,       \* the end cursor a thread read when it built its element
  made,         \* number of calls of addEvent so far: names the events
  executed,     \* the events begun by run(), in order
  late,         \* how many of them were begun after _running was cleared
  owner         \* where the destructor stands

queueVars == <<cells, head, tail>>
callVars  == <<caller, cursor, made>>
vars == <<running, queueVars, worker, callVars, executed, late, owner>>

Raw == 0                                    \* memory that holds no element
Empty == head = tail                        \* _eventList.empty()
LastOfNode(c) == (c + 1) % NodeSize = 0     \* the cell that cursor c stands at
Moving == \E t \in Callers : caller[t] = "moving"
External == Callers \ {Loop}

Init ==
  /\ running = TRUE
  /\ cells = [i \in 1..MaxEvents + 1 |-> Raw]
  /\ head = 0 /\ tail = 0
  /\ worker = "top"
  /\ caller = [t \in Callers |-> "idle"]
  /\ cursor = [t \in Callers |-> 0]
  /\ made = 0
  /\ executed = <<>>
  /\ late = 0
  /\ owner = "alive"

-----------------------------------------------------------------------------
(* addEvent, called by t: push(event), then notify_one().                  *)

\* The loop's own thread calls addEvent only from inside an event; nobody
\* else calls it on an object that is being destroyed.
MayCall(t) ==
  /\ caller[t] = "idle"
  /\ IF t = Loop THEN worker = "running" ELSE owner = "alive"
  /\ Overlap \/ \A u \in Callers : caller[u] = "idle"

\* The element is copied into the cell behind the last one.  With the last cell
\* of a node a new node is made, and the map of the nodes may be moved.
Construct(t) ==
  /\ MayCall(t)
  /\ made < MaxEvents
  /\ made' = made + 1
  /\ cells' = [cells EXCEPT ![tail + 1] = made + 1]
  /\ cursor' = [cursor EXCEPT ![t] = tail]
  /\ \E how \in IF LastOfNode(tail) THEN {"built", "moving"} ELSE {"built"} :
       caller' = [caller EXCEPT ![t] = how]
  /\ UNCHANGED <<running, head, tail, worker, executed, late, owner>>

\* Another call has advanced the cursor in between, into a new node or to the
\* last cell of one.
Crowded(t) == tail # cursor[t] /\ (LastOfNode(cursor[t]) \/ LastOfNode(tail))

\* The end cursor is advanced.  The increment is not atomic: it uses either
\* the value already read or the one in memory now.  At the end of a node it may
\* lead out of the node, or a node is made twice.
Advance(t) ==
  /\ caller[t] \in {"built", "moving"}
  /\ \E c \in {cursor[t], tail} : tail' = c + 1
  /\ worker' \in IF Crowded(t) THEN {worker, "corrupt"} ELSE {worker}
  /\ caller' = [caller EXCEPT ![t] = "pushed"]
  /\ UNCHANGED <<running, cells, head, cursor, made, executed, late, owner>>

\* Mutant: the notification is left out.
NeverWoken(pc) == pc

\* A notification reaches the loop only if it is blocked by now.
Woken(pc) == IF pc = "blocked" THEN "evaluate" ELSE pc

NotifyOne(t) ==
  /\ caller[t] = "pushed"
  /\ caller' = [caller EXCEPT ![t] = "idle"]
  /\ worker' = Woken(worker)
  /\ UNCHANGED <<running, queueVars, cursor, made, executed, late, owner>>

-----------------------------------------------------------------------------
(* run(), in the object's own thread.                                      *)

\* Mutant: while (true).
TopForever ==
  /\ worker = "top"
  /\ worker' = IF owner = "join" /\ Empty THEN "done" ELSE "evaluate"
  /\ UNCHANGED <<running, queueVars, callVars, executed, late, owner>>

\* while (_running)
Top ==
  /\ worker = "top"
  /\ worker' = IF running THEN "evaluate" ELSE "done"
  /\ UNCHANGED <<running, queueVars, callVars, executed, late, owner>>

\* Mutant: the predicate of the wait forgets _running.
EvaluateQueueOnly ==
  /\ worker = "evaluate"
  /\ worker' = IF ~Empty THEN "take" ELSE "toBlock"
  /\ UNCHANGED <<running, queueVars, callVars, executed, late, owner>>

\* The predicate of _cond.wait, before the first wait and after each wakeup.
Evaluate ==
  /\ worker = "evaluate"
  /\ worker' = IF ~Empty \/ ~running THEN "take" ELSE "toBlock"
  /\ UNCHANGED <<running, queueVars, callVars, executed, late, owner>>

\* The wait itself: from here on, and not before, a notification is seen.
Block ==
  /\ worker = "toBlock"
  /\ worker' = "blocked"
  /\ UNCHANGED <<running, queueVars, callVars, executed, late, owner>>

Spurious ==
  /\ worker = "blocked"
  /\ worker' = "evaluate"
  /\ UNCHANGED <<running, queueVars, callVars, executed, late, owner>>

\* Mutant: the event at the back is taken instead of the one in front.
TakeBack ==
  /\ worker = "take"
  /\ IF Empty
     THEN worker' = "top" /\ UNCHANGED <<executed, late>>
     ELSE /\ worker' = "running"
          /\ executed' = Append(executed, cells[tail])
          /\ late' = IF running THEN late ELSE late + 1
  /\ UNCHANGED <<running, queueVars, callVars, owner>>

\* if (!_eventList.empty()) event = front(); event().  A cell that holds no
\* element is called like any other: what happens then is undefined.  While the
\* map of the nodes is moved, front() may answer with any memory.
Take ==
  /\ worker = "take"
  /\ \/ /\ Empty
        /\ worker' = "top"
        /\ UNCHANGED <<executed, late>>
     \/ /\ ~Empty
        /\ IF cells[head + 1] = Raw
           THEN worker' = "undefined" /\ UNCHANGED <<executed, late>>
           ELSE /\ worker' = "running"
                /\ executed' = Append(executed, cells[head + 1])
                /\ late' = IF running THEN late ELSE late + 1
     \/ ~Empty /\ Moving /\ worker' = "corrupt" /\ UNCHANGED <<executed, late>>
  /\ UNCHANGED <<running, queueVars, callVars, owner>>

\* The event returns; _eventList.pop() destroys the element and advances the
\* begin cursor, which a push that moves the map of the nodes writes too.
Finish ==
  /\ worker = "running"
  /\ Loop \in Callers => caller[Loop] = "idle"
  /\ cells' = [cells EXCEPT ![head + 1] = Raw]
  /\ head' = head + 1
  /\ worker' \in IF Moving THEN {"top", "corrupt"} ELSE {"top"}
  /\ UNCHANGED <<running, tail, callVars, executed, late, owner>>

-----------------------------------------------------------------------------
(* ~br_threaded_object, in the thread that owns the object, once no other  *)
(* thread uses it any more.                                                *)

Stop ==
  /\ owner = "alive"
  /\ \A t \in External : caller[t] = "idle"
  /\ running' = FALSE
  /\ owner' = "notify"
  /\ UNCHANGED <<queueVars, worker, callVars, executed, late>>

NotifyAll ==
  /\ owner = "notify"
  /\ owner' = "join"
  /\ worker' = Woken(worker)
  /\ UNCHANGED <<running, queueVars, callVars, executed, late>>

Join ==
  /\ owner = "join"
  /\ worker = "done"
  /\ owner' = "destroyed"
  /\ UNCHANGED <<running, queueVars, worker, callVars, executed, late>>

-----------------------------------------------------------------------------
AddEvent(t) == Construct(t) \/ Advance(t) \/ NotifyOne(t)
Run == Top \/ Evaluate \/ Block \/ Take \/ Finish
Destroy == Stop \/ NotifyAll \/ Join

Next == (\E t \in Callers : AddEvent(t)) \/ Run \/ Spurious \/ Destroy

Spec == Init /\ [][Next]_vars

\* A thread that can take its next step takes it: the scheduler is fair, the
\* functions run as events return.  Nothing makes a caller start a call, the
\* owner begin the destruction, or a wakeup without a notification happen.
Fairness ==
  /\ WF_vars(Run)
  /\ WF_vars(NotifyAll \/ Join)
  /\ \A t \in Callers : WF_vars(Advance(t) \/ NotifyOne(t))

FairSpec == Spec /\ Fairness

-----------------------------------------------------------------------------
\* Every variable keeps its type, whatever the interleaving.
TypeOK ==
  /\ running \in BOOLEAN
  /\ cells \in [1..MaxEvents + 1 -> 0..MaxEvents]
  /\ head \in Nat /\ tail \in 0..MaxEvents
  /\ worker \in {"top", "evaluate", "toBlock", "blocked", "take", "running",
                 "done", "undefined", "corrupt"}
  /\ caller \in [Callers -> {"idle", "built", "moving", "pushed"}]
  /\ cursor \in [Callers -> 0..MaxEvents]
  /\ made \in 0..MaxEvents
  /\ executed \in Seq(1..MaxEvents)
  /\ late \in Nat
  /\ owner \in {"alive", "notify", "join", "destroyed"}

\* The events are begun in the order their addEvent calls were made, none
\* lost, none run twice, and run() never calls memory that holds no event
\* (addEvent against front/pop of run).  A deque that has become corrupt ends
\* the program here.
Fifo ==
  /\ worker # "undefined"
  /\ \A i \in DOMAIN executed : executed[i] = i

\* Even when calls of addEvent overlap, and events are lost, no event is run
\* twice as long as the deque is not corrupt: run() destroys the element it has
\* just called.
AtMostOnce == \A i, j \in DOMAIN executed : executed[i] = executed[j] => i = j

\* After the destructor cleared _running at most one more event is begun:
\* run() tests _running before each wait and runs one event per wait.
LateAtMostOnce == late <= 1

\* What the channel promises: order, at most once, and one event of grace.  It
\* is kept until a push moves the map of the deque's nodes while run() takes an
\* event out, which nothing prevents.
Channel == INSTANCE EventChannel WITH
  Event <- 1..MaxEvents,
  log <- [i \in 1..tail |-> i],
  delivered <- executed,
  open <- running,
  grace <- late = 0
RefinesChannel ==
  Channel!Init /\ [][worker' # "corrupt" => Channel!Next]_(Channel!chanVars)

-----------------------------------------------------------------------------
\* The loop is awake, or a notification is on its way that will find it blocked.
Roused ==
  \/ worker \notin {"toBlock", "blocked"}
  \/ worker = "blocked" /\ \E t \in Callers : caller[t] = "pushed"

\* The same of a loop that has to see that _running was cleared.
StopIsHeard ==
  /\ ~running
  /\ owner = "notify" => worker # "toBlock"
  /\ owner = "join" => worker \notin {"toBlock", "blocked"}

\* While an event waits, a loop that is awake never goes back to sleep past
\* it, and a notification that finds the loop blocked is not used up by
\* something else (addEvent against the predicate of run's wait); nor does a
\* loop that will hear of the stop ever become deaf to it.
StaysAwake ==
  [][/\ \A n \in 1..MaxEvents :
          n <= tail /\ Roused => Roused' \/ n <= Len(executed') \/ ~running'
     /\ StopIsHeard => StopIsHeard' \/ owner' = "destroyed"]_vars

\* An event that is in the queue while the loop is awake, or about to be
\* notified while it is blocked, is run unless the object is stopped or the
\* deque corrupt: run() does not go back to waiting with work left, and one
\* notification is enough.
LoopDrains ==
  \A n \in 1..MaxEvents :
    (n <= tail /\ Roused) ~> (n <= Len(executed) \/ ~running \/ worker = "corrupt")

\* A loop that is awake, or still to be notified, when the destructor has
\* cleared _running ends, and the destructor returns.
AwakeLoopStops == StopIsHeard ~> (owner = "destroyed" \/ worker = "corrupt")

\* br_object.h:116 and README.md: an event that was added is run in the
\* object's thread unless the object is stopped first, and the destructor
\* stops the thread and returns; here of a program whose deque stays sound.
NothingSleepsForever ==
  /\ \A n \in 1..MaxEvents :
       (n <= tail) ~> (n <= Len(executed) \/ ~running \/ worker = "corrupt")
  /\ (owner = "notify") ~> (owner = "destroyed" \/ worker = "corrupt")
=============================================================================
