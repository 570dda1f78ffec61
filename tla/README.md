# brutils in TLA+

Specifications of `brutils`: the event loop with its signals and slots, the
timers built on threads of their own, the producer/consumer queue, the TCP
server and its sockets, the interface of the HTTP request parser, and the json
generator and parser. The modules are checked with TLC on small instances; for
everything but json and the request parser, TLAPS proofs give the main safety properties for
every value of the constants.

Paths below are relative to `src/` (so `include/brutils/br_object.h` is
`src/include/brutils/br_object.h`). `PROJECT.json` lists for each definition the
lines it was translated from, for each run its properties, and for each hazard
the properties that cover it.

Contents

1. The system: components, state, operations, interactions
2. The modules, and how they correspond to the code
3. What each run checks, its bounds, and the fairness it assumes
4. Where the code and its documentation disagree
5. What is proved
6. What is not modelled
7. Plan

## 1. The system

`brutils` has two layers. `br_object.h` is a small object framework in the manner
of Qt: objects have parents, the root of a tree may own a thread with an event
loop, and signals call slots directly or through event loops. The rest uses it:
timers emit a `timeout` signal from their own threads, the TCP server polls its
sockets in a `std::thread` of its own, and the HTTP classes are connected to
sockets by signals. No component persists anything; a crash loses everything, so crash
recovery is not a question here. The hard behaviour is that of threads: what
happens between a test and a wait, between a copy and its use, between a lock's
release and its next acquisition.

| Component (files) | State | Operations | Talks to |
|---|---|---|---|
| `br_threaded_object` (`br_object.h` 76-186) | `_running`, `_eventList` (a `std::queue`), `_condMutex`, `_cond`, the thread | constructor, `addEvent` (two overloads), `run`, destructor | called by `emit` and `addEventToParent` of any thread; runs their events |
| `br_object` (`br_object.h` 22-74) | its parent | `getThreadId`, `addEvent` (both go up to the root) | finds the `br_threaded_object` of a signal or slot |
| `signal`, `slot` (`br_object.h` 190-450) | the signal's lists of direct and queued slots; the slot's list of signals; the slot's function | `connect`, `disconnect` (two overloads), `emit`, both destructors | each other; the loops of their roots |
| `TimeKeeper` (`timers/TimeKeeper.*`) | `_recordBook`, `_lastRecordId`, `_notification`, `_running`, `_mutex`, `_condVar` | `AddRecord` (two overloads), `CancelRecord`, `run`, destructor | emits `timeout` with `_mutex` held |
| `combined_timer` (`timers/combined_timer.*`) | `_timeKeeperMap`, `_lastTimerId`, `_stopped`, the thread, two mutexes | `addTimer`, `stopTimer`, `run`, destructor | emits `timeout`; used by `TcpServer` |
| `timer` (`timers/timer.h`) | `_deadline`, `_periodic`, `_running`, the thread | `start`, `restart`, `stop`, `notify` | a callback |
| `queue_pc` (`queue_pc.h`) | the queue, `_stopped`, `_mutex`, `_cond` | `push`, `waitPop`, `pop`, `stop` | producers and consumers |
| `TcpServer` (`TcpServer/*`) | the poll list, four maps keyed by file descriptor or timer id, the set of free entries, `_running` | `listen`, `run` (poll, accept, read, drop), `stop`, destructor | the kernel, `TcpSocket`, `combined_timer`; emits `newIncomingConnection` |
| `TcpSocket` (`TcpSocket/*`) | descriptor, status, `_dataBuffer`, a recursive mutex | `connect`, `disconnect`, `setSocketDescriptor`, `read`, `write`, `readFromSocket`, destructor | the kernel; emits `connected`, `disconnected`, `dataReady`, `errorOccurred` |
| `RequestParser_v1x` (`HttpServer/RequestParser.*`) | `_buffer`, `_parsingStatus`, `_requestInProduction` | `newIncomingData`, `newDataReceived_slot` | given data by `HttpConnection` |
| `HttpConnection`, `HttpRequest`, `HttpResponse` | parser pointer; header maps | mostly empty slots; string formatting | `TcpSocket`, parser |
| `Thread`, `ThreadPool` (`Thread/*`) | list of threads, waiting functions | `run`, `execute` | `combined_timer` |
| `json_parser`, `json_generator`, `variant` | none beyond a value | pure functions on text | - |
| `string_utils`, `time_utils`, `singleton_crtp` | none | static helpers | - |

What makes each of them correct:

- **Event loop.** Events run in the order they were added, none lost, none
  twice, none from memory that holds no event; at most one begins after the
  destructor has started; an event that was added runs, and the destructor
  returns.
- **Signals and slots.** The two ends of a connection agree about it, however
  often it is made and taken away; nobody keeps a pointer to a destroyed object;
  an emission calls each connected slot exactly as often as it is connected, in
  the slot's own thread, with the arguments it was given, and emissions of one
  thread do not overtake each other.
- **Timers.** An id means one record, also after the 16-bit counter has wrapped;
  nothing fires early, or after it was cancelled; everything that is due fires;
  every call, the destructor included, returns.
- **Queue.** Items come out in the order they were put in, each once; no item waits
  for a sleeping consumer; after `stop` consumers are released. `pop` does not
  lock, which is where the first of these ends.
- **TCP server.** The tables agree with each other and with the poll list; a
  socket object reads only from its own peer although descriptors that were closed
  come back for others; no timer outlives its connection; only a peer that has
  left is dropped, and it is.
- **TCP socket.** What `read` hands out is what the peer sent, whole, in order and
  once; whoever does not poll is told by `dataReady` that there is data, also when
  the connection ends at the same moment; a connected object never uses a
  descriptor that belongs to another connection; every call returns.
- **Request parser.** Asking for requests until there are none comes to an end.
- **Json.** What the generator writes, the parser reads as the same structure, with
  a float for every number whatever it was, or not at all, and never as a piece of it;
  parsing any text ends with a value or an exception.

What is hard about them, line by line, is the list of hazards in
`PROJECT.json`. The recurring one is a condition variable that is notified
without the mutex its waiter holds: it appears in `br_threaded_object`,
`TimeKeeper`, `combined_timer` and `queue_pc`, and what it costs is different in
each of them.

## 2. The modules

    EventChannel                the abstract ordered channel
      ^ implemented by            ^ implemented by (one consumer)
    EventLoop                   QueuePC
      EventLoop_proofs            QueuePC_proofs

    Connections                 lists of signals and slots
      Connections_proofs
      Dispatch                  + emit, call stacks, loops as channels
        MCDispatch              the instance for TLC
        Dispatch_proofs         extends Connections_proofs

    TimerService                the abstract timer service
      ^ implemented by (until     ^ implemented by
        an id comes back)
    TimeKeeper                  CombinedTimer
      TimeKeeper_proofs           CombinedTimer_proofs

                                ByteStream   the abstract stream of data
                                  ^ implemented by
    TcpServer                   TcpSocket
      TcpServer_proofs            TcpSocket_proofs

    JsonGenerator               variant and json_generator
      JsonParser                the parser, on texts that may be generated
        MCJsonParser            the instance for TLC

    RequestParser

### EventChannel

The promise that both queues make: a log that only grows, `delivered` that
follows it entry by entry, `open` until it is closed for good, and one entry of
grace (a receiver that has been let through before the close may still take one).
`EventLoop` and `QueuePC` instantiate it with a refinement mapping and state as
`RefinesChannel` that their initial states are those of the channel and that every
step is one of it, or none, unless the deque becomes corrupt in that step (see
below); no step follows such a one.

### The deque below both queues

`std::queue` is a `std::deque`: nodes of `NodeSize` cells each, a map of pointers to
the nodes, and a begin and an end cursor that each know their node. `push` writes
the cell at the end cursor and advances it. With the last cell of a node it makes a
new node first, and if the map is full by then it reallocates the map, or moves its
entries to the middle, and rewrites the nodes of both cursors. Until the end cursor
is advanced the push is `moving`. This is the only time `push` touches what
`front()` and `pop()` use, and neither `br_threaded_object` nor `queue_pc` keeps
them apart: `addEvent` and `run` share no lock, and `pop` takes none. Then
`front()` may read any memory (it goes through the map in libc++; libstdc++ reads
the element by its address) and `pop()` may advance a cursor that has just been
replaced. Both modules make that a step to `corrupt`, taken or not, after which
nothing is followed. The same holds for cursors that two threads advance
(`Crowded`), if one of the two is at the end of a node: the cursor leaves its node, or
a node is made or freed twice. `NodeSize` is 2 in the runs and any number in the
proofs; in libstdc++ a node has 512 bytes, that is 16 events.

### TimerService

The promise of both timer classes, without ids, threads or a map: a sequence of the
timers that were set, each `running`, `stopped` or `expired`, with the time it has
`left` and its `period` (`Once` for a single timer; 0 is a duration like any other). `Begin`, `Stop`, `Expire` and `Tick` touch
one timer each, or the time of all; `Replace` is a new timer that takes the place of
an older one, which only `combined_timer` does (`MayReplace`).

- `CombinedTimer` maps the history of the timers it was given (`added`) and the
  map to it: what is left of a timer that lives stands in the map under its id.
  `RefinesService` is `Service!Spec`, without exception; the durations include 0,
  which `addTimer` accepts: such a timer is due at once, and a periodic one always.
- `TimeKeeper` maps its `log`: what is left of a record is its end less the clock.
  Its `RefinesService` requires a step of the service only as long as no id has come
  back (`reused`); after that a record that is over may time out again, and take the
  one that has its id now out of the book.

### ByteStream

The promise of a socket to the code that reads from it: what the peer `sent`, the
part of it that is not lost (`kept`), the part that has `arrived`, the part that was
`delivered`, and whether the connection is `up`. Only `End` loses something, and only
what has not arrived. In `TcpSocket` these are the units sent; `taken`, `buffer` and
`unread` joined; the first two of them; `taken`; and an open file with a peer
that has not reset.

### EventLoop (`br_object.h` 76-186)

The level is that of the races. `_eventList` is the memory of a deque: `cells`
and the two cursors `head` and `tail`. `push` takes no lock, so it is two
steps of the caller, `Construct` (write the cell behind the last one; at the end of
a node, begin to move the map) and `Advance` (read, add and write the end cursor;
because the increment is not atomic it is based on the value read before or the one
in memory now).
`NotifyOne` is the third step. `run()` is `Top` (`while (_running)`), `Evaluate`
(the predicate of the wait), `Block` (the wait begins: only from here is a
notification heard), `Take` (`front()` and the call) and `Finish` (`pop()`). The
destructor is `Stop`, `NotifyAll`, `Join`. `Spurious` is a wakeup without cause.
A cell that holds no event is called like any other; `worker = "undefined"` says
that this happened. `worker = "corrupt"` says that the deque is, by two pushes at the
end of a node or by a push that moves the map while `run` is in `front()` or `pop()`. A loop in `Callers` adds events to itself, from inside an
event.

`Overlap` says whether two calls of `addEvent` may be in progress at once. It is
a constant because it separates what the code does right for every program that
serialises its calls from what goes wrong for those that do not.

### Connections (`br_object.h` 190-450)

A signal's two vectors and a slot's vector are counted: `direct[s, l]`,
`queued[s, l]`, `back[s, l]` say how often the pair is in each. The code only
ever appends and erases by value, so what is in the vectors is decided by the
counts; their order is not (see `Dispatch`). `Connect` with its decision between
direct and queued (`getThreadId` of both ends at that moment, where a root
without a loop answers with the calling thread), the two `disconnect`s and the two
destructors are one action each, with the calls they make to the other side:
`Disconnect(s)` and `DestroySlot(l)` run through a whole list. `Home` gives each
object the thread of its root, `Plain` for a root that is no
`br_threaded_object`, or `NoParent`.

### Dispatch (`br_object.h` 22-74, 190-450)

`Dispatch` EXTENDS `Connections` and adds one event list per loop and one call
stack per thread. `Emit` either posts the emission to the loop of the signal or
begins to fan out in the emitting thread; `FanDirect` and `FanQueued` make one
call each, all direct ones before the queued ones; `RunEvent` lets a loop take its next
event; `Return` leaves a function. `sent` and `calls` are history: which emissions
and which calls were made, an emission with those that were in progress in its
thread (`within`), a call with the entry of the list it is for (`nth`). A slot's function (`Body`) may emit again
(`Reacts`) or change connections (`Change`). The frames are there because the
code keeps references to them: the lambda that `emit` posts captures its
parameters by reference, so an event is `fresh` only as long as the frame that
posted it is still on a stack (`Intact`).

Abstractions, all named in the module:

- Loops are ordered channels here. `EventLoop` implements that as long as calls
  of `addEvent` do not overlap and the deque is sound; run `loop_overlap` says what
  happens otherwise. A lost notification is not abstracted away: `addEvent` of an
  idle loop with an empty queue may leave the loop among the `missed`, which
  sleep past their events. The notification of a later event may wake it, or, of a
  loop that has not begun to wait yet, be lost as well.
- The order of the calls in one emission is not fixed (`todo` is a set), except
  that direct calls come first.
- The bounds `MaxEmits`, `MaxChanges` and `MaxOps` (both together) end a program.
- A program that changes the list of a signal while that signal walks through it
  is left out. In the code this invalidates the iterator of the range-for, and nothing
  can be said of what follows.
- An event whose object has been destroyed is dropped. In the code it is a call
  through a dangling pointer; nothing after it can be said.
- An exception that leaves `emit` ("Object has not parent") ends the behaviour
  (`thrown`).

`InOrder` has an exception that the code needs: queued calls come after all
direct ones, so a slot that is called directly and emits the same signal again
makes the queued calls of its own, later emission before those of the earlier one.
Without `within` the property is false, and TLC shows it with two emissions.

### TimeKeeper (`timers/TimeKeeper.h`, `.cpp`)

`AddRecord` and `CancelRecord` hold `_mutex` from beginning to end and are single
steps. The thread is `Top`, `Look` (`getClosestRecord`, with its assignment
through a reference, which copies a record over another one), `EvalEmpty` and
`EvalTimed` (the predicates), `Park` (the wait begins, the mutex is free), `Lapse`,
`Relock` and `After` (look the record up again, emit). `now` is the clock.
`AddRecord(duration)` locks a mutex it already holds: the caller is `stuck` from
then on. A slot of `timeout` runs in the thread, under `_mutex`: `CallBack` is one
that adds or cancels a record, and with it the thread waits for itself. `log` is
history: which records were handed out and what became of them, and `of` says of each
copy, in the book or in the thread's hand, which of them it is a copy of. `After`
looks for the id of the copy and emits the copy: when the record was cancelled or
copied over during the wait and its id handed out again, a record that is over times
out `again`, and the one that has the id now leaves the book (`lost`). Both happen in
the run; `NoneMistaken` says that they need an id that came back.

### CombinedTimer (`timers/combined_timer.h`, `.cpp`)

A call stops the thread (`Call` sets the flag, `Notify` wakes it), waits for it
to end, changes the map (`Add`, `StopTimer`) and starts a new one. The thread is
`top`, `eval`, `park`, `blocked`, `after`, `emit`; it works on a copy of the closest
timer (`cur`), which is what makes `StoppedIsSilent` worth stating. Time is
relative: a timer holds what is left until it expires, and `Tick` lowers all of
them at once, so that periodic timers need no unbounded clock. Ids are
`-LowId..MaxId` and wrap; -1 is handed out like any other and is also
`getClosestTimerId`'s answer for an empty map. `CallBack` is a slot of `timeout`
that calls the timer: `stopTimer` locks `_dataMutex`, which `run` holds, and
`addTimer` joins the thread it runs in; the thread goes no further.

### QueuePC (`queue_pc.h`)

`Push` and `WaitPop` hold the mutex; `Block` begins the wait; `pop` takes no lock
and is two steps, `Front` and `Pop`, of which the second is not atomic either.
`Extend` is the beginning of a push that moves the map of the deque's nodes, while
which `Front` and `Pop` of a consumer that was promised an item earlier may become
`corrupt`: the mutex `push` holds does not keep them out. `Stop` sets the flag and `NotifyStop` notifies one consumer.

### TcpServer (`TcpServer/*`, and what it does to its `TcpSocket`s)

`file` stands for the kernel: for each descriptor the peer behind it, whether it
is open, has sent a FIN or is dead, and what there is to read (a message that
fills the buffer of `recv` exactly is told apart from a shorter one). The
server's thread is `Poll`, `Accept`, `Accepted`, `Walked`, `Visit`, `Recv`,
`KeepOpen`, `ConnectionClosed` and `Finish`; peers `Arrive`, `Send` and
`Leave`; a timer `Expire`s; `Destroy` is the destructor. `ConnectionClosed` erases the map element
the range-for stands on; what follows is a choice between all outcomes: the walk
may go on with any rest, or crash. Timers take the lowest id that is free, where the
code counts; what becomes of ids in use is `CombinedTimer`'s.

`root` is chosen at the beginning. Below a `br_threaded_object` (`"threaded"`)
`disconnect()` finds itself in another thread than its object's, shuts the
connection down and keeps the descriptor for good. Without one (`"plain"`, the
default parent `nullptr` of `TcpServer.h:38` included) it closes the descriptor. When
it does so by itself, because the peer has ended the connection, the tables keep the
descriptor: `poll` answers `POLLNVAL`, which nobody looks at (`Abandoned`). The
system gives it to the next peer; `addNewConnection` enters it in a second entry of
the list, finds it in `_activeConnections` and destroys the new `TcpSocket`, which
closes it again. That peer is dropped, and an entry of the list is lost with each of
them.

### TcpSocket (`TcpSocket/*`)

One object, either accepted by a server (`file = "open"` at the start) or made for
`connect()`. Every method holds `_mutex` from beginning to end, so a method is one
step (`Read`, `Write`, `Connect`, `Disconnect`, `SetSocketDescriptor`, `Destroy`)
that its caller waits for (`Call`, then `Runs`). `readFromSocket` is not one
step: it is called by the server's thread (`Poll`) and may block in `recv` with the
mutex held, so each `recv` is an action, `RecvData`, `RecvEnd` or `RecvError`. `RecvData`
that filled the block exactly leads to another `recv`.

`own` is the set of threads `disconnect()` takes for the object's own: all of
them below a plain object, since a root without a loop answers `getThreadId` with
the calling thread, or the loop of a threaded parent. `HangUp` is `disconnect()`
with its two outcomes: closed, or shut down and still "connected". `GiveAway` is
the system that gives a closed descriptor to another connection. `write` answers
false after data was sent; since nothing here is a property of its answer, it
stands for what it does to the connection, which may be a reset by the peer or
the signal that ends the program (`alive`).

Abstractions: data is numbered units, `Block` of them what one `recv` takes; a
`disconnect` of another thread comes before or after a `recv`, as the mutex has it;
the last error and the size of the read buffer are only returned to
callers and left out, and so are the peer's address and a `close` that fails.

### JsonGenerator (`variant.h`, `json_generator.*`)

What a `variant` can hold, and the text `generate` makes of it in both layouts.
Texts are sequences of tokens: a string with its quotes is one, so is what a
stream writes of a number, a literal, or a run of white space. A number has one of
three types, `int`, `float` and `double`, which `variant` never converts into one
another. What their conversion loses is kept: an `int` is written in full, a `float`
or a `double` with six digits at most (`Fine`) and from a million on with an exponent
(`"1e+06"`), which the parser cannot read. `null` and the
invalid variant are written as nothing at all (`isNull()` asks whether the `any` is
empty). The generator escapes nothing; strings with quotes in them are left out.

### JsonParser (`json_parser.*`)

The recursive functions as a machine: `stack` holds the containers that are open,
`pc` the function that runs, or `"return"` of a value to the one below. Each
function keeps its own way with errors, which is where the work is: `at(0)`
throws at the end of the text, a word or a number at the very end throws too, a
malformed inner container is returned as a valid empty one and the outer one goes
on behind it, a list with an invalid element is empty, and a quote behind a
backslash is searched for ever (`"string"`). `Init` takes any text of up to
`MaxTokens` tokens and everything `Generate` makes of `Values`: the two modules
are composed in `ComesBack`, which has two halves. `AsRead` says what a value is when
it comes back: every number is a float (`toInt()` of it is 0), a whole number without
its sign and with the digits a float has, a fraction with six digits; null has left its list, or is an
invalid variant in its object. And a container comes back like that or not at all,
as an invalid variant, an exception or an endless search: never a piece of it, or
another value. It may only fail to come back when it holds one of the values that
`Restorable` names: null, invalid, large floats, strings that end in a backslash, an
empty list in the layout with white space.

### RequestParser (`HttpServer/RequestParser.*`)

Data is a sequence of whole lines, told apart by what the parser makes of them
(a request line with or without a query, a header, the empty line). `Receive`
appends and parses; `CallAgain` is the caller that asks for the next request
without new data; `Catch` is one that catches the exception of `header()`.

## 3. The runs

All runs set `CHECK_DEADLOCK FALSE`: each bound on a client's calls, a destroyed
object and a thread that has ended is a state the system may rightly stop in.
That a stop is wrong is what the liveness properties say.

| Run | Bounds | Properties |
|---|---|---|
| `loop_serial` | callers a, b and the loop; 4 events, nodes of 2; calls do not overlap | `LateAtMostOnce` `RefinesChannel` `StaysAwake` `LoopDrains` `AwakeLoopStops` |
| `loop_overlap` | callers a, b; 2 events; calls overlap | violated: `Fifo` |
| `loop_wakeup` | one caller, 2 events | violated: `NothingSleepsForever` |
| `dispatch_emit` | 2 loops, 1 other thread, 2 signals, 2 slots; 1 connection per pair and kind; 3 emissions and 3 changes, 5 together | `Mutual` `NoDangling` `AtHome` `NoneForgotten` `InOrder` `OncePerConnection` `NoCallLost` `EveryCallMade` |
| `dispatch_args` | the same with 2 emissions and changes of each kind, 4 together | violated: `ArgumentsArrive` |
| `timekeeper` | 3 ids, 4 records, time 0..2, durations 0 and 1 | `IdsUnique` `RefinesService` `NeverOversleeps` `FateIsFinal` `LoneRecordFires` `StopReturns` |
| `combined_timer` | 3 ids, 4 timers, durations 0 and 1, one tick late | `RefinesService` `NeverOversleeps` `StoppedIsSilent` `NeverEarly` `EveryTimerExpires` `CallsReturn` |
| `queue_pc` | 1 consumer, 4 items, nodes of 2 | `RefinesChannel` `EveryItemTaken` `StopReleases` |
| `tcp_server` | 2 connections, 2 descriptors, 3 peers, 1 message, 3 timer ids; both roots | `TablesAgree` `OwnPeer` `TimersKnown` `OnlyLeaversDropped` `LeaversRemoved` |
| `tcp_socket` | 2 threads beside the server's, blocks of 2, 4 units of data | `RefinesStream` `Announced` `OwnDescriptor` `CallsReturn` |
| `request_parser` | 6 lines in any portions | violated: `CallsEnd` |
| `json` | any text of up to 5 tokens; values nested two deep, two members each, both layouts | `ComesBack` `Ends` |

No run of a module with proofs names its type invariant: `DispatchTypeOK` and the
`TypeOK` of the others are theorems (section 5). So are `AtMostOnce` and `Fifo`
of `EventLoop` (the latter for calls that do not overlap), `MapIsLive` of
`CombinedTimer`, `NoneMistaken` of `TimeKeeper` and `StreamIntact` of `TcpSocket`,
beside the refinements that the runs check.

Why the bounds are enough. Each lets the case it is about happen, with some room.
TLC explores all states within minutes (5,017 for `loop_serial`, 398,859 for
`dispatch_emit`, 204,528 for `timekeeper`, 686,992 for `combined_timer`, 398 for
`queue_pc`, 705,906 for `tcp_server`, 148,863 for `tcp_socket`, 417,364 for `json`).
Between them the runs fire every action.

- *Event loop*: a wakeup is lost with one event, overlapping pushes need two,
  an event that adds events to its own loop three; the fourth comes behind it. The
  second and the fourth stand at the end of a node, the first and the third do not.
- *Dispatch*: a reaction needs two emissions (the second from a slot), and three
  show one of a slot that answers its own signal, within the first. A
  connection made, taken away and made again, or made and its object destroyed
  while an event for it is queued, needs three changes. Signal s1 has a loop, s2 no
  parent; l1 shares s1's loop and l2 does not: every combination of thread
  that `connect` and `emit` distinguish, except the root that is a plain
  `br_object` (see section 6). Pairs are connected at most once per kind in the
  run; any number is covered by the proofs.
- *TimeKeeper*: three ids and four records, so that an id comes back while
  another is in use; the search skips one. Two time units let one record be due
  while another is not.
- *CombinedTimer*: ids -1, 0, 1; the fourth timer is given an id for the second
  time. Single and periodic timers are mixed freely, and with the duration 0.
- *QueuePC*: two items in the queue, one in a consumer's hands, one behind; each
  second push may move the map of the nodes.
- *RequestParser*: a whole request is three lines; six hold two of them, or one
  and the error after it.
- *TcpServer*: a full server with one peer outside (three peers, two entries). Below a
  plain root a descriptor comes back for the second peer and again for the third,
  with the old connection in the tables or without it; below a `br_threaded_object`
  none is closed, so that none ever comes back.
- *TcpSocket*: data that fills no block, one exactly, and two; two threads, one of
  them the object's own, so that each may disconnect under the other.
- *Json*: a malformed container inside another one, with text behind it, needs four
  tokens; a key with its colon and value inside an object needs five. Generated
  values hold every leaf, each type of number among them, and containers of containers.

Each property of a passing run has a mutant of a mapped definition that breaks
it (`PROJECT.json` "mutants"); the mutants stand beside the definition they
change, with a comment that begins with "Mutant".

### Fairness

Weak fairness is put on the steps of a thread that can go on: a thread that is
not waiting for anything is scheduled in the end, and a function that was called
returns. It is not put on:

- beginning a call (`Construct`, `Emit`, `Change`, `Push`, `Stop`, `AddRecord`,
  `Arrive`...): nothing in the code makes a client act;
- `Spurious`: the C++ standard allows a wakeup without notification and
  promises none;
- `Leave`, `Send`, `Expire`: peers do what they like.

| Module | Weak fairness |
|---|---|
| EventLoop | `Run`; `NotifyAll \/ Join`; per caller `Advance \/ NotifyOne` |
| Dispatch | per thread `Step`; per loop `RunEvent`, unless the loop has missed the notification (and as long as no exception has ended the program) |
| TimeKeeper | `Tick`, `Run`, `NotifyStop \/ Join` |
| CombinedTimer | `Tick`, `Return`, `Run`; `Tick` waits once a timer is `MaxLate` late: the thread is not starved for ever |
| QueuePC | the rest of a `Push` that moves the nodes; `NotifyStop`; per consumer `Consume`, since consumers call `waitPop` in a loop |
| TcpServer | `Run` (`root` never changes): `poll` has a time limit |
| TcpSocket | `Server`; per thread `Method`. A thread that waits for the mutex gets it in the end: the server's thread takes it only as often as there is something to read, which is bounded |
| JsonParser | `Next`: a function that was called goes on |
| RequestParser | `CallAgain`, `Catch`: the caller that `RequestParser.h:35` describes |

### Liveness that holds, and how far

Because notifications are sent without the mutex, the plain "everything that was
added happens" is false for the event loop and for `TimeKeeper`'s destructor. The
passing runs state exactly how far it is true, and thereby where the hole is:

- `LoopDrains`, `AwakeLoopStops`: an event that finds the loop awake, or a
  notification that finds it blocked, is enough. The hole is the step from
  `Evaluate` to `Block`. `StaysAwake` is the step by step half of both: the loop
  does not lose what it has been told of. A deque that has become corrupt is excepted.
- `EveryCallMade` (`Dispatch`): excepted are calls whose slot is destroyed or
  disconnected first, and the calls that a loop has gone to sleep past
  (`Overslept`): it is the hole of `LoopDrains`, seen from a signal. `NoCallLost`, the step
  by step half, needs no such exception: a call that is slept past is still due.
- `LoneRecordFires` (`TimeKeeper`): only a record that is alone in the book. With a
  second one `getClosestRecord` (`TimeKeeper.cpp:153`) assigns through a reference
  and copies the closer record over the first, which may then never fire. Excepted
  too: a caller of `AddRecord(duration)` and a slot that calls back (`Stuck`).
- `StopReturns` (`TimeKeeper`): `stop()` returns if there is a record to wake up
  for, unless a slot has called back.
- `EveryTimerExpires`, `CallsReturn` (`CombinedTimer`): here the lost notification
  only costs time, since the wait has a limit. Excepted: a timer with the id -1,
  which ends the thread (`Silenced`), and a slot that calls back.
- `LeaversRemoved` (`TcpServer`): excepted is the full server with a peer in the
  backlog (`Full`). It looks at the listening descriptor only
  (`TcpServer.cpp:165`), so that no connection is ever closed again, although the
  comment at line 219 says that it waits until one is. Excepted too: a peer that holds
  the thread in `recv` (`Waiting`), the walk that crashed and the server that is over
  (`Over`), and, below a plain root, the connection whose socket has closed its
  descriptor, which stays in the tables (`Abandoned`).
- `CallsReturn` (`TcpSocket`): a peer that has sent whole blocks only and stays
  connected holds the server's thread in `recv`, and with it the mutex and every
  other method, `disconnect()` included (`Held`).
- `Ends` (`JsonParser`): every text without an escaped quote.
- `EveryItemTaken` (`QueuePC`): `push` notifies with the mutex held, and no item
  is ever forgotten; `StopReleases` excludes the consumer about to sleep. A corrupt
  deque is excepted from both.

### With two consumers

`QueuePC` with `Consumers = {c1, c2}` breaks `RefinesChannel` at once: both are
told by `waitPop` that there is an item, and the second `pop` reads from an empty
queue. `queue_pc.h` does not say how many consumers it is meant for, so this is
a hazard and not a finding.

## 4. Where the code and its documentation disagree

Each is a run that must end in a violation.

| Run | Code | What happens |
|---|---|---|
| `loop_overlap` | `br_object.h:120` | `addEvent` pushes without `_condMutex`. Two threads that emit at the same time overwrite each other's event, or leave a cell that holds none for `run()` to call. Line 384 calls `emit` thread-safe. |
| `loop_wakeup` | `br_object.h:121`, `97`-`98` | A notification between the predicate and the wait reaches nobody: the event waits for the next one, or the destructor's `join()` does not return. |
| `dispatch_args` | `br_object.h:396`, `262` | The posted lambda captures the parameters by reference; `emit` has returned when the loop reads them. |
| `request_parser` | `RequestParser.cpp:57` | Parsed data is never taken out of `_buffer`: every call returns the first request again. `RequestParser.h:35` asks callers to call until there is none. |

`loop_wakeup` also contradicts `README.md:38` ("When a signal is emitted or a slot
function is invoked, it is put in the event queue of respective parent threads and
conditional variable is notified. So, the thread only runs when an event occurs"): an
event may occur, and the thread not run.

Other defects are no run of their own: a property that passes excepts them by name,
which is where they are pinned down (the list under "Liveness that holds, and how
far" is one half of them). The others:

- `queue_pc` and the event loop: a push that moves the map of the deque's nodes meets
  a `front()` or `pop()` that holds no lock, even with one producer and one consumer
  (`queue_pc.h:23`, `38`-`39`; `br_object.h:120`, `156`-`158`). `README.md:19` says of
  `queue_pc` that its "only aim is to provide safe way to pass data between threads".
  The two `RefinesChannel` hold up to that step.
- `TimeKeeper.cpp:126`-`133`: after the wait only the id is looked for. Once ids come
  back, a record that was cancelled may time out, and the one that has its id now never
  does (`again` and `lost`, which `FateIsFinal` and `RefinesService` except).
- `TcpServer` without a `br_threaded_object`: peers that are given a descriptor the
  tables still have are dropped, and the list loses an entry with each
  (`TablesAgree`, last part); a descriptor that was accepted while the list is full is
  forgotten and never closed.
- Json: every number comes back as a float, and the values `Restorable` names need not
  come back.

## 5. What is proved

TLAPS checks the theorems of eight modules, for every value of the constants
that satisfies the named assumption of the module (`EventLoopAssumption`,
`ConnectionsAssumption`, `DispatchAssumption`, `QueueAssumption`,
`TimeKeeperAssumption`, `CombinedTimerAssumption`, `TcpServerAssumption`,
`TcpSocketAssumption`), which say what kind of thing each constant is. TLC
evaluates each of them in the run of its module. What a theorem assumes beyond
that stands in its ASSUME and is named below.

### EventLoop_proofs

These hold for every `NodeSize`; a deque that has become corrupt ends what they say of
the events.

- `StopBounded`: `Spec => []LateAtMostOnce`. The invariant `StopInv` ties the
  count to where the loop stands: once `_running` is false at most one event can
  be begun, because `run` comes back to `Top` after each, and `late = 1` says
  the loop is running it, or past it.
- `TypeCorrect`: `Spec => []TypeOK`, also when calls overlap. That the end
  cursor stays within the memory is not inductive by itself: an advance can be
  based on an old cursor. `TypeInv` adds a counting argument: the cursor plus
  the number of calls that have built an event and not yet advanced is at most
  the number of events made.
- `NeverTwice`: `Spec => []AtMostOnce`, for overlapping calls too, as long as the
  deque is not corrupt. What the race of `loop_overlap` can lose it can never run twice: `OnceInv` says that an event is in one
  cell at most, and has left it when it has been run.
- `SerialFifo` and `ImplementsChannel`, both with `ASSUME Overlap = FALSE`: the
  events are run in order until the deque is corrupt, and `Spec => RefinesChannel`. `SerialInv` says that
  at most one call is in progress and its event stands right behind the last
  one, and that cells, cursor and `executed` are all sections of the same
  sequence 1, 2, 3... `StepImplements` maps each step to a step of the channel
  or a stutter.
- `LoopStaysAwake`: `Spec => StaysAwake`, also when calls overlap. Beside the
  types it needs `CountInv` (what was begun is what was taken out, and the event
  that runs): that `run` goes to sleep with nothing behind its cursor then means
  that everything up to the end cursor has been run.

### Connections_proofs

`ConnInv` is `TypeOK`, `Mutual` and `NoDangling` together, and inductive:
destroying an object takes exactly the entries off the other side's lists that
`Mutual` says are there, so nothing dangling is left. From it
`ConnectionsTyped`, `ConnectionsMutual`, `ConnectionsSafe`. These hold for any
number of connections per pair, which `dispatch_emit` bounds by one.

### Dispatch_proofs

- `DispatchMutual`, `DispatchSafe`: `DispInv` is `ConnInv`
  together with the types of stacks and queues (`Typed`), and what frames and
  events rely on (`FramesOK`, `EventsOK`). The key part: the calls an emission has
  left are among those it would have to make if it began now, since nobody
  changes the connections of a signal that is walking.
- `DispatchAtHome`: with `ASSUME "direct" \notin Types` a queued call is made in the
  slot's own thread, a direct one in that of the signal's loop, or of the emitter if
  the signal has none; between objects of loops that is the slot's own in any case. `HomeInv` adds that a direct connection between
  objects of loops joins objects of the same loop, and that every call made so
  far was at home.
- `DispatchTyped`: `DispInv` and the bounds of the counters (`BoundInv`) give
  `DispatchTypeOK`: an event waits in the loop of the object it is for, and a loop that
  sleeps past a notification is idle and has one.
- `DispatchNoneForgotten`: beside `DispInv`, a signal without parent has no queued
  connections (`DirectOnly`), which `emit` would pass over; the rest is counting
  the calls of `Todo` (`CountTwo`).
- `DispatchInOrder`, `DispatchOncePerConnection`: one invariant, `OrderInv`, for
  both. A call is due in three stages: ahead of an emission in progress (`Ahead`),
  waiting as an event, made. Between any two calls, whatever their stages, the
  one further on was due by an emission not later than the other's, of the same
  sender, or the other was emitted within it; and they are not the same call.
  `CallsInLine` says so for two calls made, `HistoryOK` for one made and one ahead,
  `WaitsOK` for one that waits against those made and those ahead, and `LinesOK`
  for two that wait; `OncePerConnection` reads from it that no list entry is called
  twice for an emission, and that no call is both made and still due (`Awaited`); `ProgressOK` and `OneFanEach` say which emissions a thread
  can have in progress, and that their way to the signal is behind them. A step moves one call from one stage
  to the next.
- `DispatchNoCallLost`: the safety half of `EveryCallMade`. A call that is due
  stands in a frame or in an event (`DueStands`); one lemma per step shows that
  what takes the frame or the event away hands the call on. An event that is
  dropped because its signal is gone had no call to make, by `NoDangling`; a
  change made while an event is on its way to a signal leaves the call due as
  long as one connection is left. No ordering is needed, only `DispInv`.

### QueuePC_proofs

`QueueImplementsChannel`: `Spec => RefinesChannel`, with `ASSUME NEW c, Consumers
= {c}`. `PopInv` says what the only consumer relies on between `waitPop` and the end
of `pop`, where it holds no lock: the item it was promised is there and still the
first, until the deque is corrupt. `CloseInv` says that a late item was promised before the stop. With two
consumers `PopInv` fails, as TLC shows. Under the same assumption
`QueueTypeCorrect` (the cursors never cross), and `QueueNoneSleepsOver`: the
consumer never waits, or is on its way into the wait, while an item is there.
This is the safety half of `EveryItemTaken`; `NoneSleepsOver`, defined with the
proof, is inductive beside `QueueInv`, because `push` holds the mutex that
`waitPop` keeps from its look at the queue to the beginning of the wait.
`QueueHearingStays` is the safety half of `StopReleases`: a consumer that is going to
learn of the stop (`Hears`) never stops being one that will.

### TimeKeeper_proofs

`Inv` adds to the properties that a record that lives is the latest that was given
its id (`LiveInv`), and that, until an id comes back, whatever stands in the book,
under whichever key, or was copied from it, is a record as it was handed out
(`OnceInv`). It is what survives of the book after `getClosestRecord` has copied
records over one another. From it `KeeperTypeCorrect`, `KeeperIdsUnique`,
`KeeperNoneMistaken` and `KeeperFateIsFinal`. `KeeperNeverOversleeps` needs none of it,
only types and who holds the mutex: `SleepInv` says that from the look at the book
to the end of the wait no record ends before the thread's, unless `_notification`
is set, and that it is not while the thread waits: whoever changes the book does so
under the mutex, which the thread holds from its look on, and sets the flag. It is what is left, in `TimeKeeper`, of "what
is due fires": a record that is copied over may never fire, but never because the
thread sleeps past it. The lemma `NewIdIsFree` shows that the
search for an id ends at a free one, by arithmetic modulo the number of ids.

`KeeperImplementsService`: `Spec => RefinesService`. Each action has a lemma that
names its step of the service; the one for `After` rests on `OnceInv`, since the
record the thread looks up again is, until an id comes back, the one that was handed
out under that id. `KeeperHearingStays` is the safety half of `StopReturns`: a thread
that does not miss the notification of the destructor goes on to its end without
waiting again for nothing. It needs only that `_running` is false from `stop()` on
(`StopInv`).

### CombinedTimer_proofs

`Inv`: a timer that lives is the latest that was given its id (`LiveInv`); the
thread's copy is that of a timer in the map (`CopyInv`), because the map only
changes while there is no thread, or by the thread's own hand; and what
`stopTimer` has found was given out (`CallInv`), although it may have expired
since. `EmissionIsDue` draws from it that only a timer that lives and is due
fires. Theorems: `TimersTypeCorrect`, `TimersMapIsLive`, `TimersStoppedIsSilent`,
`TimersNeverEarly`. `TimersNeverOversleep` adds `ServedInv`: between two calls the
thread has only ended if there was nothing to wait for, since every call that
joins it starts it again, and while it works on a copy no timer in the map expires
before it.

`TimersImplementService`: `Spec => RefinesService`, by one lemma per action.
`MapIsLive` gives each timer that lives its entry in the map, so that `addTimer`
under an id in use is `Replace` of exactly one timer and an emission `Expire` of one;
`CopyInv` lets a periodic timer begin again with its own duration. `Bounds` adds
that every duration comes from `Durations`, hence is not the `Once` that stands for a
timer that expires once.

### TcpServer_proofs

`ServerInv` has four parts: what the walk over the connections stands on, the
tables, the peers and the timers; nothing is assumed about the root. `PeerInv` says
that the descriptor of a connected `TcpSocket` is not closed, so that `accept` cannot
return it for another peer; when it returns one that is in the tables all the
same, its socket there is not connected any more, which below a `br_threaded_object`
never happens. `TimerInv` lets the two maps hold leftovers of expired timers but never
a wrong entry for one that runs. Theorems: `ServerTypeCorrect`, `ServerTablesAgree`,
`ServerOwnPeer`, `ServerTimersKnown`. `ServerOnlyLeaversDropped` adds `HangUpInv`: a
hang-up that `poll` reported of an entry is that of the connection that has the entry
now, or its socket has disconnected, because a peer that is accepted between `poll`
and the walk gets an entry of which no hang-up was reported.

### TcpSocket_proofs

`Inv` is `TypeOK`, `OwnDescriptor`, `StreamInv` and `AnnouncedInv`. `StreamInv` says
that what was read, the buffer and what the system holds, joined, is an initial
section of what was sent, and all of it while the connection stands; each
step moves data from one of the three to the next (`MovedData`) or drops the
last. `AnnouncedInv` covers the middle of `readFromSocket`, where data has
arrived that will still be announced. Theorems: `SocketTypeCorrect`,
`DescriptorOwned`, `DataAnnounced`, `StreamArrivesIntact`, and
`SocketImplementsStream`: `Spec => RefinesStream`. A step that moves data is `Arrive` or
`Deliver` (`MovedData`, `ReceivedData`), one that drops what is unread is `End`
(`DroppedStreams`), and `connect` brings no connection up behind a peer's back,
since by `StreamInv` only a connected object has a peer.

Only model-checked: all liveness (the prover does not handle fairness and
`ENABLED`), of which `NoCallLost`, `NeverOversleeps`, `NoneSleepsOver`, `StaysAwake`
and `HearingStays` are the safety part that can be proved; and the json properties, since what a recursive definition
computes is out of the prover's reach. Every safety property that a run of another
module checks is a theorem.

## 6. What is not modelled

- **`timer`**: `_running` is never set to true, so the wait returns at once and the
  function is never called. There is no behaviour to explore.
- **`Thread`, `ThreadPool`**: the `execute` templates are defined in the `.cpp`
  files and instantiated nowhere, so no program can call them; what they would do
  is create a thread that is not given the function, and the slots for finished
  threads and timeouts are not connected to any signal. There is nothing that runs.
- **`HttpConnection`, `HttpRequest`, `HttpResponse`**: most slots are empty, the
  constructor dereferences a parser that was never set, and the rest are records
  of strings.
- **`string_utils`, `time_utils`, `singleton_crtp`**: stateless helpers.
- **Parts of modelled components**: `TcpServer::listen` up to its success;
  `timeoutOnSocket`, which is never called; handing sockets to an application,
  since `newIncomingConnection` is never emitted; `newDataReceived_slot`; several
  threads calling one `combined_timer`; vectors changed under a walking `emit`; a slot
  without a function; objects below a plain `br_object` in a run of `Dispatch` (the
  model has them, no run does). Of `TcpSocket` the last error, the size of the
  read buffer, the peer's address and a `close` that fails. `connect()` never sets
  the family of its address; that Linux takes such a call for the end of an
  association and lets it succeed without a peer is one of the outcomes of `Connect`.
  Of json the digits of numbers, and strings with quotes in them.

## 7. Plan

The order was: the event loop (everything else rests on it), its abstract
channel, connections, dispatch, then the timers, the queue, the server and the
request parser; after that slots that call back, the socket, json, and the
proofs of what had only been checked. What is left, most important first:

1. *Dispatch, vector level.* The walk of `emit` with an index into the vector, so
   that changes during a walk become a choice of outcomes and not a
   restriction; a run with objects below a plain `br_object`, for the exception
   in the middle of `callQueuedConnections`.
2. *Server and socket together.* Sockets that an application holds while the server
   drops its connections, as soon as the code hands sockets out.
3. *Several threads on one `combined_timer`*, whose `addTimer` takes no lock.
4. *Proofs.* The vector-level walk of item 1, as a refinement of `Dispatch`.
