------------------------------ MODULE Dispatch ------------------------------
(***************************************************************************)
(* Emitting signals (include/brutils/br_object.h): how emit finds its way  *)
(* to the thread of the signal, from there to each connected slot, and     *)
(* through the event loops of the slots to their functions.                *)
(*                                                                         *)
(* It composes Connections with one event loop per thread of Loops.  The   *)
(* loops are ordered channels here, which EventLoop implements as long as  *)
(* calls of addEvent do not overlap and the deque is sound, and with its   *)
(* notifications that may be lost.  Threads are call stacks: emit fans out *)
(* by calling slots, whose functions may emit in turn, and the arguments   *)
(* of a queued call are references into the stack frame that queued it.    *)
(***************************************************************************)
EXTENDS Connections, Sequences, FiniteSets

CONSTANTS
  Reacts,       \* the signals each slot's function may emit
  MaxEmits,     \* bound: number of emissions
  MaxChanges,   \* bound: number of operations on the connections
  MaxOps        \* bound: number of both together

ASSUME DispatchAssumption ==
  /\ Reacts \in [Slots -> SUBSET Signals]
  /\ MaxEmits \in Nat /\ MaxChanges \in Nat /\ MaxOps \in Nat

VARIABLES
  queue,        \* the event list of each loop
  missed,       \* the loops that wait although there is an event: they went to
                \*   sleep past its notification
  stack,        \* the call stack of each thread, innermost call first
  sent,         \* the emissions: message m is [sig, by, within], the last the
                \* emissions in progress in the thread that made it
  calls,        \* the calls of slot functions, in the order they were made
  changes,      \* how many operations on the connections there were
  thrown        \* an exception left emit: "Object has not parent"

dispVars == <<queue, missed, stack, sent, calls, changes, thrown>>
allVars == <<connVars, dispVars>>

\* The frames of a call stack, and the events of a loop.  fresh says that the
\* arguments have only ever been read from frames that still existed.
Fan(s, m, ok, todo) == [op |-> "fan", sig |-> s, msg |-> m, fresh |-> ok, todo |-> todo]
Body(l, m) == [op |-> "body", slot |-> l, msg |-> m]
Post(e) == [op |-> "post", event |-> e]
Event(o, m, n, ok) == [to |-> o, msg |-> m, nth |-> n, fresh |-> ok]

Idle(t) == stack[t] = <<>>
Top(t, op) == stack[t] # <<>> /\ Head(stack[t]).op = op
Frames(t) == {stack[t][i] : i \in DOMAIN stack[t]}
InProgress(t) == {f.msg : f \in {g \in Frames(t) : g.op = "fan"}}
Push(t, f) == stack' = [stack EXCEPT ![t] = <<f>> \o @]
Pop(t) == stack' = [stack EXCEPT ![t] = Tail(@)]

\* addEvent of loop t.  The notification is lost on a loop that has found no
\* event and does not wait yet; one that sleeps on, past an event, may hear this
\* notification.  A loop that has events to run does not wait.
AddEvent(t, e) ==
  /\ queue' = [queue EXCEPT ![t] = Append(@, e)]
  /\ missed' \in IF t \in missed \/ (Idle(t) /\ queue[t] = <<>>)
                 THEN {missed \ {t}, missed \cup {t}} ELSE {missed}

DispatchInit ==
  /\ Init
  /\ queue = [t \in Loops |-> <<>>]
  /\ missed = {}
  /\ stack = [t \in Threads |-> <<>>]
  /\ sent = <<>>
  /\ calls = <<>>
  /\ changes = 0
  /\ thrown = FALSE

-----------------------------------------------------------------------------
(* signal::emit                                                            *)

\* The calls an emission has to make: one for each connection, the queued
\* ones only if the signal has a root.
Todo(s) ==
  {x \in {"direct", "queued"} \X Slots \X (1..MaxConn) :
    \/ x[1] = "direct" /\ x[3] <= direct[<<s, x[2]>>]
    \/ x[1] = "queued" /\ Home[s] # NoParent /\ x[3] <= queued[<<s, x[2]>>]}

\* A signal of another loop sends itself there as an event; any other one
\* calls its slots in the emitting thread.
Emit(t, s) ==
  LET m == Len(sent) + 1
      e == Event(s, m, 1, TRUE)
  IN
  /\ \/ Idle(t) /\ t \in Clients
     \/ Top(t, "body") /\ s \in Reacts[Head(stack[t]).slot]
  /\ s \in alive
  /\ Len(sent) < MaxEmits /\ Len(sent) + changes < MaxOps
  /\ sent' = Append(sent, [sig |-> s, by |-> t, within |-> InProgress(t)])
  /\ IF Home[s] \in Loops \ {t}
     THEN AddEvent(Home[s], e) /\ Push(t, Post(e))
     ELSE Push(t, Fan(s, m, TRUE, Todo(s))) /\ UNCHANGED <<queue, missed>>
  /\ UNCHANGED <<connVars, calls, changes, thrown>>

\* callDirectConnections
Direct(x) == x[1] = "direct"

FanDirect(t) ==
  /\ Top(t, "fan")
  /\ LET f == Head(stack[t]) IN
     \E x \in {y \in f.todo : Direct(y)} :
       /\ stack' = [stack EXCEPT ![t] = <<Body(x[2], f.msg), [f EXCEPT !.todo = @ \ {x}]>>
                                        \o Tail(@)]
       /\ calls' = Append(calls, [slot |-> x[2], msg |-> f.msg, thread |-> t,
                                  via |-> "direct", nth |-> x[3], fresh |-> f.fresh])
  /\ UNCHANGED <<connVars, queue, missed, sent, changes, thrown>>

\* callQueuedConnections, after all direct ones, and slot::addEventToParent.
\* A root that is no loop has no event list and throws.
FanQueued(t) ==
  /\ Top(t, "fan")
  /\ LET f == Head(stack[t]) IN
     /\ \A y \in f.todo : ~Direct(y)
     /\ \E x \in f.todo :
          LET r == Home[x[2]]
              e == Event(x[2], f.msg, x[3], f.fresh)
          IN
          IF r \in Loops
          THEN /\ AddEvent(r, e)
               /\ stack' = [stack EXCEPT ![t] = <<Post(e), [f EXCEPT !.todo = @ \ {x}]>>
                                                \o Tail(@)]
               /\ UNCHANGED thrown
          ELSE /\ thrown' = TRUE
               /\ stack' = [stack EXCEPT ![t] = <<>>]
               /\ UNCHANGED <<queue, missed>>
  /\ UNCHANGED <<connVars, sent, calls, changes>>

\* Mutant: emit returns after the direct calls.
ReturnEarly(t) ==
  /\ \/ Top(t, "fan") /\ \A x \in Head(stack[t]).todo : ~Direct(x)
     \/ Top(t, "post")
     \/ Top(t, "body")
  /\ Pop(t)
  /\ UNCHANGED <<connVars, queue, missed, sent, calls, changes, thrown>>

\* A call returns: emit after its last slot, addEvent after the push, a slot
\* function at its end.  The frame and the arguments in it are gone.
Return(t) ==
  /\ \/ Top(t, "fan") /\ Head(stack[t]).todo = {}
     \/ Top(t, "post")
     \/ Top(t, "body")
  /\ Pop(t)
  /\ UNCHANGED <<connVars, queue, missed, sent, calls, changes, thrown>>

\* The frame the arguments of event e are in has not returned yet.
Intact(e) == \E t \in Threads : Post(e) \in Frames(t)

\* Mutant: the loop runs the event added last.
RunLastEvent(t) ==
  /\ Idle(t)
  /\ queue[t] # <<>>
  /\ LET e == queue[t][Len(queue[t])] IN
     /\ queue' = [queue EXCEPT ![t] = SubSeq(@, 1, Len(@) - 1)]
     /\ missed' = missed \ {t}
     /\ IF e.to \in Signals
        THEN Push(t, Fan(e.to, e.msg, e.fresh, Todo(e.to))) /\ UNCHANGED calls
        ELSE /\ Push(t, Body(e.to, e.msg))
             /\ calls' = Append(calls, [slot |-> e.to, msg |-> e.msg, thread |-> t,
                                        via |-> "queued", nth |-> e.nth, fresh |-> e.fresh])
  /\ UNCHANGED <<connVars, sent, changes, thrown>>

\* Mutant: the event stays in the list.
RunEventAgain(t) ==
  /\ Idle(t)
  /\ queue[t] # <<>>
  /\ LET e == Head(queue[t])
         ok == e.fresh /\ Intact(e)
     IN
     /\ \/ /\ e.to \in alive \cap Signals
           /\ Push(t, Fan(e.to, e.msg, ok, Todo(e.to)))
           /\ UNCHANGED calls
        \/ /\ e.to \in alive \cap Slots
           /\ Push(t, Body(e.to, e.msg))
           /\ calls' = Append(calls, [slot |-> e.to, msg |-> e.msg, thread |-> t,
                                      via |-> "queued", nth |-> e.nth, fresh |-> ok])
  /\ UNCHANGED <<connVars, queue, missed, sent, changes, thrown>>

\* A loop runs its next event: a signal that fans out, or a slot's function.
\* One that sleeps past it does so when it is woken without a cause.  What
\* happens if the object has been destroyed meanwhile is undefined; here the
\* event is dropped.
RunEvent(t) ==
  /\ Idle(t)
  /\ queue[t] # <<>>
  /\ LET e == Head(queue[t])
         ok == e.fresh /\ Intact(e)
     IN
     /\ queue' = [queue EXCEPT ![t] = Tail(@)]
     /\ missed' = missed \ {t}
     /\ \/ /\ e.to \notin alive
           /\ UNCHANGED <<stack, calls>>
        \/ /\ e.to \in alive \cap Signals
           /\ Push(t, Fan(e.to, e.msg, ok, Todo(e.to)))
           /\ UNCHANGED calls
        \/ /\ e.to \in alive \cap Slots
           /\ Push(t, Body(e.to, e.msg))
           /\ calls' = Append(calls, [slot |-> e.to, msg |-> e.msg, thread |-> t,
                                      via |-> "queued", nth |-> e.nth, fresh |-> ok])
  /\ UNCHANGED <<connVars, sent, changes, thrown>>

-----------------------------------------------------------------------------
(* The operations of Connections, by thread t, between two events or in a  *)
(* slot's function.  Programs that change the lists of a signal that is    *)
(* just walking through them are left out.                                 *)

Walking == {f.sig : f \in {g \in UNION {Frames(t) : t \in Threads} : g.op = "fan"}}
Busy == {f.slot : f \in {g \in UNION {Frames(t) : t \in Threads} : g.op = "body"}}

MayChange(t) ==
  /\ \/ Idle(t) /\ t \in Clients
     \/ Top(t, "body")
  /\ changes < MaxChanges /\ Len(sent) + changes < MaxOps

Change(t) ==
  /\ MayChange(t)
  /\ changes' = changes + 1
  /\ \/ \E s \in Signals \ Walking, l \in Slots :
          \/ \E type \in Types : Connect(s, l, type, t)
          \/ DisconnectSlot(s, l)
     \/ \E s \in Signals \ Walking : Disconnect(s) \/ DestroySignal(s)
     \/ \E l \in Slots \ Busy :
          /\ \A s \in Walking : direct[<<s, l>>] + queued[<<s, l>>] = 0
          /\ DestroySlot(l)
  /\ UNCHANGED <<queue, missed, stack, sent, calls, thrown>>

-----------------------------------------------------------------------------
Step(t) == FanDirect(t) \/ FanQueued(t) \/ Return(t)

DispatchNext ==
  /\ ~thrown
  /\ \/ \E t \in Threads : Step(t) \/ Change(t) \/ \E s \in Signals : Emit(t, s)
     \/ \E t \in Loops : RunEvent(t)

DispatchSpec == DispatchInit /\ [][DispatchNext]_allVars

\* Every thread that is inside a call goes on with it, and every loop takes its
\* next event unless it sleeps past it; nothing makes a program emit, change
\* connections or wake a loop without a cause.
Fairness ==
  /\ \A t \in Threads : WF_allVars(~thrown /\ Step(t))
  /\ \A t \in Loops : WF_allVars(~thrown /\ t \notin missed /\ RunEvent(t))

FairDispatch == DispatchSpec /\ Fairness

-----------------------------------------------------------------------------
DispatchTypeOK ==
  /\ TypeOK
  /\ \A t \in Loops : \A i \in DOMAIN queue[t] :
       LET e == queue[t][i] IN
       e.to \in Objects /\ Home[e.to] = t /\ e.msg \in DOMAIN sent
  /\ \A t \in missed : t \in Loops /\ Idle(t) /\ queue[t] # <<>>
  /\ \A t \in Threads : \A f \in Frames(t) : f.op \in {"fan", "body", "post"}
  /\ Len(sent) <= MaxEmits /\ changes <= MaxChanges /\ Len(sent) + changes <= MaxOps
  /\ thrown \in BOOLEAN

Sig(c) == sent[c.msg].sig
By(c) == sent[c.msg].by
Calls == {calls[i] : i \in DOMAIN calls}

\* README: a direct connection calls in the thread of the signal, or of whoever
\* emits a signal that belongs to no loop; a queued one in the slot's own thread,
\* whoever made the connection or emits.  Between objects of loops that is the
\* slot's own thread in any case, unless a direct connection was asked for.
AtHome ==
  \A c \in Calls :
    /\ c.via = "direct" =>
         c.thread = IF Home[Sig(c)] \in Loops THEN Home[Sig(c)] ELSE By(c)
    /\ c.via = "queued" => c.thread = Home[c.slot]
    /\ Home[Sig(c)] \in Loops /\ Home[c.slot] \in Loops => c.thread = Home[c.slot]

\* Emissions of one signal by one thread reach a queued slot in the order
\* they were made, through up to two event loops.  The one exception is an
\* emission made within an earlier one, by a slot that this calls directly:
\* queued calls come after all direct ones, so the inner emission makes its
\* own first.
InOrder ==
  \A i, j \in DOMAIN calls :
    /\ i < j
    /\ calls[i].slot = calls[j].slot
    /\ calls[i].via = "queued" /\ calls[j].via = "queued"
    /\ Sig(calls[i]) = Sig(calls[j]) /\ By(calls[i]) = By(calls[j])
    => \/ calls[i].msg <= calls[j].msg
       \/ calls[j].msg \in sent[calls[i].msg].within

\* The call is still to be made: ahead of an emission, as an event, or because
\* the emission has not begun.
Awaited(c) ==
  \/ \E t \in Threads : \E f \in Frames(t) :
       f.op = "fan" /\ f.msg = c.msg /\ <<c.via, c.slot, c.nth>> \in f.todo
  \/ \E t \in Loops : \E i \in DOMAIN queue[t] :
       LET e == queue[t][i] IN
       /\ e.msg = c.msg
       /\ e.to \in Signals \/ (c.via = "queued" /\ e.to = c.slot /\ e.nth = c.nth)

\* Each entry that an emission found in its signal's lists (NoneForgotten counts
\* them) is called once: not by two events, nor by an event and a walk, nor again
\* later because a call that was made is still due.
OncePerConnection ==
  /\ \A i, j \in DOMAIN calls :
       /\ calls[i].slot = calls[j].slot /\ calls[i].msg = calls[j].msg
       /\ calls[i].via = calls[j].via /\ calls[i].nth = calls[j].nth
       => i = j
  /\ \A c \in Calls : ~Awaited(c)

\* An emission has one call to make for every connection the slot knows of:
\* connect never puts a connection in a list that emit passes over, as it
\* does with the queued ones of a signal without parent.
NoneForgotten ==
  \A s \in Signals, l \in Slots :
    Cardinality({x \in Todo(s) : x[2] = l}) = back[<<s, l>>]

\* A call that is due: in an emission in progress or still to be begun, or in
\* the slot's event list.
Due(l, m) ==
  \/ \E t \in Threads : \E f \in Frames(t) :
       f.op = "fan" /\ f.msg = m /\ \E x \in f.todo : x[2] = l
  \/ \E t \in Loops : \E i \in DOMAIN queue[t] :
       LET e == queue[t][i] IN
       e.msg = m /\ (e.to = l \/ (e.to \in Signals /\ \E x \in Todo(e.to) : x[2] = l))

Called(l, m) == \E c \in Calls : c.slot = l /\ c.msg = m

\* Nobody waits for the call any more.
Severed(l, m) ==
  \/ l \notin alive
  \/ m \in DOMAIN sent /\ direct[<<sent[m].sig, l>>] + queued[<<sent[m].sig, l>>] = 0

\* The call waits in a loop that has gone to sleep past it.
Overslept(l, m) ==
  \E t \in missed : \E i \in DOMAIN queue[t] :
    queue[t][i].msg = m /\ queue[t][i].to \in {l} \cup Signals

\* Every call that is due is made, unless the slot is destroyed, the connection
\* taken away or its notification lost first: the one that goes to the loop of
\* the signal, or the one that goes to the loop of the slot.
EveryCallMade ==
  \A l \in Slots, m \in 1..MaxEmits :
    Due(l, m) ~> Called(l, m) \/ Severed(l, m) \/ Overslept(l, m)

\* No step loses a call on its way: neither the hand-over of an emission to
\* the loop of its signal, nor a fan-out or its return, nor the addition or the
\* removal of an event, nor any change of the connections made meanwhile.
NoCallLost ==
  [][\A l \in Slots, m \in 1..MaxEmits :
       Due(l, m) => Due(l, m)' \/ Called(l, m)' \/ Severed(l, m)' \/ thrown']_allVars

\* br_object.h:384: the parameters of emit reach the slot function.
ArgumentsArrive == \A c \in Calls : c.fresh
=============================================================================
