---------------------------- MODULE Connections -----------------------------
(***************************************************************************)
(* Who is connected to whom: the lists that signal and slot objects keep   *)
(* of each other (include/brutils/br_object.h).  A signal holds its slots  *)
(* in two vectors, one per connection type; a slot holds its signals in a  *)
(* third, so that whichever of the two is destroyed first can take itself  *)
(* off the other's list.                                                   *)
(*                                                                         *)
(* A pair may be connected several times; what matters is how often an     *)
(* object is in a list, so the lists are counts.  The code takes no lock   *)
(* here: an operation is one step, for programs that do not run two of     *)
(* them on the same objects at once.                                       *)
(***************************************************************************)
EXTENDS Naturals

CONSTANTS
  Signals, Slots,       \* the objects
  Loops,                \* threads of br_threaded_objects
  Clients,              \* all other threads
  Plain,                \* home of an object below a br_object without parent
  NoParent,             \* home of an object that was given no parent
  Home,                 \* the thread of each object's root, Plain or NoParent
  Types,                \* the connection types the program asks for
  MaxConn               \* bound: connections of one pair, per type

Objects == Signals \cup Slots
Threads == Loops \cup Clients
Pairs == Signals \X Slots

ASSUME ConnectionsAssumption ==
  /\ Signals \cap Slots = {}
  /\ Loops \cap Clients = {}
  /\ Plain \notin Threads /\ NoParent \notin Threads /\ Plain # NoParent
  /\ Home \in [Objects -> Loops \cup {Plain, NoParent}]
  /\ Types \subseteq {"auto", "direct", "queued"}
  /\ MaxConn \in Nat

VARIABLES
  direct, queued,       \* how often each slot is in a signal's two lists
  back,                 \* how often a signal is in a slot's list
  alive                 \* the objects not destroyed yet

connVars == <<direct, queued, back, alive>>

Init ==
  /\ direct = [p \in Pairs |-> 0]
  /\ queued = [p \in Pairs |-> 0]
  /\ back = [p \in Pairs |-> 0]
  /\ alive = Objects

-----------------------------------------------------------------------------
\* getThreadId() of an object, asked for by thread t: a root that is no
\* br_threaded_object answers with the thread that asks.
ThreadOf(o, t) == IF Home[o] \in Loops THEN Home[o] ELSE t

\* Mutants: an automatic connection is always direct; a missing parent is
\* not looked for.
KindAlwaysDirect(s, l, type, t) ==
  IF NoParent \in {Home[s], Home[l]} THEN "direct"
  ELSE IF type # "auto" THEN type ELSE "direct"

KindParentIgnored(s, l, type, t) ==
  IF type # "auto" THEN type
  ELSE IF ThreadOf(s, t) = ThreadOf(l, t) THEN "direct" ELSE "queued"

\* The list a new connection goes to, when thread t asks for the given type.
Kind(s, l, type, t) ==
  IF NoParent \in {Home[s], Home[l]} THEN "direct"
  ELSE IF type # "auto" THEN type
  ELSE IF ThreadOf(s, t) = ThreadOf(l, t) THEN "direct" ELSE "queued"

\* n elements are taken out of a list that holds k: the searches for those
\* that are not there find nothing.
Without(k, n) == IF n <= k THEN k - n ELSE 0
AtMost(k, n) == IF n <= k THEN n ELSE k

\* signal::connect
Connect(s, l, type, t) ==
  LET p == <<s, l>> IN
  /\ {s, l} \subseteq alive
  /\ \/ /\ Kind(s, l, type, t) = "direct" /\ direct[p] < MaxConn
        /\ direct' = [direct EXCEPT ![p] = @ + 1]
        /\ UNCHANGED queued
     \/ /\ Kind(s, l, type, t) = "queued" /\ queued[p] < MaxConn
        /\ queued' = [queued EXCEPT ![p] = @ + 1]
        /\ UNCHANGED direct
  /\ back' = [back EXCEPT ![p] = @ + 1]
  /\ UNCHANGED alive

\* signal::disconnect(): each entry tells its slot, once.
Clear(s) ==
  /\ direct' = [p \in Pairs |-> IF p[1] = s THEN 0 ELSE direct[p]]
  /\ queued' = [p \in Pairs |-> IF p[1] = s THEN 0 ELSE queued[p]]
  /\ back' = [p \in Pairs |-> IF p[1] = s THEN Without(back[p], direct[p] + queued[p])
                                          ELSE back[p]]

Disconnect(s) == s \in alive /\ Clear(s) /\ UNCHANGED alive

\* Mutant: the slot is told of the direct connection only.
DisconnectSlotUntold(s, l) ==
  LET p == <<s, l>>
      d == AtMost(direct[p], 1)
      q == AtMost(queued[p], 1)
  IN
  /\ {s, l} \subseteq alive
  /\ direct' = [direct EXCEPT ![p] = @ - d]
  /\ queued' = [queued EXCEPT ![p] = @ - q]
  /\ back' = [back EXCEPT ![p] = Without(@, d)]
  /\ UNCHANGED alive

\* signal::disconnect(slot*): one entry of each list, if there is one.
DisconnectSlot(s, l) ==
  LET p == <<s, l>>
      d == AtMost(direct[p], 1)
      q == AtMost(queued[p], 1)
  IN
  /\ {s, l} \subseteq alive
  /\ direct' = [direct EXCEPT ![p] = @ - d]
  /\ queued' = [queued EXCEPT ![p] = @ - q]
  /\ back' = [back EXCEPT ![p] = Without(@, d + q)]
  /\ UNCHANGED alive

\* ~signal
DestroySignal(s) == s \in alive /\ Clear(s) /\ alive' = alive \ {s}

\* Mutant: the slot is taken out of the lists of direct connections only.
DestroySlotDirectOnly(l) ==
  /\ l \in alive
  /\ direct' = [p \in Pairs |-> IF p[2] = l THEN Without(direct[p], back[p]) ELSE direct[p]]
  /\ back' = [p \in Pairs |-> IF p[2] = l THEN 0 ELSE back[p]]
  /\ alive' = alive \ {l}
  /\ UNCHANGED queued

\* ~slot: for each entry of its list the slot is taken out of both lists of
\* that signal, once.
DestroySlot(l) ==
  /\ l \in alive
  /\ direct' = [p \in Pairs |-> IF p[2] = l THEN Without(direct[p], back[p]) ELSE direct[p]]
  /\ queued' = [p \in Pairs |-> IF p[2] = l THEN Without(queued[p], back[p]) ELSE queued[p]]
  /\ back' = [p \in Pairs |-> IF p[2] = l THEN 0 ELSE back[p]]
  /\ alive' = alive \ {l}

Next ==
  \/ \E s \in Signals, l \in Slots :
       \/ \E type \in Types, t \in Threads : Connect(s, l, type, t)
       \/ DisconnectSlot(s, l)
  \/ \E s \in Signals : Disconnect(s) \/ DestroySignal(s)
  \/ \E l \in Slots : DestroySlot(l)

Spec == Init /\ [][Next]_connVars

-----------------------------------------------------------------------------
TypeOK ==
  /\ direct \in [Pairs -> 0..MaxConn]
  /\ queued \in [Pairs -> 0..MaxConn]
  /\ back \in [Pairs -> Nat]
  /\ alive \subseteq Objects

\* Both sides agree: a slot has a signal in its list as often as the signal
\* has the slot in its two lists, whatever was connected and disconnected.
Mutual == \A p \in Pairs : back[p] = direct[p] + queued[p]

\* No list mentions an object that was destroyed, so that emit never calls a
\* slot that is gone and ~slot never writes to a signal that is gone.
NoDangling ==
  \A p \in Pairs :
    direct[p] + queued[p] + back[p] > 0 => {p[1], p[2]} \subseteq alive
=============================================================================
