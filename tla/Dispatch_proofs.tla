-------------------------- MODULE Dispatch_proofs --------------------------
(***************************************************************************)
(* For every set of loops, objects and connections: what Connections       *)
(* promises holds while signals are emitted; an emission has one call to   *)
(* make for every connection, makes none twice and loses none; emissions   *)
(* of one sender reach a slot in order; and every call is made in the      *)
(* thread its connection stands for.                                       *)
(***************************************************************************)
EXTENDS Dispatch, Connections_proofs, FiniteSetTheorems

TodoSet == {"direct", "queued"} \X Slots \X Nat
EventSet == [to : Objects, msg : Nat, nth : Nat, fresh : BOOLEAN]
FanSet == [op : {"fan"}, sig : Signals, msg : Nat, fresh : BOOLEAN, todo : SUBSET TodoSet]
BodySet == [op : {"body"}, slot : Slots, msg : Nat]
PostSet == [op : {"post"}, event : EventSet]
FrameSet == FanSet \cup BodySet \cup PostSet
SentSet == [sig : Signals, by : Threads, within : SUBSET Nat]
CallSet == [slot : Slots, msg : Nat, thread : Threads, via : {"direct", "queued"},
            nth : 1..MaxConn, fresh : BOOLEAN]

\* What the steps of a thread rely on.  The calls an emission has left are
\* among those it would have to make if it began now: its signal's
\* connections do not change under it.
Typed ==
  /\ queue \in [Loops -> Seq(EventSet)]
  /\ stack \in [Threads -> Seq(FrameSet)]
  /\ sent \in Seq(SentSet)
  /\ calls \in Seq(CallSet)

FrameOK(t, f) ==
  f.op = "fan" =>
    /\ f.msg \in DOMAIN sent /\ sent[f.msg].sig = f.sig
    /\ f.todo \subseteq Todo(f.sig)
    /\ t = IF Home[f.sig] \in Loops THEN Home[f.sig] ELSE sent[f.msg].by

EventOK(t, e) ==
  /\ e.msg \in DOMAIN sent
  /\ Home[e.to] = t
  /\ e.to \in Signals => sent[e.msg].sig = e.to
  /\ e.to \in Slots => e.nth \in 1..MaxConn

FramesOK == \A t \in Threads : \A i \in DOMAIN stack[t] : FrameOK(t, stack[t][i])
EventsOK == \A t \in Loops : \A i \in DOMAIN queue[t] : EventOK(t, queue[t][i])

DispInv == ConnInv /\ Typed /\ FramesOK /\ EventsOK

-----------------------------------------------------------------------------
(* Sequences and frames                                                    *)

LEMMA PushFacts ==
  ASSUME NEW S, NEW q \in Seq(S), NEW x \in S, NEW r, r = <<x>> \o q
  PROVE  /\ r \in Seq(S)
         /\ \A i \in DOMAIN r : r[i] = x \/ \E j \in DOMAIN q : r[i] = q[j]
<1>1. r \in Seq(S) /\ Len(r) = Len(q) + 1  OBVIOUS
<1>2. ASSUME NEW i \in DOMAIN r
      PROVE  r[i] = x \/ \E j \in DOMAIN q : r[i] = q[j]
  <2>1. i \in 1..Len(q) + 1  BY <1>1
  <2>2. CASE i = 1  BY <2>2
  <2>3. CASE i # 1
    <3>1. i - 1 \in DOMAIN q /\ r[i] = q[i - 1]  BY <2>1, <2>3
    <3>2. QED  BY <3>1, Zenon
  <2>4. QED  BY <2>2, <2>3
<1>3. QED  BY <1>1, <1>2

LEMMA TailFacts ==
  ASSUME NEW S, NEW q \in Seq(S), q # <<>>, NEW r, r = Tail(q)
  PROVE  /\ 1 \in DOMAIN q /\ Head(q) = q[1] /\ q[1] \in S
         /\ r \in Seq(S)
         /\ \A i \in DOMAIN r : \E j \in DOMAIN q : r[i] = q[j]
<1>1. r \in Seq(S) /\ Len(r) = Len(q) - 1 /\ Len(q) \in Nat /\ Len(q) > 0  OBVIOUS
<1>2. ASSUME NEW i \in DOMAIN r
      PROVE  \E j \in DOMAIN q : r[i] = q[j]
  <2>1. i \in 1..Len(q) - 1  BY <1>1
  <2>2. i + 1 \in DOMAIN q /\ r[i] = q[i + 1]  BY <1>1, <2>1
  <2>3. QED  BY <2>2, Zenon
<1>3. 1 \in DOMAIN q /\ Head(q) = q[1] /\ q[1] \in S  BY <1>1
<1>4. QED  BY <1>1, <1>2, <1>3

LEMMA AppendFacts ==
  ASSUME NEW S, NEW q \in Seq(S), NEW x \in S, NEW r, r = Append(q, x)
  PROVE  /\ r \in Seq(S)
         /\ \A i \in DOMAIN r : r[i] = x \/ \E j \in DOMAIN q : r[i] = q[j]
<1>1. r \in Seq(S) /\ Len(r) = Len(q) + 1  OBVIOUS
<1>2. ASSUME NEW i \in DOMAIN r
      PROVE  r[i] = x \/ \E j \in DOMAIN q : r[i] = q[j]
  <2>1. i \in 1..Len(q) + 1  BY <1>1
  <2>2. CASE i = Len(q) + 1  BY <2>2
  <2>3. CASE i # Len(q) + 1
    <3>1. i \in DOMAIN q /\ r[i] = q[i]  BY <2>1, <2>3
    <3>2. QED  BY <3>1, Zenon
  <2>4. QED  BY <2>2, <2>3
<1>3. QED  BY <1>1, <1>2

\* A caller's frame is replaced, and the called function's put before it.
LEMMA CallFacts ==
  ASSUME NEW S, NEW q \in Seq(S), q # <<>>, NEW x \in S, NEW y \in S,
         NEW r, r = <<x, y>> \o Tail(q)
  PROVE  /\ r \in Seq(S)
         /\ \A i \in DOMAIN r : r[i] \in {x, y} \/ \E j \in DOMAIN q : r[i] = q[j]
<1>0. PICK z : z = Tail(q)  OBVIOUS
<1>1. z \in Seq(S) /\ \A i \in DOMAIN z : \E j \in DOMAIN q : z[i] = q[j]
  BY <1>0, TailFacts
<1>2. r \in Seq(S) /\ Len(r) = Len(z) + 2 /\ Len(z) \in Nat  BY <1>0, <1>1
<1>3. ASSUME NEW i \in DOMAIN r
      PROVE  r[i] \in {x, y} \/ \E j \in DOMAIN q : r[i] = q[j]
  <2>1. i \in 1..Len(z) + 2  BY <1>2
  <2>2. CASE i \in {1, 2}  BY <1>0, <1>1, <2>2
  <2>3. CASE i \notin {1, 2}
    <3>1. i - 2 \in DOMAIN z /\ r[i] = z[i - 2]  BY <1>0, <1>1, <1>2, <2>1, <2>3
    <3>2. \E j \in DOMAIN q : z[i - 2] = q[j]  BY <1>1, <3>1
    <3>3. QED  BY <3>1, <3>2
  <2>4. QED  BY <2>2, <2>3
<1>4. QED  BY <1>2, <1>3

LEMMA FrameKinds ==
  ASSUME NEW f \in FrameSet
  PROVE  /\ f.op = "fan" => f \in FanSet
         /\ f.op = "body" => f \in BodySet
         /\ f.op = "post" => f \in PostSet
BY DEF FrameSet, FanSet, BodySet, PostSet

\* What a call that an emission has to make says about the lists.
LEMMA TodoFacts ==
  ASSUME ConnInv, NEW s \in Signals
  PROVE  /\ Todo(s) \subseteq TodoSet
         /\ \A x \in Todo(s) :
              /\ x[2] \in Slots
              /\ direct[<<s, x[2]>>] + queued[<<s, x[2]>>] > 0
              /\ x[1] = "direct" => direct[<<s, x[2]>>] > 0
              /\ x[3] \in 1..MaxConn
<1>0. ASSUME NEW l \in Slots
      PROVE  direct[<<s, l>>] \in Nat /\ queued[<<s, l>>] \in Nat
  BY DEF ConnInv, TypeOK, Pairs
<1>1. MaxConn \in Nat  BY ConnectionsAssumption
<1>2. ASSUME NEW x \in Todo(s)
      PROVE  /\ x \in TodoSet /\ x[2] \in Slots
             /\ direct[<<s, x[2]>>] + queued[<<s, x[2]>>] > 0
             /\ x[1] = "direct" => direct[<<s, x[2]>>] > 0
             /\ x[3] \in 1..MaxConn
  BY <1>0, <1>1 DEF Todo, TodoSet
<1>3. QED  BY <1>2

-----------------------------------------------------------------------------
(* Steps of a thread: its stack changes, the lists do not                  *)

SentGrows == \A m \in DOMAIN sent : m \in DOMAIN sent' /\ sent'[m] = sent[m]

LEMMA TodoKept ==
  ASSUME UNCHANGED connVars, NEW s
  PROVE  Todo(s)' = Todo(s)
BY DEF connVars, Todo

LEMMA FrameKept ==
  ASSUME UNCHANGED connVars, SentGrows, NEW t, NEW f, FrameOK(t, f)
  PROVE  FrameOK(t, f)'
BY TodoKept DEF SentGrows, FrameOK

LEMMA EventKept ==
  ASSUME SentGrows, NEW t, NEW e, EventOK(t, e)
  PROVE  EventOK(t, e)'
BY DEF SentGrows, EventOK

\* A new stack of one thread.
LEMMA StackStep ==
  ASSUME Typed, FramesOK, UNCHANGED connVars, SentGrows,
         NEW t \in Threads, NEW q \in Seq(FrameSet),
         stack' = [stack EXCEPT ![t] = q],
         \A i \in DOMAIN q : FrameOK(t, q[i])'
  PROVE  stack' \in [Threads -> Seq(FrameSet)] /\ FramesOK'
<1>1. stack \in [Threads -> Seq(FrameSet)]  BY DEF Typed
<1>2. ASSUME NEW u \in Threads, NEW i \in DOMAIN stack'[u]
      PROVE  FrameOK(u, stack[u][i])'
  <2>1. CASE u = t  BY <1>1, <1>2, <2>1
  <2>2. CASE u # t
    <3>1. stack'[u] = stack[u]  BY <1>1, <2>2
    <3>2. PICK f : f = stack[u][i]  OBVIOUS
    <3>3. FrameOK(u, f)  BY <1>2, <3>1, <3>2 DEF FramesOK
    <3>4. FrameOK(u, f)'  BY <3>3, FrameKept
    <3>5. QED  BY <3>1, <3>2, <3>4 DEF FrameOK
  <2>3. QED  BY <2>1, <2>2
<1>3. QED  BY <1>1, <1>2 DEF FramesOK

\* A new event list of one loop.
LEMMA QueueStep ==
  ASSUME Typed, EventsOK, SentGrows,
         NEW t \in Loops, NEW q \in Seq(EventSet),
         queue' = [queue EXCEPT ![t] = q],
         \A i \in DOMAIN q : EventOK(t, q[i])'
  PROVE  queue' \in [Loops -> Seq(EventSet)] /\ EventsOK'
<1>1. queue \in [Loops -> Seq(EventSet)]  BY DEF Typed
<1>2. ASSUME NEW u \in Loops, NEW i \in DOMAIN queue'[u]
      PROVE  EventOK(u, queue[u][i])'
  <2>1. CASE u = t  BY <1>1, <1>2, <2>1
  <2>2. CASE u # t
    <3>1. queue'[u] = queue[u]  BY <1>1, <2>2
    <3>2. PICK e : e = queue[u][i]  OBVIOUS
    <3>3. EventOK(u, e)  BY <1>2, <3>1, <3>2 DEF EventsOK
    <3>4. EventOK(u, e)'  BY <3>3, EventKept
    <3>5. QED  BY <3>1, <3>2, <3>4 DEF EventOK
  <2>3. QED  BY <2>1, <2>2
<1>3. QED  BY <1>1, <1>2 DEF EventsOK

\* Event lists that stay as they are.
LEMMA QueueKept ==
  ASSUME Typed, EventsOK, SentGrows, queue' = queue
  PROVE  queue' \in [Loops -> Seq(EventSet)] /\ EventsOK'
<1>1. ASSUME NEW u \in Loops, NEW i \in DOMAIN queue'[u]
      PROVE  EventOK(u, queue[u][i])'
  <2>1. PICK e : e = queue[u][i]  OBVIOUS
  <2>2. EventOK(u, e)  BY <1>1, <2>1 DEF EventsOK
  <2>3. EventOK(u, e)'  BY <2>2, EventKept
  <2>4. QED  BY <2>1, <2>3 DEF EventOK
<1>2. QED  BY <1>1 DEF EventsOK, Typed

LEMMA StackKept ==
  ASSUME Typed, FramesOK, UNCHANGED connVars, SentGrows, stack' = stack
  PROVE  stack' \in [Threads -> Seq(FrameSet)] /\ FramesOK'
<1>1. ASSUME NEW u \in Threads, NEW i \in DOMAIN stack'[u]
      PROVE  FrameOK(u, stack[u][i])'
  <2>1. PICK f : f = stack[u][i]  OBVIOUS
  <2>2. FrameOK(u, f)  BY <1>1, <2>1 DEF FramesOK
  <2>3. FrameOK(u, f)'  BY <2>2, FrameKept
  <2>4. QED  BY <2>1, <2>3 DEF FrameOK
<1>2. QED  BY <1>1 DEF FramesOK, Typed

LEMMA ConnKept ==
  ASSUME ConnInv, UNCHANGED connVars
  PROVE  ConnInv'
BY DEF connVars, ConnInv, TypeOK, Mutual, NoDangling

\* What thread t does to its stack, and with the event list of a loop.
LEMMA PushStep ==
  ASSUME Typed, FramesOK, UNCHANGED connVars, SentGrows,
         NEW t \in Threads, NEW f \in FrameSet, Push(t, f), FrameOK(t, f)'
  PROVE  stack' \in [Threads -> Seq(FrameSet)] /\ FramesOK'
<1>1. PICK q : q = <<f>> \o stack[t]  OBVIOUS
<1>2. /\ q \in Seq(FrameSet)
      /\ \A i \in DOMAIN q : q[i] = f \/ \E j \in DOMAIN stack[t] : q[i] = stack[t][j]
  BY <1>1, PushFacts DEF Typed
<1>3. stack' = [stack EXCEPT ![t] = q]  BY <1>1 DEF Push
<1>4. ASSUME NEW i \in DOMAIN q PROVE FrameOK(t, q[i])'
  <2>1. CASE q[i] = f  BY <2>1
  <2>2. CASE \E j \in DOMAIN stack[t] : q[i] = stack[t][j]
    BY <2>2, FrameKept DEF FramesOK
  <2>3. QED  BY <1>2, <2>1, <2>2
<1>5. QED  BY <1>2, <1>3, <1>4, StackStep

LEMMA CallStep ==
  ASSUME Typed, FramesOK, UNCHANGED connVars, SentGrows,
         NEW t \in Threads, stack[t] # <<>>, NEW f \in FrameSet, NEW g \in FrameSet,
         stack' = [stack EXCEPT ![t] = <<f, g>> \o Tail(@)],
         FrameOK(t, f)', FrameOK(t, g)'
  PROVE  stack' \in [Threads -> Seq(FrameSet)] /\ FramesOK'
<1>1. PICK q : q = <<f, g>> \o Tail(stack[t])  OBVIOUS
<1>2. /\ q \in Seq(FrameSet)
      /\ \A i \in DOMAIN q : q[i] \in {f, g} \/ \E j \in DOMAIN stack[t] : q[i] = stack[t][j]
  BY <1>1, CallFacts DEF Typed
<1>3. stack' = [stack EXCEPT ![t] = q]  BY <1>1
<1>4. ASSUME NEW i \in DOMAIN q PROVE FrameOK(t, q[i])'
  <2>1. CASE q[i] \in {f, g}  BY <2>1
  <2>2. CASE \E j \in DOMAIN stack[t] : q[i] = stack[t][j]
    BY <2>2, FrameKept DEF FramesOK
  <2>3. QED  BY <1>2, <2>1, <2>2
<1>5. QED  BY <1>2, <1>3, <1>4, StackStep

LEMMA PopStep ==
  ASSUME Typed, FramesOK, UNCHANGED connVars, SentGrows,
         NEW t \in Threads, stack[t] # <<>>, Pop(t)
  PROVE  stack' \in [Threads -> Seq(FrameSet)] /\ FramesOK'
<1>1. PICK q : q = Tail(stack[t])  OBVIOUS
<1>2. q \in Seq(FrameSet) /\ \A i \in DOMAIN q : \E j \in DOMAIN stack[t] : q[i] = stack[t][j]
  BY <1>1, TailFacts DEF Typed
<1>3. stack' = [stack EXCEPT ![t] = q]  BY <1>1 DEF Pop
<1>4. ASSUME NEW i \in DOMAIN q PROVE FrameOK(t, q[i])'
  BY <1>2, FrameKept DEF FramesOK
<1>5. QED  BY <1>2, <1>3, <1>4, StackStep

LEMMA AddStep ==
  ASSUME Typed, EventsOK, SentGrows,
         NEW h \in Loops, NEW e \in EventSet,
         queue' = [queue EXCEPT ![h] = Append(@, e)], EventOK(h, e)'
  PROVE  queue' \in [Loops -> Seq(EventSet)] /\ EventsOK'
<1>1. PICK r : r = Append(queue[h], e)  OBVIOUS
<1>2. /\ r \in Seq(EventSet)
      /\ \A i \in DOMAIN r : r[i] = e \/ \E j \in DOMAIN queue[h] : r[i] = queue[h][j]
  BY <1>1, AppendFacts DEF Typed
<1>3. queue' = [queue EXCEPT ![h] = r]  BY <1>1
<1>4. ASSUME NEW i \in DOMAIN r PROVE EventOK(h, r[i])'
  <2>1. CASE r[i] = e  BY <2>1
  <2>2. CASE \E j \in DOMAIN queue[h] : r[i] = queue[h][j]
    BY <2>2, EventKept DEF EventsOK
  <2>3. QED  BY <1>2, <2>1, <2>2
<1>5. QED  BY <1>2, <1>3, <1>4, QueueStep

LEMMA RemoveStep ==
  ASSUME Typed, EventsOK, SentGrows,
         NEW h \in Loops, queue[h] # <<>>, queue' = [queue EXCEPT ![h] = Tail(@)]
  PROVE  queue' \in [Loops -> Seq(EventSet)] /\ EventsOK'
<1>1. PICK r : r = Tail(queue[h])  OBVIOUS
<1>2. r \in Seq(EventSet) /\ \A i \in DOMAIN r : \E j \in DOMAIN queue[h] : r[i] = queue[h][j]
  BY <1>1, TailFacts DEF Typed
<1>3. queue' = [queue EXCEPT ![h] = r]  BY <1>1
<1>4. ASSUME NEW i \in DOMAIN r PROVE EventOK(h, r[i])'
  BY <1>2, EventKept DEF EventsOK
<1>5. QED  BY <1>2, <1>3, <1>4, QueueStep

-----------------------------------------------------------------------------
LEMMA InProgressType ==
  ASSUME Typed, NEW t \in Threads
  PROVE  InProgress(t) \subseteq Nat
<1>1. ASSUME NEW i \in DOMAIN stack[t], stack[t][i].op = "fan"
      PROVE  stack[t][i].msg \in Nat
  BY <1>1, FrameKinds DEF Typed, FanSet
<1>2. QED  BY <1>1 DEF InProgress, Frames

LEMMA EmitPreserves ==
  ASSUME DispInv, NEW t \in Threads, NEW s \in Signals, Emit(t, s)
  PROVE  DispInv'
<1> USE DEF DispInv
<1>0. /\ UNCHANGED connVars /\ UNCHANGED calls
      /\ sent \in Seq(SentSet)
  BY DEF Emit, Typed
<1>1. PICK m \in Nat, e \in EventSet :
        /\ m = Len(sent) + 1 /\ e = Event(s, m, 1, TRUE)
        /\ sent' = Append(sent, [sig |-> s, by |-> t, within |-> InProgress(t)])
        /\ IF Home[s] \in Loops \ {t}
           THEN /\ queue' = [queue EXCEPT ![Home[s]] = Append(@, e)]
                /\ Push(t, Post(e))
           ELSE Push(t, Fan(s, m, TRUE, Todo(s))) /\ UNCHANGED queue
  <2>1. Len(sent) + 1 \in Nat  BY <1>0
  <2>2. Event(s, Len(sent) + 1, 1, TRUE) \in EventSet
    BY <2>1 DEF Event, EventSet, Objects
  <2>3. QED  BY <2>1, <2>2 DEF Emit, AddEvent
<1>2. /\ sent' \in Seq(SentSet) /\ SentGrows
      /\ m \in DOMAIN sent' /\ sent'[m].sig = s /\ sent'[m].by = t
  <2>1. PICK r : r = [sig |-> s, by |-> t, within |-> InProgress(t)]  OBVIOUS
  <2>2. r \in SentSet /\ r.sig = s  BY <2>1, InProgressType DEF SentSet
  <2>3. sent' = Append(sent, r)  BY <1>1, <2>1
  <2>4. QED  BY <1>0, <1>1, <2>2, <2>3 DEF SentGrows
<1>3. CASE Home[s] \in Loops \ {t}
  <2>1. PICK f \in FrameSet : f = Post(e)
    BY DEF Post, FrameSet, PostSet
  <2>2. FrameOK(t, f)'  BY <2>1 DEF FrameOK, Post
  <2>3. stack' \in [Threads -> Seq(FrameSet)] /\ FramesOK'
    BY <1>0, <1>1, <1>2, <1>3, <2>1, <2>2, PushStep
  <2>4. EventOK(Home[s], e)'
    <3>1. s \notin Slots  BY ConnectionsAssumption
    <3>2. QED  BY <1>1, <1>2, <3>1 DEF EventOK, Event
  <2>5. queue' \in [Loops -> Seq(EventSet)] /\ EventsOK'
    BY <1>1, <1>2, <1>3, <2>4, AddStep
  <2>6. QED  BY <1>0, <1>2, <2>3, <2>5, ConnKept DEF Typed
<1>4. CASE Home[s] \notin Loops \ {t}
  <2>1. PICK f \in FrameSet : f = Fan(s, m, TRUE, Todo(s))
    BY TodoFacts DEF Fan, FrameSet, FanSet
  <2>2. FrameOK(t, f)'
    <3>1. f.msg = m /\ f.sig = s /\ f.todo = Todo(s)  BY <2>1 DEF Fan
    <3>2. f.todo = Todo(f.sig)'  BY <1>0, <3>1, TodoKept
    <3>3. QED  BY <1>2, <1>4, <3>1, <3>2 DEF FrameOK
  <2>3. stack' \in [Threads -> Seq(FrameSet)] /\ FramesOK'
    BY <1>0, <1>1, <1>2, <1>4, <2>1, <2>2, PushStep
  <2>4. queue' \in [Loops -> Seq(EventSet)] /\ EventsOK'
    BY <1>1, <1>2, <1>4, QueueKept
  <2>5. QED  BY <1>0, <1>2, <2>3, <2>4, ConnKept DEF Typed
<1>5. QED  BY <1>3, <1>4

\* The frame a thread is in, and the calls it has left after one of them.
LEMMA FanFacts ==
  ASSUME DispInv, NEW t \in Threads, Top(t, "fan")
  PROVE  /\ stack[t] # <<>> /\ Head(stack[t]) \in FanSet
         /\ FrameOK(t, Head(stack[t])) /\ Head(stack[t]).op = "fan"
         /\ \A x \in Head(stack[t]).todo : x \in TodoSet /\ x[3] \in 1..MaxConn
         /\ \A x \in Head(stack[t]).todo :
              LET g == [Head(stack[t]) EXCEPT !.todo = @ \ {x}] IN
              g \in FrameSet /\ FrameOK(t, g)
<1>1. stack[t] \in Seq(FrameSet) /\ stack[t] # <<>> /\ Head(stack[t]).op = "fan"
  BY DEF DispInv, Typed, Top
<1>2. PICK f : f = Head(stack[t])  OBVIOUS
<1>3. f = stack[t][1] /\ 1 \in DOMAIN stack[t] /\ f \in FrameSet
  BY <1>1, <1>2, TailFacts
<1>4. f \in FanSet /\ FrameOK(t, f)
  BY <1>1, <1>2, <1>3, FrameKinds DEF DispInv, FramesOK
<1>5. ASSUME NEW x \in f.todo
      PROVE  LET g == [f EXCEPT !.todo = @ \ {x}] IN g \in FrameSet /\ FrameOK(t, g)
  BY <1>1, <1>2, <1>4 DEF FanSet, FrameSet, FrameOK
<1>6. ASSUME NEW x \in f.todo PROVE x \in TodoSet /\ x[3] \in 1..MaxConn
  BY <1>1, <1>2, <1>4, TodoFacts DEF FanSet, FrameOK, DispInv
<1>7. QED  BY <1>1, <1>2, <1>4, <1>5, <1>6

LEMMA FanDirectPreserves ==
  ASSUME DispInv, NEW t \in Threads, FanDirect(t)
  PROVE  DispInv'
<1> USE DEF DispInv
<1>0. UNCHANGED connVars /\ UNCHANGED <<sent, queue>> /\ SentGrows /\ Top(t, "fan")
  BY DEF FanDirect, SentGrows
<1>20. PICK f : f = Head(stack[t])  OBVIOUS
<1>1. PICK x \in f.todo :
        /\ Direct(x)
        /\ stack' = [stack EXCEPT ![t] = <<Body(x[2], f.msg), [f EXCEPT !.todo = @ \ {x}]>>
                                         \o Tail(@)]
        /\ calls' = Append(calls, [slot |-> x[2], msg |-> f.msg, thread |-> t,
                                   via |-> "direct", nth |-> x[3], fresh |-> f.fresh])
  BY <1>20 DEF FanDirect
<1>2. f \in FanSet /\ stack[t] # <<>>  BY <1>0, <1>20, FanFacts
<1>3. x[2] \in Slots /\ x[3] \in 1..MaxConn /\ f.msg \in Nat /\ f.fresh \in BOOLEAN
  BY <1>0, <1>20, <1>1, <1>2, FanFacts DEF FanSet, TodoSet
<1>4. PICK b \in FrameSet : b = Body(x[2], f.msg)
  BY <1>3 DEF Body, BodySet, FrameSet
<1>5. PICK g \in FrameSet : g = [f EXCEPT !.todo = @ \ {x}] /\ FrameOK(t, g)
  BY <1>0, <1>20, <1>1, FanFacts
<1>6. FrameOK(t, b)' /\ FrameOK(t, g)'
  <2>1. FrameOK(t, b)'  BY <1>4 DEF FrameOK, Body
  <2>2. FrameOK(t, g)'  BY <1>0, <1>5, FrameKept
  <2>3. QED  BY <2>1, <2>2
<1>7. stack' \in [Threads -> Seq(FrameSet)] /\ FramesOK'
  BY <1>0, <1>1, <1>2, <1>4, <1>5, <1>6, CallStep
<1>8. calls' \in Seq(CallSet)
  <2>1. [slot |-> x[2], msg |-> f.msg, thread |-> t, via |-> "direct", nth |-> x[3],
         fresh |-> f.fresh] \in CallSet
    BY <1>3 DEF CallSet
  <2>2. QED  BY <1>1, <2>1 DEF Typed
<1>9. queue' \in [Loops -> Seq(EventSet)] /\ EventsOK'  BY <1>0, QueueKept
<1>10. QED  BY <1>0, <1>7, <1>8, <1>9, ConnKept DEF Typed

LEMMA FanQueuedPreserves ==
  ASSUME DispInv, NEW t \in Threads, FanQueued(t)
  PROVE  DispInv'
<1> USE DEF DispInv
<1>0. /\ UNCHANGED connVars /\ UNCHANGED <<sent, calls>> /\ SentGrows /\ Top(t, "fan")
  BY DEF FanQueued, SentGrows
<1>20. PICK f : f = Head(stack[t])  OBVIOUS
<1>1. PICK x, e :
        /\ x \in f.todo
        /\ e = Event(x[2], f.msg, x[3], f.fresh)
        /\ \/ /\ Home[x[2]] \in Loops
              /\ queue' = [queue EXCEPT ![Home[x[2]]] = Append(@, e)]
              /\ stack' = [stack EXCEPT ![t] = <<Post(e), [f EXCEPT !.todo = @ \ {x}]>>
                                               \o Tail(@)]
           \/ stack' = [stack EXCEPT ![t] = <<>>] /\ UNCHANGED queue
  BY <1>20 DEF FanQueued, AddEvent
<1>2. f \in FanSet /\ stack[t] # <<>> /\ FrameOK(t, f) /\ f.op = "fan"
  BY <1>0, <1>20, FanFacts
<1>3. /\ x[2] \in Slots /\ x[3] \in 1..MaxConn /\ x[3] \in Nat
      /\ f.msg \in Nat /\ f.fresh \in BOOLEAN
  BY <1>0, <1>20, <1>1, <1>2, FanFacts DEF FanSet, TodoSet
<1>4. e \in EventSet  BY <1>1, <1>3 DEF Event, EventSet, Objects
<1>5. CASE /\ Home[x[2]] \in Loops
           /\ queue' = [queue EXCEPT ![Home[x[2]]] = Append(@, e)]
           /\ stack' = [stack EXCEPT ![t] = <<Post(e), [f EXCEPT !.todo = @ \ {x}]>>
                                            \o Tail(@)]
  <2>1. PICK b \in FrameSet : b = Post(e)
    BY <1>4 DEF Post, PostSet, FrameSet
  <2>2. PICK g \in FrameSet : g = [f EXCEPT !.todo = @ \ {x}] /\ FrameOK(t, g)
    BY <1>0, <1>20, <1>1, FanFacts
  <2>3. FrameOK(t, b)' /\ FrameOK(t, g)'
    <3>1. FrameOK(t, b)'  BY <2>1 DEF FrameOK, Post
    <3>2. FrameOK(t, g)'  BY <1>0, <2>2, FrameKept
    <3>3. QED  BY <3>1, <3>2
  <2>4. stack' \in [Threads -> Seq(FrameSet)] /\ FramesOK'
    BY <1>0, <1>2, <1>5, <2>1, <2>2, <2>3, CallStep
  <2>5. EventOK(Home[x[2]], e)'
    <3>1. x[2] \notin Signals  BY <1>3, ConnectionsAssumption
    <3>2. f.msg \in DOMAIN sent  BY <1>2 DEF FrameOK
    <3>3. e.to = x[2] /\ e.msg = f.msg /\ e.nth = x[3]  BY <1>1 DEF Event
    <3>4. QED  BY <1>0, <1>3, <3>1, <3>2, <3>3 DEF EventOK
  <2>6. queue' \in [Loops -> Seq(EventSet)] /\ EventsOK'
    BY <1>0, <1>4, <1>5, <2>5, AddStep
  <2>7. QED  BY <1>0, <2>4, <2>6, ConnKept DEF Typed
<1>6. CASE stack' = [stack EXCEPT ![t] = <<>>] /\ UNCHANGED queue
  <2>0. PICK q : q = <<>>  OBVIOUS
  <2>1. q \in Seq(FrameSet) /\ q = <<>>  BY <2>0
  <2>2. stack' = [stack EXCEPT ![t] = q] /\ \A i \in DOMAIN q : FrameOK(t, q[i])'
    <3>1. DOMAIN q = {}  BY <2>1
    <3>2. stack' = [stack EXCEPT ![t] = q]  BY <1>6, <2>1
    <3>3. QED  BY <3>1, <3>2
  <2>3. stack' \in [Threads -> Seq(FrameSet)] /\ FramesOK'
    BY <1>0, <2>1, <2>2, StackStep
  <2>4. queue' \in [Loops -> Seq(EventSet)] /\ EventsOK'  BY <1>0, <1>6, QueueKept
  <2>5. QED  BY <1>0, <2>3, <2>4, ConnKept DEF Typed
<1>7. QED  BY <1>1, <1>5, <1>6

LEMMA ReturnPreserves ==
  ASSUME DispInv, NEW t \in Threads, Return(t)
  PROVE  DispInv'
<1> USE DEF DispInv
<1>1. /\ UNCHANGED connVars /\ UNCHANGED <<sent, calls, queue>> /\ SentGrows
      /\ stack[t] # <<>> /\ Pop(t)
  BY DEF Return, Top, SentGrows
<1>2. stack' \in [Threads -> Seq(FrameSet)] /\ FramesOK'  BY <1>1, PopStep
<1>3. queue' \in [Loops -> Seq(EventSet)] /\ EventsOK'  BY <1>1, QueueKept
<1>4. QED  BY <1>1, <1>2, <1>3, ConnKept DEF Typed

LEMMA RunEventPreserves ==
  ASSUME DispInv, NEW t \in Loops, RunEvent(t)
  PROVE  DispInv'
<1> USE DEF DispInv
<1>0. /\ UNCHANGED connVars /\ UNCHANGED sent /\ SentGrows /\ t \in Threads
      /\ queue[t] # <<>> /\ queue' = [queue EXCEPT ![t] = Tail(@)]
  BY DEF RunEvent, SentGrows, Threads
<1>1. queue' \in [Loops -> Seq(EventSet)] /\ EventsOK'  BY <1>0, RemoveStep
<1>2. PICK e : e = Head(queue[t])  OBVIOUS
<1>3. e \in EventSet /\ EventOK(t, e)
  <2>1. queue[t] \in Seq(EventSet)  BY DEF Typed
  <2>2. 1 \in DOMAIN queue[t] /\ e = queue[t][1] /\ e \in EventSet
    BY <1>0, <1>2, <2>1, TailFacts
  <2>3. QED  BY <2>2 DEF EventsOK
<1>4. PICK ok \in BOOLEAN :
        \/ UNCHANGED <<stack, calls>>
        \/ /\ e.to \in Signals
           /\ Push(t, Fan(e.to, e.msg, ok, Todo(e.to)))
           /\ UNCHANGED calls
        \/ /\ e.to \in Slots
           /\ Push(t, Body(e.to, e.msg))
           /\ calls' = Append(calls, [slot |-> e.to, msg |-> e.msg, thread |-> t,
                                      via |-> "queued", nth |-> e.nth, fresh |-> ok])
  <2>1. (e.fresh /\ Intact(e)) \in BOOLEAN  BY Zenon
  <2>2. QED  BY <1>2, <2>1 DEF RunEvent
<1>5. e.msg \in Nat /\ e.to \in Objects  BY <1>3 DEF EventSet
<1>6. CASE UNCHANGED <<stack, calls>>
  BY <1>0, <1>1, <1>6, StackKept, ConnKept DEF Typed
<1>7. CASE /\ e.to \in Signals
           /\ Push(t, Fan(e.to, e.msg, ok, Todo(e.to)))
           /\ UNCHANGED calls
  <2>1. PICK f \in FrameSet : f = Fan(e.to, e.msg, ok, Todo(e.to))
    BY <1>5, <1>7, TodoFacts DEF Fan, FrameSet, FanSet
  <2>2. FrameOK(t, f)'
    <3>1. f.msg = e.msg /\ f.sig = e.to /\ f.todo = Todo(e.to)  BY <2>1 DEF Fan
    <3>2. f.todo = Todo(f.sig)'  BY <1>0, <3>1, TodoKept
    <3>3. /\ e.msg \in DOMAIN sent /\ sent[e.msg].sig = e.to /\ Home[e.to] = t
      BY <1>3, <1>7 DEF EventOK
    <3>4. QED  BY <1>0, <3>1, <3>2, <3>3 DEF FrameOK
  <2>3. stack' \in [Threads -> Seq(FrameSet)] /\ FramesOK'
    BY <1>0, <1>7, <2>1, <2>2, PushStep
  <2>4. QED  BY <1>0, <1>1, <1>7, <2>3, ConnKept DEF Typed
<1>8. CASE /\ e.to \in Slots
           /\ Push(t, Body(e.to, e.msg))
           /\ calls' = Append(calls, [slot |-> e.to, msg |-> e.msg, thread |-> t,
                                      via |-> "queued", nth |-> e.nth, fresh |-> ok])
  <2>1. PICK f \in FrameSet : f = Body(e.to, e.msg)
    BY <1>5, <1>8 DEF Body, FrameSet, BodySet
  <2>2. FrameOK(t, f)'  BY <2>1 DEF FrameOK, Body
  <2>3. stack' \in [Threads -> Seq(FrameSet)] /\ FramesOK'
    BY <1>0, <1>8, <2>1, <2>2, PushStep
  <2>4. [slot |-> e.to, msg |-> e.msg, thread |-> t, via |-> "queued", nth |-> e.nth,
         fresh |-> ok] \in CallSet
    BY <1>0, <1>3, <1>5, <1>8 DEF CallSet, EventOK
  <2>5. calls' \in Seq(CallSet)  BY <1>8, <2>4 DEF Typed
  <2>6. QED  BY <1>0, <1>1, <2>3, <2>5, ConnKept DEF Typed
<1>9. QED  BY <1>4, <1>6, <1>7, <1>8

-----------------------------------------------------------------------------
(* Operations on the connections                                           *)

LEMMA ChangeConn ==
  ASSUME ConnInv, NEW t \in Threads, Change(t)
  PROVE  ConnInv'
BY ConnectPreserves, DisconnectSlotPreserves, DisconnectPreserves,
   DestroySignalPreserves, DestroySlotPreserves DEF Change

\* The connections of a signal that is walking through them stay.
LEMMA ChangeKeepsTodo ==
  ASSUME ConnInv, NEW t \in Threads, Change(t), NEW s \in Signals, s \in Walking
  PROVE  Todo(s)' = Todo(s)
<1>0. /\ direct \in [Pairs -> 0..MaxConn] /\ queued \in [Pairs -> 0..MaxConn]
      /\ back \in [Pairs -> Nat] /\ Mutual /\ MaxConn \in Nat
  BY ConnectionsAssumption DEF ConnInv, TypeOK
<1> SUFFICES ASSUME NEW l \in Slots
             PROVE  /\ direct'[<<s, l>>] = direct[<<s, l>>]
                    /\ queued'[<<s, l>>] = queued[<<s, l>>]
  BY DEF Todo
<1>20. PICK p : p = <<s, l>>  OBVIOUS
<1>21. p \in Pairs /\ p = <<s, l>> /\ p[1] = s /\ p[2] = l  BY <1>20 DEF Pairs
<1>1. CASE \E r \in Signals \ Walking, k \in Slots :
             (\E type \in Types : Connect(r, k, type, t)) \/ DisconnectSlot(r, k)
  <2>1. PICK r \in Signals \ Walking, k \in Slots :
          (\E type \in Types : Connect(r, k, type, t)) \/ DisconnectSlot(r, k)
    BY <1>1
  <2>2. <<r, k>> # <<s, l>>  BY <2>1
  <2>3. QED  BY <1>0, <1>21, <2>1, <2>2 DEF Connect, DisconnectSlot
<1>2. CASE \E r \in Signals \ Walking : Disconnect(r) \/ DestroySignal(r)
  BY <1>0, <1>21, <1>2 DEF Disconnect, DestroySignal, Clear
<1>3. CASE \E k \in Slots \ Busy :
             /\ \A r \in Walking : direct[<<r, k>>] + queued[<<r, k>>] = 0
             /\ DestroySlot(k)
  <2>1. PICK k \in Slots :
          direct[<<s, k>>] + queued[<<s, k>>] = 0 /\ DestroySlot(k)
    BY <1>3
  <2>2. CASE k = l
    <3>1. direct[p] \in Nat /\ queued[p] \in Nat /\ back[p] \in Nat
      BY <1>0, <1>21
    <3>2. direct[p] = 0 /\ queued[p] = 0  BY <1>21, <2>1, <2>2, <3>1
    <3>3. Without(0, back[p]) = 0  BY <3>1, WithoutFacts
    <3>4. direct'[p] = Without(direct[p], back[p]) /\ queued'[p] = Without(queued[p], back[p])
      BY <1>21, <2>1, <2>2 DEF DestroySlot
    <3>5. QED  BY <1>21, <3>2, <3>3, <3>4
  <2>3. CASE k # l
    BY <1>21, <2>1, <2>3 DEF DestroySlot
  <2>4. QED  BY <2>2, <2>3
<1>4. QED  BY <1>1, <1>2, <1>3 DEF Change

LEMMA ChangePreserves ==
  ASSUME DispInv, NEW t \in Threads, Change(t)
  PROVE  DispInv'
<1> USE DEF DispInv
<1>0. UNCHANGED <<queue, stack, sent, calls>> /\ SentGrows
  BY DEF Change, SentGrows
<1>1. ASSUME NEW u \in Threads, NEW i \in DOMAIN stack[u], NEW f, f = stack[u][i]
      PROVE  FrameOK(u, f)'
  <2>1. FrameOK(u, f)  BY <1>1 DEF FramesOK
  <2>2. CASE f.op = "fan"
    <3>1. f.sig \in Walking  BY <1>1, <2>2 DEF Walking, Frames
    <3>2. f.sig \in Signals
      <4>1. f \in FrameSet  BY <1>1 DEF Typed
      <4>2. QED  BY <2>2, <4>1, FrameKinds DEF FanSet
    <3>3. Todo(f.sig)' = Todo(f.sig)  BY <3>1, <3>2, ChangeKeepsTodo
    <3>4. QED  BY <1>0, <2>1, <3>3 DEF FrameOK
  <2>3. CASE f.op # "fan"  BY <2>3 DEF FrameOK
  <2>4. QED  BY <2>2, <2>3
<1>2. FramesOK'
  <2>1. ASSUME NEW u \in Threads, NEW i \in DOMAIN stack'[u]
        PROVE  FrameOK(u, stack[u][i])'
    <3>1. PICK f : f = stack[u][i]  OBVIOUS
    <3>2. FrameOK(u, f)'  BY <1>0, <1>1, <2>1, <3>1
    <3>3. QED  BY <1>0, <3>1, <3>2 DEF FrameOK
  <2>2. QED  BY <2>1 DEF FramesOK
<1>3. EventsOK'  BY <1>0, QueueKept
<1>4. QED  BY <1>0, <1>2, <1>3, ChangeConn DEF Typed

-----------------------------------------------------------------------------
LEMMA DispInvariance == DispatchSpec => []DispInv
<1>1. DispatchInit => DispInv
  <2> SUFFICES ASSUME DispatchInit PROVE DispInv
    OBVIOUS
  <2>1. ConnInv
    BY ConnectionsAssumption
    DEF DispatchInit, Init, ConnInv, TypeOK, Mutual, NoDangling, Objects
  <2>2. Typed /\ FramesOK /\ EventsOK
    BY DEF DispatchInit, Typed, FramesOK, EventsOK
  <2>3. QED  BY <2>1, <2>2 DEF DispInv
<1>2. DispInv /\ [DispatchNext]_allVars => DispInv'
  <2> SUFFICES ASSUME DispInv, [DispatchNext]_allVars PROVE DispInv'
    OBVIOUS
  <2>1. CASE UNCHANGED allVars
    <3>1. /\ UNCHANGED connVars /\ UNCHANGED <<queue, stack, sent, calls>> /\ SentGrows
      BY <2>1 DEF allVars, dispVars, SentGrows
    <3>2. QED
      BY <3>1, ConnKept, StackKept, QueueKept DEF DispInv, Typed
  <2>2. CASE DispatchNext
    <3>1. ASSUME NEW t \in Threads, Step(t) PROVE DispInv'
      BY <3>1, FanDirectPreserves, FanQueuedPreserves, ReturnPreserves DEF Step
    <3>2. QED
      BY <2>2, <3>1, ChangePreserves, EmitPreserves, RunEventPreserves DEF DispatchNext
  <2>3. QED  BY <2>1, <2>2
<1>3. QED  BY <1>1, <1>2, PTL DEF DispatchSpec

\* A signal and a slot agree on their connections while emissions are in
\* progress in any number of threads.
THEOREM DispatchMutual == DispatchSpec => []Mutual
<1>1. DispInv => Mutual  BY DEF DispInv, ConnInv
<1>2. QED  BY <1>1, DispInvariance, PTL

\* No list names a destroyed object, whatever slots do in reaction to signals.
THEOREM DispatchSafe == DispatchSpec => []NoDangling
<1>1. DispInv => NoDangling  BY DEF DispInv, ConnInv
<1>2. QED  BY <1>1, DispInvariance, PTL

-----------------------------------------------------------------------------
(* Threads.  A direct connection between two loops' objects would call the *)
(* slot in the signal's thread; connect makes none unless it is asked to.  *)

SameHome ==
  \A p \in Pairs :
    direct[p] > 0 /\ Home[p[1]] \in Loops /\ Home[p[2]] \in Loops => Home[p[1]] = Home[p[2]]

CallOK(c) ==
  /\ c.msg \in DOMAIN sent
  /\ c.via = "direct" =>
       c.thread = IF Home[Sig(c)] \in Loops THEN Home[Sig(c)] ELSE By(c)
  /\ c.via = "queued" => c.thread = Home[c.slot]
  /\ Home[Sig(c)] \in Loops /\ Home[c.slot] \in Loops => c.thread = Home[c.slot]

CallsOK == \A i \in DOMAIN calls : CallOK(calls[i])

LEMMA ChangeSameHome ==
  ASSUME "direct" \notin Types, ConnInv, SameHome, NEW t \in Threads, Change(t)
  PROVE  SameHome'
<1>0. /\ direct \in [Pairs -> 0..MaxConn] /\ back \in [Pairs -> Nat] /\ MaxConn \in Nat
  BY ConnectionsAssumption DEF ConnInv, TypeOK
<1> SUFFICES ASSUME NEW p \in Pairs, direct'[p] > 0,
                    Home[p[1]] \in Loops, Home[p[2]] \in Loops
             PROVE  Home[p[1]] = Home[p[2]]
  BY DEF SameHome
<1>1. direct[p] \in Nat /\ back[p] \in Nat  BY <1>0
<1>2. CASE direct[p] > 0  BY <1>2 DEF SameHome
<1>3. ASSUME NEW s \in Signals, NEW l \in Slots, NEW type \in Types,
             Connect(s, l, type, t), direct[p] = 0
      PROVE  Home[p[1]] = Home[p[2]]
  <2>1. p = <<s, l>> /\ Kind(s, l, type, t) = "direct"
    BY <1>0, <1>3 DEF Connect
  <2>2. p[1] = s /\ p[2] = l  BY <2>1
  <2>3. NoParent \notin {Home[s], Home[l]}
    BY <2>2, ConnectionsAssumption DEF Threads
  <2>4. type # "direct"  BY <1>3
  <2>5. ThreadOf(s, t) = ThreadOf(l, t)  BY <2>1, <2>3, <2>4 DEF Kind
  <2>6. QED  BY <2>2, <2>5 DEF ThreadOf
<1>4. ASSUME NEW s \in Signals, NEW l \in Slots, DisconnectSlot(s, l), direct[p] = 0
      PROVE  FALSE
  <2>1. CASE p = <<s, l>>
    <3>1. direct'[p] = direct[p] - AtMost(direct[p], 1)
      BY <1>0, <1>4, <2>1 DEF DisconnectSlot
    <3>2. AtMost(direct[p], 1) \in Nat  BY <1>1, WithoutFacts
    <3>3. QED  BY <1>1, <1>4, <3>1, <3>2
  <2>2. CASE p # <<s, l>>
    BY <1>0, <1>1, <1>4, <2>2 DEF DisconnectSlot
  <2>3. QED  BY <2>1, <2>2
<1>5. ASSUME NEW s \in Signals, Disconnect(s) \/ DestroySignal(s), direct[p] = 0
      PROVE  FALSE
  BY <1>1, <1>5 DEF Disconnect, DestroySignal, Clear
<1>6. ASSUME NEW l \in Slots, DestroySlot(l), direct[p] = 0
      PROVE  FALSE
  <2>1. Without(0, back[p]) = 0  BY <1>1, WithoutFacts
  <2>2. QED  BY <1>1, <1>6, <2>1 DEF DestroySlot
<1>7. CASE direct[p] = 0
  BY <1>3, <1>4, <1>5, <1>6, <1>7 DEF Change
<1>8. QED  BY <1>1, <1>2, <1>7

LEMMA CallKept ==
  ASSUME SentGrows, NEW c, CallOK(c)
  PROVE  CallOK(c)'
BY DEF SentGrows, CallOK, Sig, By

\* The calls after a step that makes one, or none.
LEMMA CallsStep ==
  ASSUME Typed, CallsOK, SentGrows, NEW c \in CallSet,
         calls' = Append(calls, c), CallOK(c)'
  PROVE  CallsOK'
<1>1. PICK r : r = Append(calls, c)  OBVIOUS
<1>2. \A i \in DOMAIN r : r[i] = c \/ \E j \in DOMAIN calls : r[i] = calls[j]
  BY <1>1, AppendFacts DEF Typed
<1>3. ASSUME NEW i \in DOMAIN r, NEW d, d = r[i] PROVE CallOK(d)'
  <2>1. CASE d = c  BY <2>1
  <2>2. CASE \E j \in DOMAIN calls : d = calls[j]  BY <2>2, CallKept DEF CallsOK
  <2>3. QED  BY <1>2, <1>3, <2>1, <2>2
<1>4. ASSUME NEW i \in DOMAIN calls' PROVE CallOK(calls[i])'
  <2>1. PICK d : d = r[i]  OBVIOUS
  <2>2. CallOK(d)' /\ calls'[i] = d  BY <1>1, <1>3, <1>4, <2>1
  <2>3. QED  BY <2>2 DEF CallOK, Sig, By
<1>5. QED  BY <1>4 DEF CallsOK

LEMMA CallsKept ==
  ASSUME CallsOK, SentGrows, calls' = calls
  PROVE  CallsOK'
<1>1. ASSUME NEW i \in DOMAIN calls' PROVE CallOK(calls[i])'
  <2>1. PICK d : d = calls[i]  OBVIOUS
  <2>2. CallOK(d)'  BY <1>1, <2>1, CallKept DEF CallsOK
  <2>3. QED  BY <2>1, <2>2 DEF CallOK, Sig, By
<1>2. QED  BY <1>1 DEF CallsOK

LEMMA FanDirectAtHome ==
  ASSUME DispInv, SameHome, CallsOK, NEW t \in Threads, FanDirect(t)
  PROVE  CallsOK'
<1>0. UNCHANGED sent /\ SentGrows /\ Top(t, "fan")
  BY DEF FanDirect, SentGrows
<1>20. PICK f : f = Head(stack[t])  OBVIOUS
<1>1. PICK x, c :
        /\ x \in f.todo
        /\ Direct(x)
        /\ c = [slot |-> x[2], msg |-> f.msg, thread |-> t, via |-> "direct", nth |-> x[3],
                fresh |-> f.fresh]
        /\ calls' = Append(calls, c)
  BY <1>20 DEF FanDirect
<1>2. f \in FanSet /\ FrameOK(t, f) /\ f.op = "fan"  BY <1>0, <1>20, FanFacts
<1>3. /\ x[2] \in Slots /\ x[3] \in 1..MaxConn /\ f.msg \in Nat
      /\ f.fresh \in BOOLEAN /\ f.sig \in Signals
  BY <1>0, <1>20, <1>1, <1>2, FanFacts DEF FanSet, TodoSet
<1>4. c \in CallSet  BY <1>1, <1>3 DEF CallSet
<1>5. f.msg \in DOMAIN sent /\ sent[f.msg].sig = f.sig /\ x \in Todo(f.sig)
      /\ t = IF Home[f.sig] \in Loops THEN Home[f.sig] ELSE sent[f.msg].by
  BY <1>1, <1>2 DEF FrameOK
<1>6. direct[<<f.sig, x[2]>>] > 0
  BY <1>1, <1>3, <1>5, TodoFacts DEF Direct, DispInv
<1>7. Home[f.sig] \in Loops /\ Home[x[2]] \in Loops => Home[f.sig] = Home[x[2]]
  <2>1. PICK p : p = <<f.sig, x[2]>>  OBVIOUS
  <2>2. p \in Pairs /\ p[1] = f.sig /\ p[2] = x[2]  BY <1>3, <2>1 DEF Pairs
  <2>3. QED  BY <1>6, <2>1, <2>2 DEF SameHome
<1>8. CallOK(c)
  <2>1. c.slot = x[2] /\ c.msg = f.msg /\ c.thread = t /\ c.via = "direct"  BY <1>1
  <2>2. QED  BY <1>5, <1>7, <2>1 DEF CallOK, Sig, By
<1>9. QED  BY <1>0, <1>1, <1>4, <1>8, CallKept, CallsStep DEF DispInv

LEMMA RunEventAtHome ==
  ASSUME DispInv, CallsOK, NEW t \in Loops, RunEvent(t)
  PROVE  CallsOK'
<1>0. UNCHANGED sent /\ SentGrows /\ queue[t] # <<>> /\ t \in Threads
  BY DEF RunEvent, SentGrows, Threads
<1>1. PICK e : e = Head(queue[t])  OBVIOUS
<1>2. e \in EventSet /\ EventOK(t, e)
  <2>1. queue[t] \in Seq(EventSet)  BY DEF DispInv, Typed
  <2>2. 1 \in DOMAIN queue[t] /\ e = queue[t][1] /\ e \in EventSet
    BY <1>0, <1>1, <2>1, TailFacts
  <2>3. QED  BY <2>2 DEF DispInv, EventsOK
<1>3. PICK c :
        \/ UNCHANGED calls
        \/ /\ e.to \in Slots /\ c.slot = e.to /\ c.msg = e.msg /\ c.thread = t
           /\ c.via = "queued" /\ c \in CallSet
           /\ calls' = Append(calls, c)
  <2>1. (e.fresh /\ Intact(e)) \in BOOLEAN  BY Zenon
  <2>0. PICK ok \in BOOLEAN : \E c :
          /\ c = [slot |-> e.to, msg |-> e.msg, thread |-> t, via |-> "queued",
                  nth |-> e.nth, fresh |-> ok]
          /\ \/ UNCHANGED calls
             \/ e.to \in Slots /\ calls' = Append(calls, c)
    BY <1>1, <2>1 DEF RunEvent
  <2>2. PICK c :
          /\ c = [slot |-> e.to, msg |-> e.msg, thread |-> t, via |-> "queued",
                  nth |-> e.nth, fresh |-> ok]
          /\ \/ UNCHANGED calls
             \/ e.to \in Slots /\ calls' = Append(calls, c)
    BY <2>0
  <2>3. CASE e.to \in Slots /\ calls' = Append(calls, c)
    <3>1. c \in CallSet  BY <1>0, <1>2, <2>2, <2>3 DEF CallSet, EventSet, EventOK
    <3>2. c.slot = e.to /\ c.msg = e.msg /\ c.thread = t /\ c.via = "queued"
      BY <2>2
    <3>3. QED  BY <2>3, <3>1, <3>2
  <2>4. QED  BY <2>2, <2>3
<1>4. CASE UNCHANGED calls  BY <1>0, <1>4, CallsKept
<1>5. CASE /\ e.to \in Slots /\ c.slot = e.to /\ c.msg = e.msg /\ c.thread = t
           /\ c.via = "queued" /\ c \in CallSet
           /\ calls' = Append(calls, c)
  <2>1. CallOK(c)  BY <1>2, <1>5 DEF CallOK, EventOK
  <2>2. QED  BY <1>0, <1>5, <2>1, CallKept, CallsStep DEF DispInv
<1>6. QED  BY <1>3, <1>4, <1>5

\* A direct connection calls in the thread of the signal's loop, or in that of the
\* emission if the signal belongs to no loop; a queued one in the loop of the
\* slot; and in programs that never ask for a direct connection a slot of a loop
\* is called in its own thread by every signal of a loop.  Nothing like that holds
\* for a signal that belongs to none: its direct slots are called wherever it is
\* emitted.
THEOREM DispatchAtHome ==
  ASSUME "direct" \notin Types
  PROVE  DispatchSpec => []AtHome
<1> DEFINE HomeInv == SameHome /\ CallsOK
<1>1. DispatchInit => HomeInv
  BY ConnectionsAssumption DEF DispatchInit, Init, SameHome, CallsOK
<1>2. DispInv /\ HomeInv /\ [DispatchNext]_allVars => HomeInv'
  <2> SUFFICES ASSUME DispInv, HomeInv, [DispatchNext]_allVars PROVE HomeInv'
    OBVIOUS
  <2>1. CASE UNCHANGED connVars /\ UNCHANGED calls /\ SentGrows
    BY <2>1, CallsKept DEF connVars, SameHome
  <2>2. CASE UNCHANGED allVars
    BY <2>1, <2>2 DEF allVars, dispVars, SentGrows
  <2>3. ASSUME NEW t \in Threads, Step(t) PROVE HomeInv'
    <3>1. CASE FanDirect(t)
      BY <3>1, FanDirectAtHome DEF FanDirect, connVars, SameHome
    <3>2. CASE FanQueued(t) \/ Return(t)
      BY <2>1, <3>2 DEF FanQueued, Return, SentGrows
    <3>3. QED  BY <2>3, <3>1, <3>2 DEF Step
  <2>4. ASSUME NEW t \in Threads, Change(t) PROVE HomeInv'
    <3>1. UNCHANGED calls /\ SentGrows  BY <2>4 DEF Change, SentGrows
    <3>2. QED  BY <2>4, <3>1, ChangeSameHome, CallsKept DEF DispInv
  <2>5. ASSUME NEW t \in Threads, NEW s \in Signals, Emit(t, s) PROVE HomeInv'
    <3>1. UNCHANGED connVars /\ UNCHANGED calls  BY <2>5 DEF Emit
    <3>2. SentGrows
      <4>1. sent \in Seq(SentSet)  BY DEF DispInv, Typed
      <4>2. PICK r : sent' = Append(sent, r)  BY <2>5 DEF Emit
      <4>3. QED  BY <4>1, <4>2 DEF SentGrows
    <3>3. QED  BY <2>1, <3>1, <3>2
  <2>6. ASSUME NEW t \in Loops, RunEvent(t) PROVE HomeInv'
    BY <2>6, RunEventAtHome DEF RunEvent, connVars, SameHome
  <2>7. QED  BY <2>2, <2>3, <2>4, <2>5, <2>6 DEF DispatchNext
<1>3. HomeInv => AtHome
  BY DEF CallsOK, CallOK, AtHome, Calls
<1> HIDE DEF HomeInv
<1>4. QED  BY <1>1, <1>2, <1>3, DispInvariance, PTL DEF DispatchSpec

-----------------------------------------------------------------------------
(* Types and bounds                                                        *)

BoundInv ==
  /\ changes \in Nat
  /\ Len(sent) <= MaxEmits /\ changes <= MaxChanges /\ Len(sent) + changes <= MaxOps
  /\ thrown \in BOOLEAN

\* A loop that sleeps past an event is in no call, and has one.
MissedOK(t) == t \in Loops /\ Idle(t) /\ queue[t] # <<>>
MissedInv == \A t \in missed : MissedOK(t)

\* An event for loop r, added by a thread that is in a call.
LEMMA AddEventMissed ==
  ASSUME Typed, MissedInv, NEW t \in Threads, NEW r \in Loops, NEW e \in EventSet,
         AddEvent(r, e), r = t => ~Idle(t),
         \A u \in Threads : u # t => stack'[u] = stack[u],
         ~Idle(t) \/ t \notin Loops
  PROVE  MissedInv'
<1>1. SUFFICES ASSUME NEW u \in missed' PROVE MissedOK(u)'
  BY DEF MissedInv
<1>2. r \in Threads /\ queue'[r] # <<>> /\ \A v \in Loops : v # r => queue'[v] = queue[v]
  <2>1. queue' = [queue EXCEPT ![r] = Append(@, e)] /\ queue[r] \in Seq(EventSet)
    BY DEF AddEvent, Typed
  <2>2. queue'[r] = Append(queue[r], e)  BY <2>1 DEF Typed
  <2>3. Append(queue[r], e) # <<>>  BY <2>1
  <2>4. QED  BY <2>1, <2>2, <2>3 DEF Typed, Threads
<1>3. CASE u \in missed
  <2>1. MissedOK(u) /\ u \in Threads  BY <1>3 DEF MissedInv, MissedOK, Threads
  <2>2. u # t  BY <2>1 DEF MissedOK
  <2>3. QED  BY <1>2, <2>1, <2>2 DEF MissedOK, Idle
<1>4. CASE u \notin missed
  <2>1. u = r /\ Idle(r)
    <3>1. missed' \in {missed \ {r}, missed \cup {r}, missed} /\ u = r
      BY <1>4 DEF AddEvent
    <3>2. r \notin missed  BY <1>4, <3>1
    <3>3. missed' # missed  BY <1>4
    <3>4. QED  BY <3>1, <3>2, <3>3 DEF AddEvent
  <2>2. r # t  BY <2>1
  <2>3. QED  BY <1>2, <2>1, <2>2 DEF MissedOK, Idle
<1>5. QED  BY <1>3, <1>4

\* The step of a thread that is in a call, and leaves the events alone.
LEMMA CallMissed ==
  ASSUME MissedInv, NEW t, UNCHANGED <<queue, missed>>,
         ~Idle(t) \/ t \notin Loops,
         \A u \in Threads : u # t => stack'[u] = stack[u]
  PROVE  MissedInv'
<1>1. ASSUME NEW u \in missed PROVE MissedOK(u)'
  <2>1. MissedOK(u) /\ u \in Threads /\ u # t
    BY <1>1 DEF MissedInv, MissedOK, Threads
  <2>2. QED  BY <2>1 DEF MissedOK, Idle
<1>2. QED  BY <1>1 DEF MissedInv

LEMMA StepMissed ==
  ASSUME DispInv, MissedInv, NEW t \in Threads, Step(t)
  PROVE  MissedInv'
<1>1. stack \in [Threads -> Seq(FrameSet)]  BY DEF DispInv, Typed
<1>2. CASE FanDirect(t) \/ Return(t)
  <2>1. ~Idle(t) /\ UNCHANGED <<queue, missed>>
    BY <1>2 DEF FanDirect, Return, Top, Idle
  <2>2. \A u \in Threads : u # t => stack'[u] = stack[u]
    BY <1>1, <1>2 DEF FanDirect, Return, Pop
  <2>3. QED  BY <2>1, <2>2, CallMissed
<1>3. CASE FanQueued(t)
  <2>1. ~Idle(t) /\ Top(t, "fan")  BY <1>3 DEF FanQueued, Top, Idle
  <2>2. \A u \in Threads : u # t => stack'[u] = stack[u]
    BY <1>1, <1>3 DEF FanQueued
  <2>3. PICK f : f = Head(stack[t])  OBVIOUS
  <2>4. PICK x, e :
          /\ x \in f.todo
          /\ e = Event(x[2], f.msg, x[3], f.fresh)
          /\ \/ Home[x[2]] \in Loops /\ AddEvent(Home[x[2]], e)
             \/ UNCHANGED <<queue, missed>>
    BY <1>3, <2>3 DEF FanQueued
  <2>5. CASE UNCHANGED <<queue, missed>>  BY <2>1, <2>2, <2>5, CallMissed
  <2>6. CASE Home[x[2]] \in Loops /\ AddEvent(Home[x[2]], e)
    <3>1. f \in FanSet  BY <2>1, <2>3, FanFacts DEF DispInv
    <3>2. x[2] \in Slots /\ x[3] \in Nat /\ f.msg \in Nat /\ f.fresh \in BOOLEAN
      BY <2>4, <3>1 DEF FanSet, TodoSet
    <3>3. e \in EventSet  BY <2>4, <3>2 DEF Event, EventSet, Objects
    <3>4. QED  BY <2>1, <2>2, <2>6, <3>3, AddEventMissed DEF DispInv
  <2>7. QED  BY <2>4, <2>5, <2>6
<1>4. QED  BY <1>2, <1>3 DEF Step

LEMMA EmitMissed ==
  ASSUME DispInv, MissedInv, NEW t \in Threads, NEW s \in Signals, Emit(t, s)
  PROVE  MissedInv'
<1>1. /\ stack \in [Threads -> Seq(FrameSet)] /\ sent \in Seq(SentSet)
      /\ Len(sent) \in Nat
  BY DEF DispInv, Typed
<1>2. ~Idle(t) \/ t \notin Loops
  BY ConnectionsAssumption DEF Emit, Top, Idle
<1>3. \A u \in Threads : u # t => stack'[u] = stack[u]
  BY <1>1 DEF Emit, Push
<1>4. CASE Home[s] \in Loops \ {t}
  <2>1. PICK e : e = Event(s, Len(sent) + 1, 1, TRUE) /\ AddEvent(Home[s], e)
    BY <1>4 DEF Emit
  <2>2. e \in EventSet  BY <1>1, <2>1 DEF Event, EventSet, Objects
  <2>3. QED  BY <1>2, <1>3, <1>4, <2>1, <2>2, AddEventMissed DEF DispInv
<1>5. CASE Home[s] \notin Loops \ {t}
  <2>1. UNCHANGED <<queue, missed>>  BY <1>5 DEF Emit
  <2>2. QED  BY <1>2, <1>3, <2>1, CallMissed
<1>6. QED  BY <1>4, <1>5

LEMMA RunEventMissed ==
  ASSUME DispInv, MissedInv, NEW t \in Loops, RunEvent(t)
  PROVE  MissedInv'
<1>1. stack \in [Threads -> Seq(FrameSet)] /\ queue \in [Loops -> Seq(EventSet)]
  BY DEF DispInv, Typed
<1>2. missed' = missed \ {t} /\ queue' = [queue EXCEPT ![t] = Tail(@)]
  BY DEF RunEvent
<1>3. \A u \in Threads : u # t => stack'[u] = stack[u]
  BY <1>1 DEF RunEvent, Push
<1>4. ASSUME NEW u \in missed' PROVE MissedOK(u)'
  <2>1. MissedOK(u) /\ u \in Threads /\ u # t
    BY <1>2, <1>4 DEF MissedInv, MissedOK, Threads
  <2>2. QED  BY <1>1, <1>2, <1>3, <2>1 DEF MissedOK, Idle
<1>5. QED  BY <1>4 DEF MissedInv

\* Every event waits in the loop its object belongs to and carries an emission
\* that was made, a loop only sleeps past an event while it is in no call, and
\* the operations stay within their bounds.
THEOREM DispatchTyped == DispatchSpec => []DispatchTypeOK
<1>1. DispatchInit => BoundInv
  <2> SUFFICES ASSUME DispatchInit PROVE BoundInv
    OBVIOUS
  <2>1. Len(sent) = 0 /\ changes = 0 /\ thrown = FALSE  BY DEF DispatchInit
  <2>2. MaxEmits \in Nat /\ MaxChanges \in Nat /\ MaxOps \in Nat  BY DispatchAssumption
  <2>3. thrown \in BOOLEAN  BY <2>1, Zenon
  <2>4. Len(sent) <= MaxEmits /\ changes <= MaxChanges /\ Len(sent) + changes <= MaxOps
        /\ changes \in Nat
    BY <2>1, <2>2
  <2>5. QED  BY <2>3, <2>4, Zenon DEF BoundInv
<1>2. DispInv /\ BoundInv /\ [DispatchNext]_allVars => BoundInv'
  <2> SUFFICES ASSUME DispInv, BoundInv, [DispatchNext]_allVars PROVE BoundInv'
    OBVIOUS
  <2>0. sent \in Seq(SentSet) /\ Len(sent) \in Nat /\ changes \in Nat
        /\ MaxEmits \in Nat /\ MaxChanges \in Nat /\ MaxOps \in Nat
    BY DispatchAssumption DEF DispInv, Typed, BoundInv
  <2>1. CASE UNCHANGED <<sent, changes>> /\ thrown' \in BOOLEAN
    BY <2>1 DEF BoundInv
  <2>2. CASE UNCHANGED allVars
    BY <2>1, <2>2 DEF allVars, dispVars, BoundInv
  <2>3. ASSUME NEW t \in Threads, Step(t) PROVE BoundInv'
    BY <2>1, <2>3 DEF Step, FanDirect, FanQueued, Return, BoundInv
  <2>4. ASSUME NEW t \in Threads, Change(t) PROVE BoundInv'
    <3>1. changes < MaxChanges /\ Len(sent) + changes < MaxOps
          /\ changes' = changes + 1 /\ UNCHANGED <<sent, thrown>>
      BY <2>4 DEF Change, MayChange
    <3>2. QED  BY <2>0, <3>1 DEF BoundInv
  <2>5. ASSUME NEW t \in Threads, NEW s \in Signals, Emit(t, s) PROVE BoundInv'
    <3>1. Len(sent) < MaxEmits /\ Len(sent) + changes < MaxOps
          /\ UNCHANGED <<changes, thrown>>
      BY <2>5 DEF Emit
    <3>2. PICK r : sent' = Append(sent, r)  BY <2>5 DEF Emit
    <3>3. Len(sent') = Len(sent) + 1  BY <2>0, <3>2
    <3>4. QED  BY <2>0, <3>1, <3>3 DEF BoundInv
  <2>6. ASSUME NEW t \in Loops, RunEvent(t) PROVE BoundInv'
    BY <2>1, <2>6 DEF RunEvent, BoundInv
  <2>7. QED  BY <2>2, <2>3, <2>4, <2>5, <2>6 DEF DispatchNext
<1>3. DispInv /\ BoundInv /\ MissedInv => DispatchTypeOK
  <2> SUFFICES ASSUME DispInv, BoundInv, MissedInv PROVE DispatchTypeOK
    OBVIOUS
  <2>1. ASSUME NEW t \in Loops, NEW i \in DOMAIN queue[t]
        PROVE  queue[t][i].to \in Objects /\ Home[queue[t][i].to] = t
               /\ queue[t][i].msg \in DOMAIN sent
    <3>1. queue[t][i] \in EventSet  BY DEF DispInv, Typed
    <3>2. EventOK(t, queue[t][i])  BY DEF DispInv, EventsOK
    <3>3. QED  BY <3>1, <3>2 DEF EventSet, EventOK
  <2>2. ASSUME NEW t \in Threads, NEW i \in DOMAIN stack[t]
        PROVE  stack[t][i].op \in {"fan", "body", "post"}
    <3>1. stack[t][i] \in FrameSet  BY DEF DispInv, Typed
    <3>2. QED  BY <3>1 DEF FrameSet, FanSet, BodySet, PostSet
  <2>3. TypeOK  BY DEF DispInv, ConnInv
  <2>4. QED
    BY <2>1, <2>2, <2>3 DEF DispatchTypeOK, BoundInv, MissedInv, MissedOK, Frames
<1>4. DispatchInit => MissedInv  BY DEF DispatchInit, MissedInv
<1>5. DispInv /\ MissedInv /\ [DispatchNext]_allVars => MissedInv'
  <2> SUFFICES ASSUME DispInv, MissedInv, [DispatchNext]_allVars PROVE MissedInv'
    OBVIOUS
  <2>1. ASSUME UNCHANGED <<queue, missed, stack>> PROVE MissedInv'
    BY <2>1 DEF MissedInv, MissedOK, Idle
  <2>2. CASE UNCHANGED allVars  BY <2>1, <2>2 DEF allVars, dispVars
  <2>3. ASSUME NEW t \in Threads, Change(t) PROVE MissedInv'
    BY <2>1, <2>3 DEF Change
  <2>4. QED
    BY <2>2, <2>3, StepMissed, EmitMissed, RunEventMissed DEF DispatchNext
<1>6. QED
  BY <1>1, <1>2, <1>3, <1>4, <1>5, DispInvariance, PTL DEF DispatchSpec

-----------------------------------------------------------------------------
(* The calls an emission has to make, counted                              *)

\* A signal without parent only walks through its direct connections, and
\* connect gives it no other.
DirectOnly == \A p \in Pairs : Home[p[1]] = NoParent => queued[p] = 0

LEMMA ChangeDirectOnly ==
  ASSUME ConnInv, DirectOnly, NEW t \in Threads, Change(t)
  PROVE  DirectOnly'
<1>0. queued \in [Pairs -> 0..MaxConn] /\ back \in [Pairs -> Nat] /\ MaxConn \in Nat
  BY ConnectionsAssumption DEF ConnInv, TypeOK
<1> SUFFICES ASSUME NEW p \in Pairs, Home[p[1]] = NoParent
             PROVE  queued'[p] = 0
  BY DEF DirectOnly
<1>1. queued[p] = 0 /\ back[p] \in Nat  BY <1>0 DEF DirectOnly
<1>2. ASSUME NEW s \in Signals, NEW l \in Slots, NEW type \in Types, Connect(s, l, type, t)
      PROVE  queued'[p] = 0
  <2>1. CASE p = <<s, l>>
    <3>1. Kind(s, l, type, t) = "direct"  BY <2>1 DEF Kind
    <3>2. QED  BY <1>1, <1>2, <3>1 DEF Connect
  <2>2. CASE p # <<s, l>>
    BY <1>0, <1>1, <1>2, <2>2 DEF Connect
  <2>3. QED  BY <2>1, <2>2
<1>3. ASSUME NEW s \in Signals, NEW l \in Slots, DisconnectSlot(s, l)
      PROVE  queued'[p] = 0
  <2>1. CASE p = <<s, l>>
    <3>1. queued'[p] = queued[p] - AtMost(queued[p], 1)
      BY <1>0, <1>3, <2>1 DEF DisconnectSlot
    <3>2. AtMost(0, 1) = 0  BY DEF AtMost
    <3>3. QED  BY <1>1, <3>1, <3>2
  <2>2. CASE p # <<s, l>>
    BY <1>0, <1>1, <1>3, <2>2 DEF DisconnectSlot
  <2>3. QED  BY <2>1, <2>2
<1>4. ASSUME NEW s \in Signals, Disconnect(s) \/ DestroySignal(s)
      PROVE  queued'[p] = 0
  BY <1>1, <1>4 DEF Disconnect, DestroySignal, Clear
<1>5. ASSUME NEW l \in Slots, DestroySlot(l)
      PROVE  queued'[p] = 0
  <2>1. Without(0, back[p]) = 0  BY <1>1, WithoutFacts
  <2>2. QED  BY <1>1, <1>5, <2>1 DEF DestroySlot
<1>6. QED  BY <1>2, <1>3, <1>4, <1>5 DEF Change

\* d entries of one list and q of the other are d + q calls.
LEMMA CountTwo ==
  ASSUME NEW d \in Nat, NEW q \in Nat, NEW l
  PROVE  Cardinality({<<"direct", l, k>> : k \in 1..d} \cup {<<"queued", l, k>> : k \in 1..q})
           = d + q
<1>0. PICK S : S = {<<"direct", l, k>> : k \in 1..d} \cup {<<"queued", l, k>> : k \in 1..q}
  OBVIOUS
<1> DEFINE b == [i \in 1..d + q |-> IF i <= d THEN <<"direct", l, i>>
                                             ELSE <<"queued", l, i - d>>]
<1>1. b \in [1..d + q -> S]
  <2> SUFFICES ASSUME NEW i \in 1..d + q PROVE b[i] \in S
    OBVIOUS
  <2>1. CASE i <= d
    <3>1. i \in 1..d /\ b[i] = <<"direct", l, i>>  BY <2>1
    <3>2. QED  BY <1>0, <3>1
  <2>2. CASE ~(i <= d)
    <3>1. i - d \in 1..q /\ b[i] = <<"queued", l, i - d>>  BY <2>2
    <3>2. QED  BY <1>0, <3>1
  <2>3. QED  BY <2>1, <2>2
<1>2. ASSUME NEW i \in 1..d + q, NEW j \in 1..d + q, b[i] = b[j] PROVE i = j
  <2>1. b[i] = (IF i <= d THEN <<"direct", l, i>> ELSE <<"queued", l, i - d>>)
        /\ b[j] = (IF j <= d THEN <<"direct", l, j>> ELSE <<"queued", l, j - d>>)
    OBVIOUS
  <2>2. CASE i <= d /\ j <= d  BY <1>2, <2>1, <2>2
  <2>3. CASE i <= d /\ ~(j <= d)
    <3>1. b[i][1] = "direct" /\ b[j][1] = "queued"  BY <2>1, <2>3
    <3>2. QED  BY <1>2, <3>1
  <2>4. CASE ~(i <= d) /\ j <= d
    <3>1. b[i][1] = "queued" /\ b[j][1] = "direct"  BY <2>1, <2>4
    <3>2. QED  BY <1>2, <3>1
  <2>5. CASE ~(i <= d) /\ ~(j <= d)
    <3>1. b[i][3] = i - d /\ b[j][3] = j - d  BY <2>1, <2>5
    <3>2. QED  BY <1>2, <3>1
  <2>6. QED  BY <2>2, <2>3, <2>4, <2>5
<1>3. ASSUME NEW x \in S PROVE \E i \in 1..d + q : b[i] = x
  <2>1. CASE \E k \in 1..d : x = <<"direct", l, k>>
    <3>1. PICK k \in 1..d : x = <<"direct", l, k>>  BY <2>1
    <3>2. k \in 1..d + q /\ b[k] = x  BY <3>1
    <3>3. QED  BY <3>2
  <2>2. CASE \E k \in 1..q : x = <<"queued", l, k>>
    <3>1. PICK k \in 1..q : x = <<"queued", l, k>>  BY <2>2
    <3>2. PICK n : n = k + d  OBVIOUS
    <3>3. n \in 1..d + q /\ ~(n <= d) /\ n - d = k  BY <3>2
    <3>4. b[n] = x  BY <3>1, <3>3
    <3>5. QED  BY <3>3, <3>4
  <2>3. QED  BY <1>0, <1>3, <2>1, <2>2
<1> HIDE DEF b
<1>4. b \in Bijection(1..d + q, S)
  <2>0. \A i, j \in 1..d + q : b[i] = b[j] => i = j  BY <1>2
  <2>1. b \in Injection(1..d + q, S)  BY <1>1, <2>0 DEF Injection, IsInjective
  <2>2. b \in Surjection(1..d + q, S)  BY <1>1, <1>3 DEF Surjection
  <2>3. QED  BY <2>1, <2>2 DEF Bijection
<1>5. ExistsBijection(1..d + q, S)  BY <1>4 DEF ExistsBijection
<1>6. d + q \in Nat  OBVIOUS
<1>7. QED  BY <1>0, <1>5, <1>6, FS_CountingElements

\* callDirectConnections and callQueuedConnections together come to a slot as
\* often as it is connected: a connection that connect puts in a list that
\* emit passes over would be missing.
THEOREM DispatchNoneForgotten == DispatchSpec => []NoneForgotten
<1>1. DispatchInit => DirectOnly
  BY DEF DispatchInit, Init, DirectOnly
<1>2. DispInv /\ DirectOnly /\ [DispatchNext]_allVars => DirectOnly'
  <2> SUFFICES ASSUME DispInv, DirectOnly, [DispatchNext]_allVars PROVE DirectOnly'
    OBVIOUS
  <2>1. CASE UNCHANGED connVars
    BY <2>1 DEF connVars, DirectOnly
  <2>2. ASSUME NEW t \in Threads, Change(t) PROVE DirectOnly'
    BY <2>2, ChangeDirectOnly DEF DispInv
  <2>3. QED
    BY <2>1, <2>2 DEF DispatchNext, allVars, Step, FanDirect, FanQueued, Return, Emit, RunEvent
<1>3. DispInv /\ DirectOnly => NoneForgotten
  <2> SUFFICES ASSUME DispInv, DirectOnly, NEW s \in Signals, NEW l \in Slots
               PROVE  Cardinality({x \in Todo(s) : x[2] = l}) = back[<<s, l>>]
    BY DEF NoneForgotten
  <2>0. PICK p : p = <<s, l>>  OBVIOUS
  <2>1. p \in Pairs /\ p = <<s, l>> /\ p[1] = s  BY <2>0 DEF Pairs
  <2>2. PICK d \in Nat, q \in Nat :
          /\ d = direct[<<s, l>>] /\ q = queued[<<s, l>>] /\ d <= MaxConn /\ q <= MaxConn
          /\ back[<<s, l>>] = d + q
          /\ Home[s] = NoParent => q = 0
    <3>1. direct[p] \in 0..MaxConn /\ queued[p] \in 0..MaxConn /\ MaxConn \in Nat
      BY <2>1, ConnectionsAssumption DEF DispInv, ConnInv, TypeOK
    <3>2. back[p] = direct[p] + queued[p]  BY <2>1 DEF DispInv, ConnInv, Mutual
    <3>3. Home[s] = NoParent => queued[p] = 0  BY <2>1 DEF DirectOnly
    <3>4. QED  BY <2>1, <3>1, <3>2, <3>3
  <2>3. PICK S : S = {x \in Todo(s) : x[2] = l}  OBVIOUS
  <2>4. ASSUME NEW x
        PROVE  x \in S <=> \/ \E k \in 1..d : x = <<"direct", l, k>>
                           \/ \E k \in 1..q : x = <<"queued", l, k>>
    <3>0. MaxConn \in Nat  BY ConnectionsAssumption
    <3>1. ASSUME x \in S
          PROVE  \/ \E k \in 1..d : x = <<"direct", l, k>>
                 \/ \E k \in 1..q : x = <<"queued", l, k>>
      <4>1. x \in {"direct", "queued"} \X Slots \X (1..MaxConn) /\ x[2] = l
            /\ \/ x[1] = "direct" /\ x[3] <= d
               \/ x[1] = "queued" /\ x[3] <= q
        BY <2>2, <2>3, <3>1 DEF Todo
      <4>2. x = <<x[1], l, x[3]>> /\ x[3] \in 1..MaxConn  BY <4>1
      <4>3. QED  BY <3>0, <4>1, <4>2
    <3>2. ASSUME NEW k \in 1..d, x = <<"direct", l, k>> PROVE x \in S
      <4>1. k \in 1..MaxConn /\ x[1] = "direct" /\ x[2] = l /\ x[3] = k
        BY <2>2, <3>0, <3>2
      <4>2. x \in {"direct", "queued"} \X Slots \X (1..MaxConn)  BY <3>2, <4>1
      <4>3. QED  BY <2>2, <2>3, <4>1, <4>2 DEF Todo
    <3>3. ASSUME NEW k \in 1..q, x = <<"queued", l, k>> PROVE x \in S
      <4>1. k \in 1..MaxConn /\ x[1] = "queued" /\ x[2] = l /\ x[3] = k /\ Home[s] # NoParent
        BY <2>2, <3>0, <3>3
      <4>2. x \in {"direct", "queued"} \X Slots \X (1..MaxConn)  BY <3>3, <4>1
      <4>3. QED  BY <2>2, <2>3, <4>1, <4>2 DEF Todo
    <3>4. QED  BY <3>1, <3>2, <3>3
  <2>5. Cardinality(S) = d + q
    <3>1. S = {<<"direct", l, k>> : k \in 1..d} \cup {<<"queued", l, k>> : k \in 1..q}
      BY <2>4, Zenon
    <3>2. Cardinality({<<"direct", l, k>> : k \in 1..d} \cup {<<"queued", l, k>> : k \in 1..q})
            = d + q
      BY CountTwo, Zenon
    <3>3. QED  BY <3>1, <3>2, Zenon
  <2>6. QED  BY <2>2, <2>3, <2>5
<1>4. QED  BY <1>1, <1>2, <1>3, DispInvariance, PTL DEF DispatchSpec

-----------------------------------------------------------------------------
(* Order.  A call is due in three stages: it is ahead of an emission in     *)
(* progress, waits as an event in the slot's loop, and is made.  No call is *)
(* due twice, and of two calls of one slot for emissions of one sender the  *)
(* earlier one is never behind, unless the later emission is within it.     *)

SameSender(m, n) == sent[m].sig = sent[n].sig /\ sent[m].by = sent[n].by
Ordered(m, n) == SameSender(m, n) => m <= n \/ n \in sent[m].within

\* The thread that walks through the connections for emission m.
Walker(m) == IF Home[sent[m].sig] \in Loops THEN Home[sent[m].sig] ELSE sent[m].by

Ticket(l, m, n, v) == [slot |-> l, msg |-> m, nth |-> n, via |-> v]
TicketSet == [slot : Slots, msg : Nat, nth : Nat, via : {"direct", "queued"}]

\* Call x may be made, or come to wait, before call y.
Before(x, y) ==
  x.slot = y.slot /\ x.via = y.via =>
    /\ x.msg = y.msg => x.nth # y.nth
    /\ x.via = "queued" => Ordered(x.msg, y.msg)

Ahead ==
  {y \in TicketSet :
     \E t \in Threads : \E f \in Frames(t) :
       f.op = "fan" /\ f.msg = y.msg /\ <<y.via, y.slot, y.nth>> \in f.todo}

Events(t) == {queue[t][i] : i \in DOMAIN queue[t]}
Waits(e) == Ticket(e.to, e.msg, e.nth, "queued")

\* The event that takes emission m to its signal, if there is one, has been
\* run, and so have those of earlier emissions of the same sender.
Begun(m) ==
  /\ m \in DOMAIN sent
  /\ \A t \in Loops : \A e \in Events(t) :
       e.to \in Signals /\ SameSender(m, e.msg) => m < e.msg

ProgressOK ==
  \A t \in Threads : \A m \in InProgress(t) :
    /\ Walker(m) = t
    /\ Begun(m)
    /\ \A n \in InProgress(t) : Ordered(m, n)

OneFanEach ==
  \A t \in Threads : \A i, j \in DOMAIN stack[t] :
    i < j /\ stack[t][i].op = "fan" /\ stack[t][j].op = "fan"
      => stack[t][i].msg # stack[t][j].msg

PairOK(d, e) ==
  /\ d.to \in Signals /\ e.to \in Signals => d.msg < e.msg
  /\ d.to \in Slots /\ e.to \in Slots => Before(Waits(d), Waits(e))

LinesOK == \A t \in Loops : \A i, j \in DOMAIN queue[t] : i < j => PairOK(queue[t][i], queue[t][j])

WaitOK(t, e) ==
  /\ e.to \in Signals => sent[e.msg].by # t
  /\ e.to \in Slots =>
       /\ Begun(e.msg)
       /\ \A c \in Calls : Before(c, Waits(e))
       /\ \A y \in Ahead : Before(Waits(e), y)

WaitsOK == \A t \in Loops : \A e \in Events(t) : WaitOK(t, e)

HistoryOK == \A c \in Calls : Begun(c.msg) /\ \A y \in Ahead : Before(c, y)

CallsInLine == \A i, j \in DOMAIN calls : i < j => Before(calls[i], calls[j])

OrderInv == ProgressOK /\ OneFanEach /\ LinesOK /\ WaitsOK /\ HistoryOK /\ CallsInLine

-----------------------------------------------------------------------------
(* Positions after a step on a sequence                                    *)

LEMMA AppendPairs ==
  ASSUME NEW S, NEW q \in Seq(S), NEW x \in S, NEW r, r = Append(q, x),
         NEW i \in DOMAIN r, NEW j \in DOMAIN r, i < j
  PROVE  /\ i \in DOMAIN q /\ r[i] = q[i]
         /\ r[j] = x \/ (j \in DOMAIN q /\ r[j] = q[j])
<1>1. r \in Seq(S) /\ Len(r) = Len(q) + 1 /\ Len(q) \in Nat  OBVIOUS
<1>2. i \in 1..Len(q) + 1 /\ j \in 1..Len(q) + 1  BY <1>1
<1>3. i \in DOMAIN q /\ r[i] = q[i]  BY <1>2
<1>4. CASE j = Len(q) + 1  BY <1>3, <1>4
<1>5. CASE j # Len(q) + 1  BY <1>2, <1>3, <1>5
<1>6. QED  BY <1>4, <1>5

LEMMA TailPairs ==
  ASSUME NEW S, NEW q \in Seq(S), q # <<>>, NEW r, r = Tail(q)
  PROVE  \A i \in DOMAIN r : i \in Nat /\ i + 1 \in DOMAIN q /\ 1 < i + 1 /\ r[i] = q[i + 1]
<1>1. r \in Seq(S) /\ Len(r) = Len(q) - 1 /\ Len(q) \in Nat /\ Len(q) > 0  OBVIOUS
<1>2. ASSUME NEW i \in DOMAIN r
      PROVE  i \in Nat /\ i + 1 \in DOMAIN q /\ 1 < i + 1 /\ r[i] = q[i + 1]
  <2>1. i \in 1..Len(q) - 1  BY <1>1
  <2>2. QED  BY <1>1, <2>1
<1>3. QED  BY <1>2

LEMMA PushPairs ==
  ASSUME NEW S, NEW q \in Seq(S), NEW x \in S, NEW r, r = <<x>> \o q
  PROVE  \A i \in DOMAIN r :
           \/ i = 1 /\ r[i] = x
           \/ i \in Nat /\ i > 1 /\ i - 1 \in DOMAIN q /\ r[i] = q[i - 1]
<1>1. r \in Seq(S) /\ Len(r) = Len(q) + 1 /\ Len(q) \in Nat  OBVIOUS
<1>2. ASSUME NEW i \in DOMAIN r
      PROVE  \/ i = 1 /\ r[i] = x
             \/ i \in Nat /\ i > 1 /\ i - 1 \in DOMAIN q /\ r[i] = q[i - 1]
  <2>1. i \in 1..Len(q) + 1  BY <1>1
  <2>2. CASE i = 1  BY <2>2
  <2>3. CASE i # 1  BY <1>1, <2>1, <2>3
  <2>4. QED  BY <2>2, <2>3
<1>3. QED  BY <1>2

LEMMA CallPairs ==
  ASSUME NEW S, NEW q \in Seq(S), q # <<>>, NEW x \in S, NEW y \in S,
         NEW r, r = <<x, y>> \o Tail(q)
  PROVE  \A i \in DOMAIN r :
           \/ i = 1 /\ r[i] = x
           \/ i = 2 /\ r[i] = y
           \/ i \in Nat /\ i > 2 /\ i - 1 \in DOMAIN q /\ i - 1 > 1 /\ r[i] = q[i - 1]
<1>0. PICK z : z = Tail(q)  OBVIOUS
<1>1. /\ z \in Seq(S) /\ Len(z) \in Nat
      /\ \A i \in DOMAIN z : i + 1 \in DOMAIN q /\ z[i] = q[i + 1]
  BY <1>0, TailPairs
<1>2. r \in Seq(S) /\ Len(r) = Len(z) + 2  BY <1>0, <1>1
<1>3. ASSUME NEW i \in DOMAIN r
      PROVE  \/ i = 1 /\ r[i] = x
             \/ i = 2 /\ r[i] = y
             \/ i \in Nat /\ i > 2 /\ i - 1 \in DOMAIN q /\ i - 1 > 1 /\ r[i] = q[i - 1]
  <2>1. i \in 1..Len(z) + 2  BY <1>1, <1>2
  <2>2. CASE i = 1  BY <1>0, <1>1, <2>2
  <2>3. CASE i = 2  BY <1>0, <1>1, <2>3
  <2>4. CASE i > 2
    <3>1. i - 2 \in DOMAIN z /\ r[i] = z[i - 2]  BY <1>0, <1>1, <1>2, <2>1, <2>4
    <3>2. i - 1 \in DOMAIN q /\ z[i - 2] = q[i - 1]
      <4>1. (i - 2) + 1 = i - 1  BY <2>1
      <4>2. QED  BY <1>1, <3>1, <4>1
    <3>3. QED  BY <2>1, <2>4, <3>1, <3>2
  <2>5. QED  BY <2>1, <2>2, <2>3, <2>4
<1>4. QED  BY <1>3

-----------------------------------------------------------------------------
(* What a step does to the emissions in progress                           *)

\* No emission begins and no call is taken.
FansShrink ==
  /\ OneFanEach'
  /\ \A u \in Threads : InProgress(u)' \subseteq InProgress(u)
  /\ Ahead' \subseteq Ahead

\* Thread t begins to walk through the connections for emission m.
FansAdd(t, m) ==
  /\ OneFanEach'
  /\ \A u \in Threads : InProgress(u)' \subseteq InProgress(u) \cup (IF u = t THEN {m} ELSE {})
  /\ \A y \in Ahead' : y \in Ahead \/ y.msg = m

LEMMA FansFrom ==
  ASSUME \A u \in Threads : \A g \in Frames(u)' : g.op = "fan" => g \in Frames(u)
  PROVE  /\ \A u \in Threads : InProgress(u)' \subseteq InProgress(u)
         /\ Ahead' \subseteq Ahead
<1>1. ASSUME NEW u \in Threads, NEW m \in InProgress(u)' PROVE m \in InProgress(u)
  <2>1. PICK g \in Frames(u)' : g.op = "fan" /\ g.msg = m  BY <1>1 DEF InProgress
  <2>2. QED  BY <2>1 DEF InProgress
<1>2. ASSUME NEW y \in Ahead' PROVE y \in Ahead
  <2>1. y \in TicketSet  BY <1>2 DEF Ahead
  <2>2. PICK u \in Threads : \E f \in Frames(u)' :
          f.op = "fan" /\ f.msg = y.msg /\ <<y.via, y.slot, y.nth>> \in f.todo
    BY <1>2 DEF Ahead
  <2>3. \E f \in Frames(u) :
          f.op = "fan" /\ f.msg = y.msg /\ <<y.via, y.slot, y.nth>> \in f.todo
    BY <2>2
  <2>4. QED  BY <2>1, <2>3 DEF Ahead
<1>3. QED  BY <1>1, <1>2

\* Stacks of which one changes: the frames of the others stay.
LEMMA OtherFrames ==
  ASSUME Typed, NEW t \in Threads, NEW q, stack' = [stack EXCEPT ![t] = q]
  PROVE  /\ stack'[t] = q
         /\ \A u \in Threads : u # t => stack'[u] = stack[u] /\ Frames(u)' = Frames(u)
BY DEF Typed, Frames

LEMMA DifferStep ==
  ASSUME OneFanEach, NEW t \in Threads,
         \A u \in Threads : u # t => stack'[u] = stack[u],
         \A i, j \in DOMAIN stack'[t] :
           i < j /\ stack'[t][i].op = "fan" /\ stack'[t][j].op = "fan"
             => stack'[t][i].msg # stack'[t][j].msg
  PROVE  OneFanEach'
<1>1. ASSUME NEW u \in Threads, NEW i \in DOMAIN stack'[u], NEW j \in DOMAIN stack'[u],
             i < j, stack'[u][i].op = "fan", stack'[u][j].op = "fan"
      PROVE  stack'[u][i].msg # stack'[u][j].msg
  <2>1. CASE u = t  BY <1>1, <2>1
  <2>2. CASE u # t
    <3>1. stack'[u] = stack[u]  BY <2>2
    <3>2. QED  BY <1>1, <3>1 DEF OneFanEach
  <2>3. QED  BY <2>1, <2>2
<1>2. QED  BY <1>1 DEF OneFanEach

LEMMA PushPlain ==
  ASSUME Typed, OneFanEach, NEW t \in Threads, NEW f \in FrameSet, f.op # "fan", Push(t, f)
  PROVE  FansShrink
<1>0. stack[t] \in Seq(FrameSet)  BY DEF Typed
<1>1. PICK q : q = <<f>> \o stack[t]  OBVIOUS
<1>2. \A i \in DOMAIN q :
        \/ i = 1 /\ q[i] = f
        \/ i \in Nat /\ i > 1 /\ i - 1 \in DOMAIN stack[t] /\ q[i] = stack[t][i - 1]
  BY <1>0, <1>1, PushPairs
<1>3. /\ stack'[t] = q
      /\ \A u \in Threads : u # t => stack'[u] = stack[u] /\ Frames(u)' = Frames(u)
  BY <1>1, OtherFrames DEF Push
<1>4. ASSUME NEW g \in Frames(t)', g.op = "fan" PROVE g \in Frames(t)
  <2>1. PICK i \in DOMAIN q : g = q[i]  BY <1>3 DEF Frames
  <2>2. QED  BY <1>2, <1>4, <2>1 DEF Frames
<1>5. ASSUME NEW i \in DOMAIN q, NEW j \in DOMAIN q, i < j, q[i].op = "fan", q[j].op = "fan"
      PROVE  q[i].msg # q[j].msg
  <2>1. /\ i - 1 \in DOMAIN stack[t] /\ q[i] = stack[t][i - 1]
        /\ j - 1 \in DOMAIN stack[t] /\ q[j] = stack[t][j - 1]
        /\ i - 1 < j - 1
    BY <1>2, <1>5
  <2>2. QED  BY <1>5, <2>1 DEF OneFanEach
<1>6. OneFanEach'  BY <1>3, <1>5 DEF OneFanEach
<1>7. \A u \in Threads : \A g \in Frames(u)' : g.op = "fan" => g \in Frames(u)
  BY <1>3, <1>4
<1>8. QED  BY <1>6, <1>7, FansFrom DEF FansShrink

LEMMA PopShrinks ==
  ASSUME Typed, OneFanEach, NEW t \in Threads, stack[t] # <<>>, Pop(t)
  PROVE  FansShrink
<1>0. stack[t] \in Seq(FrameSet)  BY DEF Typed
<1>1. PICK q : q = Tail(stack[t])  OBVIOUS
<1>2. \A i \in DOMAIN q : i \in Nat /\ i + 1 \in DOMAIN stack[t] /\ q[i] = stack[t][i + 1]
  BY <1>0, <1>1, TailPairs
<1>3. /\ stack'[t] = q
      /\ \A u \in Threads : u # t => stack'[u] = stack[u] /\ Frames(u)' = Frames(u)
  BY <1>1, OtherFrames DEF Pop
<1>4. ASSUME NEW g \in Frames(t)' PROVE g \in Frames(t)
  <2>1. PICK i \in DOMAIN q : g = q[i]  BY <1>3 DEF Frames
  <2>2. QED  BY <1>2, <2>1 DEF Frames
<1>5. ASSUME NEW i \in DOMAIN q, NEW j \in DOMAIN q, i < j, q[i].op = "fan", q[j].op = "fan"
      PROVE  q[i].msg # q[j].msg
  <2>1. /\ i + 1 \in DOMAIN stack[t] /\ q[i] = stack[t][i + 1]
        /\ j + 1 \in DOMAIN stack[t] /\ q[j] = stack[t][j + 1]
        /\ i + 1 < j + 1
    BY <1>2, <1>5
  <2>2. QED  BY <1>5, <2>1 DEF OneFanEach
<1>6. OneFanEach'  BY <1>3, <1>5 DEF OneFanEach
<1>7. \A u \in Threads : \A g \in Frames(u)' : g.op = "fan" => g \in Frames(u)
  BY <1>3, <1>4
<1>8. QED  BY <1>6, <1>7, FansFrom DEF FansShrink

LEMMA DropShrinks ==
  ASSUME Typed, OneFanEach, NEW t \in Threads, stack' = [stack EXCEPT ![t] = <<>>]
  PROVE  FansShrink
<1>0. PICK q : q = <<>>  OBVIOUS
<1>1. /\ stack'[t] = q
      /\ \A u \in Threads : u # t => stack'[u] = stack[u] /\ Frames(u)' = Frames(u)
  BY <1>0, OtherFrames
<1>2. DOMAIN stack'[t] = {}  BY <1>0, <1>1
<1>3. Frames(t)' = {}  BY <1>2 DEF Frames
<1>4. OneFanEach'  BY <1>1, <1>2 DEF OneFanEach
<1>5. \A u \in Threads : \A g \in Frames(u)' : g.op = "fan" => g \in Frames(u)
  BY <1>1, <1>3
<1>6. QED  BY <1>4, <1>5, FansFrom DEF FansShrink

LEMMA SameShrinks ==
  ASSUME OneFanEach, stack' = stack
  PROVE  FansShrink
<1>1. OneFanEach'  BY DEF OneFanEach
<1>2. \A u \in Threads : \A g \in Frames(u)' : g.op = "fan" => g \in Frames(u)  BY DEF Frames
<1>3. QED  BY <1>1, <1>2, FansFrom DEF FansShrink

\* An emission that is not in progress begins.
LEMMA PushFan ==
  ASSUME Typed, OneFanEach, NEW t \in Threads, NEW f \in FrameSet, f.op = "fan", Push(t, f),
         f.msg \notin InProgress(t)
  PROVE  FansAdd(t, f.msg)
<1>0. stack[t] \in Seq(FrameSet)  BY DEF Typed
<1>1. PICK q : q = <<f>> \o stack[t]  OBVIOUS
<1>2. \A i \in DOMAIN q :
        \/ i = 1 /\ q[i] = f
        \/ i \in Nat /\ i > 1 /\ i - 1 \in DOMAIN stack[t] /\ q[i] = stack[t][i - 1]
  BY <1>0, <1>1, PushPairs
<1>3. /\ stack'[t] = q
      /\ \A u \in Threads : u # t => stack'[u] = stack[u] /\ Frames(u)' = Frames(u)
  BY <1>1, OtherFrames DEF Push
<1>4. ASSUME NEW u \in Threads, NEW g \in Frames(u)'
      PROVE  g \in Frames(u) \/ (u = t /\ g = f)
  <2>1. CASE u # t  BY <1>3, <1>4, <2>1
  <2>2. CASE u = t
    <3>1. PICK i \in DOMAIN q : g = q[i]  BY <1>3, <1>4, <2>2 DEF Frames
    <3>2. QED  BY <1>2, <2>2, <3>1 DEF Frames
  <2>3. QED  BY <2>1, <2>2
<1>5. ASSUME NEW i \in DOMAIN q, NEW j \in DOMAIN q, i < j, q[i].op = "fan", q[j].op = "fan"
      PROVE  q[i].msg # q[j].msg
  <2>1. j - 1 \in DOMAIN stack[t] /\ q[j] = stack[t][j - 1]
    BY <1>2, <1>5
  <2>2. CASE i = 1
    <3>1. q[j].msg \in InProgress(t)  BY <1>5, <2>1 DEF InProgress, Frames
    <3>2. QED  BY <1>2, <2>2, <3>1
  <2>3. CASE i # 1
    <3>1. i - 1 \in DOMAIN stack[t] /\ q[i] = stack[t][i - 1] /\ i - 1 < j - 1
      BY <1>2, <1>5, <2>3
    <3>2. QED  BY <1>5, <2>1, <3>1 DEF OneFanEach
  <2>4. QED  BY <2>2, <2>3
<1>6. OneFanEach'  BY <1>3, <1>5 DEF OneFanEach
<1>7. ASSUME NEW u \in Threads, NEW m \in InProgress(u)'
      PROVE  m \in InProgress(u) \/ (u = t /\ m = f.msg)
  <2>1. PICK g \in Frames(u)' : g.op = "fan" /\ g.msg = m  BY <1>7 DEF InProgress
  <2>2. QED  BY <1>4, <2>1 DEF InProgress
<1>8. ASSUME NEW y \in Ahead' PROVE y \in Ahead \/ y.msg = f.msg
  <2>1. y \in TicketSet  BY <1>8 DEF Ahead
  <2>2. PICK u \in Threads : \E g \in Frames(u)' :
          g.op = "fan" /\ g.msg = y.msg /\ <<y.via, y.slot, y.nth>> \in g.todo
    BY <1>8 DEF Ahead
  <2>3. PICK g \in Frames(u)' :
          g.op = "fan" /\ g.msg = y.msg /\ <<y.via, y.slot, y.nth>> \in g.todo
    BY <2>2
  <2>4. CASE g = f  BY <2>3, <2>4
  <2>5. CASE g # f
    <3>1. g \in Frames(u)  BY <1>4, <2>5
    <3>2. QED  BY <2>1, <2>3, <3>1 DEF Ahead
  <2>6. QED  BY <2>4, <2>5
<1>9. QED  BY <1>6, <1>7, <1>8 DEF FansAdd

\* Thread t takes call x from its frame f, and b is what it does about it.
Takes(t, f, x, b) ==
  stack' = [stack EXCEPT ![t] = <<b, [f EXCEPT !.todo = @ \ {x}]>> \o Tail(@)]

LEMMA DifferCall ==
  ASSUME OneFanEach, NEW t \in Threads, stack[t] \in Seq(FrameSet), 1 \in DOMAIN stack[t],
         NEW b, b.op # "fan", NEW g, stack[t][1].op = "fan", g.msg = stack[t][1].msg,
         NEW q, stack'[t] = q,
         \A i \in DOMAIN q :
           \/ i = 1 /\ q[i] = b
           \/ i = 2 /\ q[i] = g
           \/ i \in Nat /\ i > 2 /\ i - 1 \in DOMAIN stack[t] /\ i - 1 > 1
              /\ q[i] = stack[t][i - 1],
         \A u \in Threads : u # t => stack'[u] = stack[u] /\ Frames(u)' = Frames(u)
  PROVE  OneFanEach'
<1>1. ASSUME NEW i \in DOMAIN q, NEW j \in DOMAIN q, i < j, q[i].op = "fan", q[j].op = "fan"
      PROVE  q[i].msg # q[j].msg
  <2>1. i # 1  BY <1>1
  <2>2. j \in Nat /\ j > 2 /\ j - 1 \in DOMAIN stack[t] /\ j - 1 > 1 /\ q[j] = stack[t][j - 1]
    BY <1>1, <2>1
  <2>3. CASE i = 2
    <3>1. q[i].msg = stack[t][1].msg  BY <1>1, <2>3
    <3>2. 1 < j - 1  BY <2>2
    <3>3. QED  BY <1>1, <2>2, <3>1, <3>2 DEF OneFanEach
  <2>4. CASE i # 2
    <3>1. i - 1 \in DOMAIN stack[t] /\ q[i] = stack[t][i - 1] /\ i - 1 < j - 1
      BY <1>1, <2>1, <2>2, <2>4
    <3>2. QED  BY <1>1, <2>2, <3>1 DEF OneFanEach
  <2>5. QED  BY <2>3, <2>4
<1>2. QED  BY <1>1, DifferStep

\* A call is taken: it is not ahead any more, for no other frame has it.
LEMMA CallTakes ==
  ASSUME DispInv, OneFanEach, ProgressOK, NEW t \in Threads, Top(t, "fan"),
         NEW f, f = Head(stack[t]), NEW x \in f.todo, NEW b \in FrameSet, b.op # "fan",
         NEW y, y = Ticket(x[2], f.msg, x[3], x[1]), Takes(t, f, x, b)
  PROVE  /\ FansShrink
         /\ f.msg \in InProgress(t) /\ y \in Ahead /\ y \notin Ahead'
<1>0. stack[t] \in Seq(FrameSet)  BY DEF DispInv, Typed
<1>1. /\ stack[t] # <<>> /\ f \in FanSet /\ f.op = "fan"
      /\ x \in TodoSet
      /\ 1 \in DOMAIN stack[t] /\ f = stack[t][1]
  <2>1. /\ stack[t] # <<>> /\ f \in FanSet /\ f.op = "fan" /\ x \in TodoSet
    BY FanFacts
  <2>2. 1 \in DOMAIN stack[t] /\ f = stack[t][1]  BY <1>0, <2>1, TailFacts
  <2>3. QED  BY <2>1, <2>2
<1>2. PICK g : g = [f EXCEPT !.todo = @ \ {x}]  OBVIOUS
<1>3. g \in FrameSet /\ g.op = "fan" /\ g.msg = f.msg /\ g.todo = f.todo \ {x}
  BY <1>1, <1>2 DEF FanSet, FrameSet
<1>4. PICK q : q = <<b, g>> \o Tail(stack[t])  OBVIOUS
<1>5. \A i \in DOMAIN q :
        \/ i = 1 /\ q[i] = b
        \/ i = 2 /\ q[i] = g
        \/ i \in Nat /\ i > 2 /\ i - 1 \in DOMAIN stack[t] /\ i - 1 > 1
           /\ q[i] = stack[t][i - 1]
  BY <1>0, <1>1, <1>3, <1>4, CallPairs
<1>6. stack' = [stack EXCEPT ![t] = q]  BY <1>2, <1>4 DEF Takes
<1>7. /\ stack'[t] = q
      /\ \A u \in Threads : u # t => stack'[u] = stack[u] /\ Frames(u)' = Frames(u)
  BY <1>6, OtherFrames DEF DispInv
<1>8. ASSUME NEW j \in DOMAIN stack[t], j > 1, stack[t][j].op = "fan"
      PROVE  stack[t][j].msg # f.msg
  <2>1. 1 < j  BY <1>0, <1>8
  <2>2. QED  BY <1>1, <1>8, <2>1 DEF OneFanEach
<1>9. OneFanEach'
  <2>1. stack[t][1].op = "fan" /\ g.msg = stack[t][1].msg  BY <1>1, <1>3
  <2>2. QED  BY <1>0, <1>1, <1>5, <1>7, <2>1, DifferCall
\* Every fan after the step was there before, or is what is left of f.
<1>10. ASSUME NEW u \in Threads, NEW h \in Frames(u)', h.op = "fan"
       PROVE  (h \in Frames(u) /\ h.msg # f.msg) \/ (u = t /\ h = g)
  <2>1. CASE u = t
    <3>1. PICK i \in DOMAIN q : h = q[i]  BY <1>7, <1>10, <2>1 DEF Frames
    <3>2. CASE i = 1  BY <1>5, <1>10, <3>1, <3>2
    <3>3. CASE i = 2  BY <1>5, <2>1, <3>1, <3>3
    <3>4. CASE i # 1 /\ i # 2
      <4>1. i - 1 \in DOMAIN stack[t] /\ i - 1 > 1 /\ h = stack[t][i - 1]  BY <1>5, <3>1, <3>4
      <4>2. h.msg # f.msg  BY <1>8, <1>10, <4>1
      <4>3. QED  BY <2>1, <4>1, <4>2 DEF Frames
    <3>5. QED  BY <3>2, <3>3, <3>4
  <2>2. CASE u # t
    <3>1. h \in Frames(u)  BY <1>7, <1>10, <2>2
    <3>2. h.msg \in InProgress(u)  BY <1>10, <3>1 DEF InProgress
    <3>3. f.msg \in InProgress(t)  BY <1>1 DEF InProgress, Frames
    <3>4. Walker(h.msg) = u /\ Walker(f.msg) = t  BY <3>2, <3>3 DEF ProgressOK
    <3>5. QED  BY <2>2, <3>1, <3>4
  <2>3. QED  BY <2>1, <2>2
<1>11. f \in Frames(t) /\ f.msg \in InProgress(t)  BY <1>1 DEF InProgress, Frames
<1>12. \A u \in Threads : InProgress(u)' \subseteq InProgress(u)
  <2>1. ASSUME NEW u \in Threads, NEW m \in InProgress(u)' PROVE m \in InProgress(u)
    <3>1. PICK h \in Frames(u)' : h.op = "fan" /\ h.msg = m  BY <2>1 DEF InProgress
    <3>2. QED  BY <1>3, <1>10, <1>11, <3>1 DEF InProgress
  <2>2. QED  BY <2>1
<1>13. /\ y \in TicketSet /\ y.slot = x[2] /\ y.msg = f.msg /\ y.nth = x[3] /\ y.via = x[1]
       /\ x = <<y.via, y.slot, y.nth>>
  BY <1>1 DEF Ticket, TicketSet, TodoSet, FanSet
<1>14. y \in Ahead  BY <1>1, <1>11, <1>13 DEF Ahead
<1>15. ASSUME NEW z \in Ahead' PROVE z \in Ahead /\ z # y
  <2>1. z \in TicketSet  BY <1>15 DEF Ahead
  <2>2. PICK u \in Threads : \E h \in Frames(u)' :
          h.op = "fan" /\ h.msg = z.msg /\ <<z.via, z.slot, z.nth>> \in h.todo
    BY <1>15 DEF Ahead
  <2>3. PICK h \in Frames(u)' :
          h.op = "fan" /\ h.msg = z.msg /\ <<z.via, z.slot, z.nth>> \in h.todo
    BY <2>2
  <2>4. CASE h \in Frames(u) /\ h.msg # f.msg
    <3>1. z \in Ahead  BY <2>1, <2>3, <2>4 DEF Ahead
    <3>2. QED  BY <1>13, <2>3, <2>4, <3>1
  <2>5. CASE h = g /\ u = t
    <3>1. <<z.via, z.slot, z.nth>> \in f.todo /\ <<z.via, z.slot, z.nth>> # x
          /\ z.msg = f.msg
      BY <1>3, <2>3, <2>5
    <3>2. z \in Ahead  BY <1>1, <1>11, <2>1, <3>1 DEF Ahead
    <3>3. QED  BY <1>13, <3>1, <3>2
  <2>6. QED  BY <1>10, <2>3, <2>4, <2>5
<1>16. QED  BY <1>9, <1>11, <1>12, <1>14, <1>15 DEF FansShrink

-----------------------------------------------------------------------------
(* Relations between emissions                                             *)

\* Every emission a stage speaks of was made.
LEMMA AheadMade ==
  ASSUME ProgressOK, NEW y \in Ahead
  PROVE  \E t \in Threads : y.msg \in InProgress(t) /\ Begun(y.msg) /\ y.msg \in DOMAIN sent
<1>1. PICK t \in Threads : \E f \in Frames(t) : f.op = "fan" /\ f.msg = y.msg
  BY DEF Ahead
<1>2. y.msg \in InProgress(t)  BY <1>1 DEF InProgress
<1>3. Begun(y.msg) /\ y.msg \in DOMAIN sent  BY <1>2 DEF ProgressOK, Begun
<1>4. QED  BY <1>2, <1>3

\* Emissions in progress are in order: within one thread the inner one knows
\* of the outer ones, and those of different threads are of different senders.
LEMMA AheadOrdered ==
  ASSUME ProgressOK, NEW t \in Threads, NEW m \in InProgress(t), NEW y \in Ahead
  PROVE  Ordered(m, y.msg)
<1>1. PICK u \in Threads : y.msg \in InProgress(u)  BY AheadMade
<1>2. CASE u = t  BY <1>1, <1>2 DEF ProgressOK
<1>3. CASE u # t
  <2>1. Walker(m) = t /\ Walker(y.msg) = u  BY <1>1 DEF ProgressOK
  <2>2. ~SameSender(m, y.msg)  BY <1>3, <2>1 DEF Walker, SameSender
  <2>3. QED  BY <2>2 DEF Ordered
<1>4. QED  BY <1>2, <1>3

-----------------------------------------------------------------------------
(* What a step keeps.  Emissions are only added, and an event to a signal  *)
(* is only added for an emission later than all others.                    *)

SignalsLater ==
  \A u \in Loops : \A e \in Events(u)' :
    e.to \in Signals => e \in Events(u) \/ \A m \in DOMAIN sent : m < e.msg

LEMMA OrderedKept ==
  ASSUME SentGrows, NEW m \in DOMAIN sent, NEW n \in DOMAIN sent
  PROVE  /\ Ordered(m, n) => Ordered(m, n)'
         /\ Walker(m)' = Walker(m)
         /\ SameSender(m, n)' <=> SameSender(m, n)
BY DEF SentGrows, Ordered, SameSender, Walker

LEMMA BeforeKept ==
  ASSUME SentGrows, NEW x, NEW y, x.msg \in DOMAIN sent, y.msg \in DOMAIN sent, Before(x, y)
  PROVE  Before(x, y)'
BY OrderedKept DEF Before

LEMMA EventMade ==
  ASSUME Typed, EventsOK, NEW u \in Loops, NEW e \in Events(u)
  PROVE  e \in EventSet /\ EventOK(u, e) /\ e.msg \in DOMAIN sent /\ e.msg \in Nat
<1>1. PICK i \in DOMAIN queue[u] : e = queue[u][i]  BY DEF Events
<1>2. e \in EventSet  BY <1>1 DEF Typed
<1>3. EventOK(u, e)  BY <1>1 DEF EventsOK
<1>4. QED  BY <1>2, <1>3 DEF EventSet, EventOK

LEMMA BegunKept ==
  ASSUME Typed, EventsOK, SentGrows, SignalsLater, NEW m, Begun(m)
  PROVE  Begun(m)'
<1>1. m \in DOMAIN sent /\ m \in DOMAIN sent'  BY DEF Begun, SentGrows
<1>2. ASSUME NEW u \in Loops, NEW e \in Events(u)', e.to \in Signals, SameSender(m, e.msg)'
      PROVE  m < e.msg
  <2>1. CASE e \in Events(u)
    <3>1. SameSender(m, e.msg)  BY <1>1, <1>2, <2>1, EventMade, OrderedKept
    <3>2. QED  BY <1>2, <2>1, <3>1 DEF Begun
  <2>2. CASE \A n \in DOMAIN sent : n < e.msg  BY <1>1, <2>2
  <2>3. QED  BY <1>2, <2>1, <2>2 DEF SignalsLater
<1>3. QED  BY <1>1, <1>2 DEF Begun

LEMMA ProgressShrinks ==
  ASSUME Typed, EventsOK, ProgressOK, SentGrows, SignalsLater, FansShrink
  PROVE  ProgressOK'
<1>1. ASSUME NEW t \in Threads, NEW m \in InProgress(t)'
      PROVE  Walker(m)' = t /\ Begun(m)' /\ \A n \in InProgress(t)' : Ordered(m, n)'
  <2>1. m \in InProgress(t) /\ InProgress(t)' \subseteq InProgress(t)  BY <1>1 DEF FansShrink
  <2>2. Begun(m) /\ m \in DOMAIN sent /\ Walker(m) = t  BY <2>1 DEF ProgressOK, Begun
  <2>3. ASSUME NEW n \in InProgress(t)' PROVE Ordered(m, n)'
    <3>1. n \in DOMAIN sent /\ Ordered(m, n)  BY <2>1, <2>3 DEF ProgressOK, Begun
    <3>2. QED  BY <2>2, <3>1, OrderedKept
  <2>4. QED  BY <2>2, <2>3, BegunKept, OrderedKept
<1>2. QED  BY <1>1 DEF ProgressOK

LEMMA ProgressAdds ==
  ASSUME Typed, EventsOK, ProgressOK, SentGrows, SignalsLater,
         NEW t \in Threads, NEW m \in Nat, FansAdd(t, m), Walker(m)' = t, Begun(m)',
         \A n \in InProgress(t) : Ordered(m, n)' /\ Ordered(n, m)'
  PROVE  ProgressOK'
<1>1. ASSUME NEW u \in Threads, NEW k \in InProgress(u)'
      PROVE  Walker(k)' = u /\ Begun(k)' /\ \A n \in InProgress(u)' : Ordered(k, n)'
  <2>0. Ordered(m, m)'  BY DEF Ordered
  <2>1. InProgress(u)' \subseteq InProgress(u) \cup (IF u = t THEN {m} ELSE {})
    BY DEF FansAdd
  <2>2. CASE k \in InProgress(u)
    <3>1. Begun(k) /\ k \in DOMAIN sent /\ Walker(k) = u  BY <2>2 DEF ProgressOK, Begun
    <3>2. ASSUME NEW n \in InProgress(u)' PROVE Ordered(k, n)'
      <4>1. CASE n \in InProgress(u)
        <5>1. n \in DOMAIN sent /\ Ordered(k, n)  BY <2>2, <4>1 DEF ProgressOK, Begun
        <5>2. QED  BY <3>1, <5>1, OrderedKept
      <4>2. CASE u = t /\ n = m  BY <2>2, <4>2
      <4>3. QED  BY <2>1, <3>2, <4>1, <4>2
    <3>3. QED  BY <3>1, <3>2, BegunKept, OrderedKept
  <2>3. CASE u = t /\ k = m
    <3>1. ASSUME NEW n \in InProgress(u)' PROVE Ordered(k, n)'
      BY <2>0, <2>1, <2>3, <3>1
    <3>2. QED  BY <2>3, <3>1
  <2>4. QED  BY <1>1, <2>1, <2>2, <2>3
<1>2. QED  BY <1>1 DEF ProgressOK

\* An event that waited before the step.
LEMMA WaitKept ==
  ASSUME Typed, EventsOK, ProgressOK, HistoryOK, SentGrows, SignalsLater,
         NEW u \in Loops, NEW e \in Events(u), WaitOK(u, e),
         \A c \in Calls' : c \in Calls \/ (e.to \in Slots => Before(c, Waits(e))'),
         \A y \in Ahead' : y \in Ahead \/ (e.to \in Slots => Before(Waits(e), y)')
  PROVE  WaitOK(u, e)'
<1>0. e.msg \in DOMAIN sent /\ Waits(e).msg = e.msg  BY EventMade DEF Waits, Ticket
<1>1. e.to \in Signals => sent'[e.msg].by # u  BY <1>0 DEF WaitOK, SentGrows
<1>2. ASSUME e.to \in Slots
      PROVE  Begun(e.msg)' /\ (\A c \in Calls' : Before(c, Waits(e))')
             /\ \A y \in Ahead' : Before(Waits(e), y)'
  <2>1. Begun(e.msg)'  BY <1>2, BegunKept DEF WaitOK
  <2>2. ASSUME NEW c \in Calls' PROVE Before(c, Waits(e))'
    <3>1. CASE c \in Calls
      <4>1. c.msg \in DOMAIN sent  BY <3>1 DEF HistoryOK, Begun
      <4>2. Before(c, Waits(e))  BY <1>2, <3>1 DEF WaitOK
      <4>3. QED  BY <1>0, <4>1, <4>2, BeforeKept
    <3>2. CASE c \notin Calls  BY <1>2, <2>2, <3>2
    <3>3. QED  BY <3>1, <3>2
  <2>3. ASSUME NEW y \in Ahead' PROVE Before(Waits(e), y)'
    <3>1. CASE y \in Ahead
      <4>1. y.msg \in DOMAIN sent  BY <3>1, AheadMade
      <4>2. Before(Waits(e), y)  BY <1>2, <3>1 DEF WaitOK
      <4>3. QED  BY <1>0, <4>1, <4>2, BeforeKept
    <3>2. CASE y \notin Ahead  BY <1>2, <2>3, <3>2
    <3>3. QED  BY <3>1, <3>2
  <2>4. QED  BY <2>1, <2>2, <2>3
<1>3. QED  BY <1>1, <1>2 DEF WaitOK

LEMMA HistoryKept ==
  ASSUME Typed, EventsOK, ProgressOK, HistoryOK, SentGrows, SignalsLater,
         \A c \in Calls' : c \in Calls \/ (Begun(c.msg)' /\ \A y \in Ahead' : Before(c, y)'),
         \A y \in Ahead' : y \in Ahead \/ \A c \in Calls : Before(c, y)'
  PROVE  HistoryOK'
<1>1. ASSUME NEW c \in Calls' PROVE Begun(c.msg)' /\ \A y \in Ahead' : Before(c, y)'
  <2>1. CASE c \in Calls
    <3>1. Begun(c.msg) /\ c.msg \in DOMAIN sent  BY <2>1 DEF HistoryOK, Begun
    <3>2. ASSUME NEW y \in Ahead' PROVE Before(c, y)'
      <4>1. CASE y \in Ahead
        <5>1. y.msg \in DOMAIN sent /\ Before(c, y)  BY <2>1, <4>1, AheadMade DEF HistoryOK
        <5>2. QED  BY <3>1, <5>1, BeforeKept
      <4>2. CASE y \notin Ahead  BY <2>1, <3>2, <4>2
      <4>3. QED  BY <4>1, <4>2
    <3>3. QED  BY <3>1, <3>2, BegunKept
  <2>2. CASE c \notin Calls  BY <1>1, <2>2
  <2>3. QED  BY <2>1, <2>2
<1>2. QED  BY <1>1 DEF HistoryOK

LEMMA CallsStay ==
  ASSUME Typed, HistoryOK, CallsInLine, SentGrows, calls' = calls
  PROVE  CallsInLine' /\ Calls' = Calls
<1>1. Calls' = Calls  BY DEF Calls
<1>2. ASSUME NEW i \in DOMAIN calls, NEW j \in DOMAIN calls, i < j, NEW c, c = calls[i],
             NEW d, d = calls[j]
      PROVE  Before(c, d)'
  <2>1. c \in Calls /\ d \in Calls  BY <1>2 DEF Calls
  <2>2. c.msg \in DOMAIN sent /\ d.msg \in DOMAIN sent  BY <2>1 DEF HistoryOK, Begun
  <2>3. Before(c, d)  BY <1>2 DEF CallsInLine
  <2>4. QED  BY <2>2, <2>3, BeforeKept
<1>3. ASSUME NEW i \in DOMAIN calls', NEW j \in DOMAIN calls', i < j
      PROVE  Before(calls[i], calls[j])'
  <2>1. PICK c, d : c = calls[i] /\ d = calls[j]  OBVIOUS
  <2>2. Before(c, d)'  BY <1>2, <1>3, <2>1
  <2>3. c = calls'[i] /\ d = calls'[j]  BY <2>1
  <2>4. QED  BY <2>2, <2>3 DEF Before, Ordered, SameSender
<1>4. QED  BY <1>1, <1>3 DEF CallsInLine

LEMMA CallAdds ==
  ASSUME Typed, HistoryOK, CallsInLine, SentGrows, NEW c \in CallSet, calls' = Append(calls, c),
         \A b \in Calls : Before(b, c)'
  PROVE  CallsInLine' /\ \A b \in Calls' : b \in Calls \/ b = c
<1>0. calls \in Seq(CallSet)  BY DEF Typed
<1>1. PICK r : r = Append(calls, c)  OBVIOUS
<1>2. ASSUME NEW i \in DOMAIN r, NEW j \in DOMAIN r, i < j, NEW b, b = r[i], NEW d, d = r[j]
      PROVE  Before(b, d)'
  <2>1. i \in DOMAIN calls /\ r[i] = calls[i] /\ (r[j] = c \/ (j \in DOMAIN calls /\ r[j] = calls[j]))
    BY <1>0, <1>1, <1>2, AppendPairs
  <2>2. b \in Calls  BY <1>2, <2>1 DEF Calls
  <2>3. CASE d = c  BY <2>2, <2>3
  <2>4. CASE j \in DOMAIN calls /\ r[j] = calls[j]
    <3>1. d \in Calls  BY <1>2, <2>4 DEF Calls
    <3>2. b.msg \in DOMAIN sent /\ d.msg \in DOMAIN sent  BY <2>2, <3>1 DEF HistoryOK, Begun
    <3>3. Before(b, d)  BY <1>2, <2>1, <2>4 DEF CallsInLine
    <3>4. QED  BY <3>2, <3>3, BeforeKept
  <2>5. QED  BY <1>2, <2>1, <2>3, <2>4
<1>3. calls' = r  BY <1>1
<1>4. ASSUME NEW i \in DOMAIN calls', NEW j \in DOMAIN calls', i < j
      PROVE  Before(calls[i], calls[j])'
  <2>1. PICK b, d : b = r[i] /\ d = r[j]  OBVIOUS
  <2>2. Before(b, d)'  BY <1>2, <1>3, <1>4, <2>1
  <2>3. b = calls'[i] /\ d = calls'[j]  BY <1>3, <2>1
  <2>4. QED  BY <2>2, <2>3 DEF Before, Ordered, SameSender
<1>5. ASSUME NEW b \in Calls' PROVE b \in Calls \/ b = c
  <2>1. PICK i \in DOMAIN r : b = r[i]  BY <1>3, <1>5 DEF Calls
  <2>2. r[i] = c \/ \E j \in DOMAIN calls : r[i] = calls[j]  BY <1>0, <1>1, AppendFacts
  <2>3. QED  BY <2>1, <2>2 DEF Calls
<1>6. QED  BY <1>4, <1>5 DEF CallsInLine
-----------------------------------------------------------------------------
(* Event lists                                                             *)

LEMMA PairKept ==
  ASSUME SentGrows, NEW d, NEW e, d.msg \in DOMAIN sent, e.msg \in DOMAIN sent, PairOK(d, e)
  PROVE  PairOK(d, e)'
<1>1. CASE d.to \in Slots /\ e.to \in Slots
  <2>1. Waits(d).msg = d.msg /\ Waits(e).msg = e.msg  BY DEF Waits, Ticket
  <2>2. PICK x, y : x = Waits(d) /\ y = Waits(e)  OBVIOUS
  <2>3. Before(x, y)'  BY <1>1, <2>1, <2>2, BeforeKept DEF PairOK
  <2>4. Before(Waits(d), Waits(e))'  BY <2>2, <2>3
  <2>5. QED  BY <2>4 DEF PairOK
<1>2. CASE ~(d.to \in Slots /\ e.to \in Slots)  BY <1>2 DEF PairOK
<1>3. QED  BY <1>1, <1>2

\* Two events that waited in one loop before the step, in this order.
LEMMA LineKept ==
  ASSUME Typed, EventsOK, LinesOK, SentGrows, NEW u \in Loops,
         NEW i \in DOMAIN queue[u], NEW j \in DOMAIN queue[u], i < j,
         NEW d, d = queue[u][i], NEW e, e = queue[u][j]
  PROVE  PairOK(d, e)'
<1>1. d \in Events(u) /\ e \in Events(u)  BY DEF Events
<1>2. d.msg \in DOMAIN sent /\ e.msg \in DOMAIN sent  BY <1>1, EventMade
<1>3. PairOK(d, e)  BY DEF LinesOK
<1>4. QED  BY <1>2, <1>3, PairKept

LEMMA LineStep ==
  ASSUME Typed, EventsOK, LinesOK, SentGrows, NEW h \in Loops, NEW r,
         queue' = [queue EXCEPT ![h] = r],
         \A i, j \in DOMAIN r : i < j => PairOK(r[i], r[j])'
  PROVE  /\ LinesOK'
         /\ \A u \in Loops : u # h => Events(u)' = Events(u)
         /\ Events(h)' = {r[i] : i \in DOMAIN r}
<1>1. /\ queue'[h] = r
      /\ \A u \in Loops : u # h => queue'[u] = queue[u]
  BY DEF Typed
<1>2. ASSUME NEW u \in Loops, NEW i \in DOMAIN queue'[u], NEW j \in DOMAIN queue'[u], i < j
      PROVE  PairOK(queue[u][i], queue[u][j])'
  <2>1. PICK d, e : d = queue'[u][i] /\ e = queue'[u][j]  OBVIOUS
  <2>2. PairOK(d, e)'
    <3>1. CASE u = h  BY <1>1, <1>2, <2>1, <3>1
    <3>2. CASE u # h
      <4>1. queue'[u] = queue[u]  BY <1>1, <3>2
      <4>2. QED  BY <1>2, <2>1, <4>1, LineKept
    <3>3. QED  BY <3>1, <3>2
  <2>3. QED  BY <2>1, <2>2
<1>3. QED  BY <1>1, <1>2 DEF LinesOK, Events

LEMMA LinesSame ==
  ASSUME Typed, EventsOK, LinesOK, SentGrows, queue' = queue
  PROVE  LinesOK' /\ \A u \in Loops : Events(u)' = Events(u)
<1>1. ASSUME NEW u \in Loops, NEW i \in DOMAIN queue'[u], NEW j \in DOMAIN queue'[u], i < j
      PROVE  PairOK(queue[u][i], queue[u][j])'
  <2>1. PICK d, e : d = queue'[u][i] /\ e = queue'[u][j]  OBVIOUS
  <2>2. PairOK(d, e)'  BY <1>1, <2>1, LineKept
  <2>3. QED  BY <2>1, <2>2
<1>2. QED  BY <1>1 DEF LinesOK, Events

LEMMA LinesAppend ==
  ASSUME Typed, EventsOK, LinesOK, SentGrows, NEW h \in Loops, NEW e \in EventSet,
         queue' = [queue EXCEPT ![h] = Append(@, e)],
         \A d \in Events(h) : PairOK(d, e)'
  PROVE  /\ LinesOK'
         /\ \A u \in Loops : \A d \in Events(u)' : d \in Events(u) \/ (u = h /\ d = e)
<1>0. queue[h] \in Seq(EventSet)  BY DEF Typed
<1>1. PICK r : r = Append(queue[h], e)  OBVIOUS
<1>2. ASSUME NEW i \in DOMAIN r, NEW j \in DOMAIN r, i < j
      PROVE  PairOK(r[i], r[j])'
  <2>1. /\ i \in DOMAIN queue[h] /\ r[i] = queue[h][i]
        /\ r[j] = e \/ (j \in DOMAIN queue[h] /\ r[j] = queue[h][j])
    BY <1>0, <1>1, <1>2, AppendPairs
  <2>2. PICK b, d : b = r[i] /\ d = r[j]  OBVIOUS
  <2>3. CASE d = e
    <3>1. b \in Events(h)  BY <2>1, <2>2 DEF Events
    <3>2. QED  BY <2>2, <2>3, <3>1
  <2>4. CASE j \in DOMAIN queue[h] /\ r[j] = queue[h][j]
    BY <1>2, <2>1, <2>2, <2>4, LineKept
  <2>5. QED  BY <2>1, <2>2, <2>3, <2>4
<1>3. queue' = [queue EXCEPT ![h] = r]  BY <1>1
<1>4. /\ LinesOK'
      /\ \A u \in Loops : u # h => Events(u)' = Events(u)
      /\ Events(h)' = {r[i] : i \in DOMAIN r}
  BY <1>2, <1>3, LineStep
<1>5. ASSUME NEW d \in Events(h)' PROVE d \in Events(h) \/ d = e
  <2>1. PICK i \in DOMAIN r : d = r[i]  BY <1>4, <1>5
  <2>2. r[i] = e \/ \E j \in DOMAIN queue[h] : r[i] = queue[h][j]  BY <1>0, <1>1, AppendFacts
  <2>3. QED  BY <2>1, <2>2 DEF Events
<1>6. QED  BY <1>4, <1>5

LEMMA LinesTail ==
  ASSUME Typed, EventsOK, LinesOK, SentGrows, NEW h \in Loops, queue[h] # <<>>,
         NEW e, e = Head(queue[h]), queue' = [queue EXCEPT ![h] = Tail(@)]
  PROVE  /\ LinesOK' /\ e \in Events(h)
         /\ \A u \in Loops : Events(u)' \subseteq Events(u)
         /\ \A d \in Events(h)' : PairOK(e, d)'
<1>0. queue[h] \in Seq(EventSet)  BY DEF Typed
<1>1. PICK r : r = Tail(queue[h])  OBVIOUS
<1>2. \A i \in DOMAIN r : i \in Nat /\ i + 1 \in DOMAIN queue[h] /\ 1 < i + 1
                          /\ r[i] = queue[h][i + 1]
  BY <1>0, <1>1, TailPairs
<1>3. 1 \in DOMAIN queue[h] /\ e = queue[h][1]  BY <1>0, TailFacts
<1>4. ASSUME NEW i \in DOMAIN r, NEW j \in DOMAIN r, i < j
      PROVE  PairOK(r[i], r[j])'
  <2>1. /\ i + 1 \in DOMAIN queue[h] /\ j + 1 \in DOMAIN queue[h] /\ i + 1 < j + 1
        /\ r[i] = queue[h][i + 1] /\ r[j] = queue[h][j + 1]
    BY <1>2, <1>4
  <2>2. PICK b, d : b = r[i] /\ d = r[j]  OBVIOUS
  <2>3. PairOK(b, d)'  BY <2>1, <2>2, LineKept
  <2>4. QED  BY <2>2, <2>3
<1>5. queue' = [queue EXCEPT ![h] = r]  BY <1>1
<1>6. /\ LinesOK'
      /\ \A u \in Loops : u # h => Events(u)' = Events(u)
      /\ Events(h)' = {r[i] : i \in DOMAIN r}
  BY <1>4, <1>5, LineStep
<1>7. ASSUME NEW d \in Events(h)' PROVE d \in Events(h) /\ PairOK(e, d)'
  <2>1. PICK i \in DOMAIN r : d = r[i]  BY <1>6, <1>7
  <2>2. i + 1 \in DOMAIN queue[h] /\ 1 < i + 1 /\ d = queue[h][i + 1]  BY <1>2, <2>1
  <2>3. PairOK(e, d)'  BY <1>3, <2>2, LineKept
  <2>4. QED  BY <2>2, <2>3 DEF Events
<1>8. QED  BY <1>3, <1>6, <1>7 DEF Events

-----------------------------------------------------------------------------
(* Every step keeps the order                                              *)

LEMMA OrderShrinks ==
  ASSUME DispInv, OrderInv, SentGrows, calls' = calls, FansShrink, LinesOK',
         \A u \in Loops : Events(u)' \subseteq Events(u)
  PROVE  OrderInv'
<1> USE DEF DispInv, OrderInv
<1>1. SignalsLater  BY DEF SignalsLater
<1>2. ProgressOK' /\ OneFanEach'  BY <1>1, ProgressShrinks DEF FansShrink
<1>3. CallsInLine' /\ Calls' = Calls  BY CallsStay
<1>4. HistoryOK'
  <2>1. \A y \in Ahead' : y \in Ahead  BY DEF FansShrink
  <2>2. QED  BY <1>1, <1>3, <2>1, HistoryKept
<1>5. WaitsOK'
  <2>1. ASSUME NEW u \in Loops, NEW e \in Events(u)' PROVE WaitOK(u, e)'
    <3>1. e \in Events(u) /\ WaitOK(u, e)  BY <2>1 DEF WaitsOK
    <3>2. \A y \in Ahead' : y \in Ahead  BY DEF FansShrink
    <3>3. QED  BY <1>1, <1>3, <3>1, <3>2, WaitKept
  <2>2. QED  BY <2>1 DEF WaitsOK
<1>6. QED  BY <1>2, <1>3, <1>4, <1>5

LEMMA ReturnInOrder ==
  ASSUME DispInv, OrderInv, NEW t \in Threads, Return(t)
  PROVE  OrderInv'
<1>1. stack[t] # <<>> /\ Pop(t) /\ UNCHANGED <<sent, calls, queue>> /\ SentGrows
  BY DEF Return, Top, SentGrows
<1>2. FansShrink  BY <1>1, PopShrinks DEF DispInv, OrderInv
<1>3. LinesOK' /\ \A u \in Loops : Events(u)' = Events(u)
  BY <1>1, LinesSame DEF DispInv, OrderInv
<1>4. QED  BY <1>1, <1>2, <1>3, OrderShrinks

LEMMA OrderSame ==
  ASSUME DispInv, OrderInv, UNCHANGED <<queue, stack, sent, calls>>
  PROVE  OrderInv'
<1>1. SentGrows  BY DEF SentGrows
<1>2. FansShrink  BY SameShrinks DEF OrderInv
<1>3. LinesOK' /\ \A u \in Loops : Events(u)' = Events(u)
  BY <1>1, LinesSame DEF DispInv, OrderInv
<1>4. QED  BY <1>1, <1>2, <1>3, OrderShrinks

\* Before only looks at what a call and its ticket have in common.
LEMMA SameTicket ==
  ASSUME NEW x, NEW y, x.slot = y.slot, x.msg = y.msg, x.nth = y.nth, x.via = y.via
  PROVE  /\ \A z : (Before(x, z) <=> Before(y, z)) /\ (Before(z, x) <=> Before(z, y))
         /\ \A z : (Before(x, z)' <=> Before(y, z)') /\ (Before(z, x)' <=> Before(z, y)')
BY DEF Before

\* The next call of an emission may come before all that are ahead then.
LEMMA NextCall ==
  ASSUME ProgressOK, SentGrows, FansShrink, NEW t \in Threads, NEW y \in Ahead,
         y.msg \in InProgress(t), y \notin Ahead'
  PROVE  \A z \in Ahead' : Before(y, z)'
<1>1. ASSUME NEW z \in Ahead' PROVE Before(y, z)'
  <2>1. z \in Ahead /\ z # y  BY <1>1 DEF FansShrink
  <2>2. y \in TicketSet /\ z \in TicketSet  BY <2>1 DEF Ahead
  <2>3. y.slot = z.slot /\ y.via = z.via /\ y.msg = z.msg => y.nth # z.nth
    BY <2>1, <2>2 DEF TicketSet
  <2>4. Ordered(y.msg, z.msg)  BY <2>1, AheadOrdered
  <2>5. Before(y, z)  BY <2>3, <2>4 DEF Before
  <2>6. y.msg \in DOMAIN sent /\ z.msg \in DOMAIN sent  BY <2>1, AheadMade
  <2>7. QED  BY <2>5, <2>6, BeforeKept
<1>2. QED  BY <1>1

LEMMA FanDirectInOrder ==
  ASSUME DispInv, OrderInv, NEW t \in Threads, FanDirect(t)
  PROVE  OrderInv'
<1> USE DEF DispInv, OrderInv
<1>0. UNCHANGED <<sent, queue>> /\ SentGrows /\ Top(t, "fan")
  BY DEF FanDirect, SentGrows
<1>1. PICK f : f = Head(stack[t])  OBVIOUS
<1>2. PICK x, b :
        /\ x \in f.todo /\ Direct(x) /\ b = Body(x[2], f.msg) /\ Takes(t, f, x, b)
        /\ calls' = Append(calls, [slot |-> x[2], msg |-> f.msg, thread |-> t,
                                   via |-> "direct", nth |-> x[3], fresh |-> f.fresh])
  BY <1>1 DEF FanDirect, Takes
<1>3. /\ f \in FanSet /\ x[2] \in Slots /\ x[3] \in 1..MaxConn
      /\ f.msg \in Nat /\ f.fresh \in BOOLEAN /\ x[1] = "direct"
  BY <1>0, <1>1, <1>2, FanFacts DEF FanSet, TodoSet, Direct
<1>4. b \in FrameSet /\ b.op # "fan"  BY <1>2, <1>3 DEF Body, BodySet, FrameSet
<1>5. PICK c \in CallSet :
        /\ c = [slot |-> x[2], msg |-> f.msg, thread |-> t,
                via |-> "direct", nth |-> x[3], fresh |-> f.fresh]
        /\ calls' = Append(calls, c)
  BY <1>2, <1>3 DEF CallSet
<1>6. PICK y : y = Ticket(x[2], f.msg, x[3], x[1])  OBVIOUS
<1>7. /\ y.slot = c.slot /\ y.msg = c.msg /\ y.nth = c.nth /\ y.via = c.via
      /\ c.msg = f.msg /\ c.via = "direct"
  BY <1>3, <1>5, <1>6 DEF Ticket
<1>8. FansShrink /\ f.msg \in InProgress(t) /\ y \in Ahead /\ y \notin Ahead'
  BY <1>0, <1>1, <1>2, <1>4, <1>6, CallTakes
<1>9. /\ SignalsLater /\ LinesOK'
      /\ \A u \in Loops : Events(u)' = Events(u)
  BY <1>0, LinesSame DEF SignalsLater
<1>10. ProgressOK' /\ OneFanEach'  BY <1>0, <1>8, <1>9, ProgressShrinks DEF FansShrink
<1>11. \A z \in Ahead' : Before(c, z)'
  <2>1. \A z \in Ahead' : Before(y, z)'  BY <1>0, <1>7, <1>8, NextCall
  <2>2. QED  BY <1>7, <2>1, SameTicket
<1>12. Begun(c.msg)'
  <2>1. Begun(c.msg)  BY <1>7, <1>8 DEF ProgressOK
  <2>2. QED  BY <1>0, <1>9, <2>1, BegunKept
<1>13. \A d \in Calls : Before(d, c)'
  <2>1. ASSUME NEW d \in Calls PROVE Before(d, c)'
    <3>1. Before(d, y) /\ d.msg \in DOMAIN sent  BY <1>8, <2>1 DEF HistoryOK, Begun
    <3>2. y.msg \in DOMAIN sent  BY <1>8, AheadMade
    <3>3. Before(d, y)'  BY <1>0, <3>1, <3>2, BeforeKept
    <3>4. QED  BY <1>7, <3>3, SameTicket
  <2>2. QED  BY <2>1
<1>14. CallsInLine' /\ \A d \in Calls' : d \in Calls \/ d = c
  BY <1>0, <1>5, <1>13, CallAdds
<1>15. HistoryOK'
  <2>1. \A y1 \in Ahead' : y1 \in Ahead  BY <1>8 DEF FansShrink
  <2>2. \A d \in Calls' : d \in Calls \/ (Begun(d.msg)' /\ \A z \in Ahead' : Before(d, z)')
    BY <1>11, <1>12, <1>14
  <2>3. QED  BY <1>0, <1>9, <2>1, <2>2, HistoryKept
<1>16. WaitsOK'
  <2>1. ASSUME NEW u \in Loops, NEW e \in Events(u)' PROVE WaitOK(u, e)'
    <3>1. e \in Events(u) /\ WaitOK(u, e)  BY <1>9, <2>1 DEF WaitsOK
    <3>2. Before(c, Waits(e))'  BY <1>7 DEF Before, Waits, Ticket
    <3>3. \A d \in Calls' : d \in Calls \/ (e.to \in Slots => Before(d, Waits(e))')
      BY <1>14, <3>2
    <3>4. \A z \in Ahead' : z \in Ahead  BY <1>8 DEF FansShrink
    <3>5. QED  BY <1>0, <1>9, <3>1, <3>3, <3>4, WaitKept
  <2>2. QED  BY <2>1 DEF WaitsOK
<1>17. QED  BY <1>9, <1>10, <1>14, <1>15, <1>16

LEMMA FanQueuedInOrder ==
  ASSUME DispInv, OrderInv, NEW t \in Threads, FanQueued(t)
  PROVE  OrderInv'
<1> USE DEF DispInv, OrderInv
<1>0. UNCHANGED <<sent, calls>> /\ SentGrows /\ Top(t, "fan")
  BY DEF FanQueued, SentGrows
<1>1. PICK f : f = Head(stack[t])  OBVIOUS
<1>2. PICK x, e, b :
        /\ x \in f.todo /\ ~Direct(x) /\ e = Event(x[2], f.msg, x[3], f.fresh) /\ b = Post(e)
        /\ \/ /\ Home[x[2]] \in Loops
              /\ queue' = [queue EXCEPT ![Home[x[2]]] = Append(@, e)]
              /\ Takes(t, f, x, b)
           \/ stack' = [stack EXCEPT ![t] = <<>>] /\ UNCHANGED queue
  BY <1>1 DEF FanQueued, AddEvent, Takes
<1>3. CASE stack' = [stack EXCEPT ![t] = <<>>] /\ UNCHANGED queue
  <2>1. FansShrink  BY <1>3, DropShrinks
  <2>2. LinesOK' /\ \A u \in Loops : Events(u)' = Events(u)  BY <1>0, <1>3, LinesSame
  <2>3. QED  BY <1>0, <2>1, <2>2, OrderShrinks
<1>4. CASE /\ Home[x[2]] \in Loops
           /\ queue' = [queue EXCEPT ![Home[x[2]]] = Append(@, e)]
           /\ Takes(t, f, x, b)
  <2>1. /\ f \in FanSet /\ x[2] \in Slots /\ x[3] \in Nat
        /\ f.msg \in Nat /\ f.fresh \in BOOLEAN /\ x[1] = "queued"
    BY <1>0, <1>1, <1>2, FanFacts DEF FanSet, TodoSet, Direct
  <2>2. e \in EventSet /\ b \in FrameSet /\ b.op # "fan"
    BY <1>2, <2>1 DEF Event, EventSet, Objects, Post, PostSet, FrameSet
  <2>3. PICK h \in Loops : h = Home[x[2]]  BY <1>4
  <2>4. PICK y : y = Ticket(x[2], f.msg, x[3], x[1])  OBVIOUS
  <2>5. y = Waits(e) /\ y.msg = f.msg /\ e.to = x[2] /\ e.msg = f.msg
    BY <1>2, <2>1, <2>4 DEF Waits, Ticket, Event
  <2>6. e.to \in Slots /\ e.to \notin Signals  BY <2>1, <2>5, ConnectionsAssumption
  <2>7. FansShrink /\ f.msg \in InProgress(t) /\ y \in Ahead /\ y \notin Ahead'
    BY <1>0, <1>1, <1>2, <1>4, <2>2, <2>4, CallTakes
  <2>8. y.msg \in DOMAIN sent  BY <2>7, AheadMade
  <2>9. \A d \in Events(h) : PairOK(d, e)'
    <3>1. ASSUME NEW d \in Events(h), d.to \in Slots PROVE Before(Waits(d), y)'
      <4>1. d.msg \in DOMAIN sent /\ Waits(d).msg = d.msg  BY <3>1, EventMade DEF Waits, Ticket
      <4>2. Before(Waits(d), y)  BY <2>7, <3>1 DEF WaitsOK, WaitOK
      <4>3. QED  BY <1>0, <2>8, <4>1, <4>2, BeforeKept
    <3>2. QED  BY <2>5, <2>6, <3>1 DEF PairOK
  <2>10. /\ LinesOK'
         /\ \A u \in Loops : \A d \in Events(u)' : d \in Events(u) \/ (u = h /\ d = e)
    BY <1>0, <1>4, <2>2, <2>3, <2>9, LinesAppend
  <2>11. SignalsLater  BY <2>6, <2>10 DEF SignalsLater
  <2>12. ProgressOK' /\ OneFanEach'  BY <1>0, <2>7, <2>11, ProgressShrinks DEF FansShrink
  <2>13. CallsInLine' /\ Calls' = Calls  BY <1>0, CallsStay
  <2>14. \A z \in Ahead' : z \in Ahead  BY <2>7 DEF FansShrink
  <2>15. HistoryOK'  BY <1>0, <2>11, <2>13, <2>14, HistoryKept
  <2>16. WaitOK(h, e)'
    <3>1. Begun(f.msg)'
      <4>1. Begun(f.msg)  BY <2>7 DEF ProgressOK
      <4>2. QED  BY <1>0, <2>11, <4>1, BegunKept
    <3>2. ASSUME NEW c \in Calls' PROVE Before(c, y)'
      <4>1. c \in Calls  BY <2>13, <3>2
      <4>2. Before(c, y) /\ c.msg \in DOMAIN sent  BY <2>7, <4>1 DEF HistoryOK, Begun
      <4>3. QED  BY <1>0, <2>8, <4>2, BeforeKept
    <3>3. \A z \in Ahead' : Before(y, z)'  BY <1>0, <2>5, <2>7, NextCall
    <3>4. QED  BY <2>5, <2>6, <3>1, <3>2, <3>3 DEF WaitOK
  <2>17. WaitsOK'
    <3>1. ASSUME NEW u \in Loops, NEW d \in Events(u)' PROVE WaitOK(u, d)'
      <4>1. CASE d \in Events(u)
        <5>1. WaitOK(u, d)  BY <4>1 DEF WaitsOK
        <5>2. QED  BY <1>0, <2>11, <2>13, <2>14, <4>1, <5>1, WaitKept
      <4>2. CASE u = h /\ d = e  BY <2>16, <4>2
      <4>3. QED  BY <2>10, <3>1, <4>1, <4>2
    <3>2. QED  BY <3>1 DEF WaitsOK
  <2>18. QED  BY <2>10, <2>12, <2>13, <2>15, <2>17
<1>5. QED  BY <1>2, <1>3, <1>4

\* An emission begins whose calls may come after all that were or are due.
LEMMA OrderAdds ==
  ASSUME DispInv, OrderInv, SentGrows, SignalsLater, calls' = calls, LinesOK',
         NEW t \in Threads, NEW m \in Nat, FansAdd(t, m), Walker(m)' = t, Begun(m)',
         InProgress(t) = {} \/ \A n \in InProgress(t) : Ordered(m, n)' /\ Ordered(n, m)',
         \A u \in Loops : Events(u)' \subseteq Events(u),
         \A n \in DOMAIN sent : Begun(n) => n # m /\ Ordered(n, m)'
  PROVE  OrderInv'
<1> USE DEF DispInv, OrderInv
<1>1. ProgressOK' /\ OneFanEach'
  <2>1. \A n \in InProgress(t) : Ordered(m, n)' /\ Ordered(n, m)'  OBVIOUS
  <2>2. ProgressOK'  BY <2>1, ProgressAdds
  <2>3. QED  BY <2>2 DEF FansAdd
<1>2. CallsInLine' /\ Calls' = Calls  BY CallsStay
<1>3. \A y \in Ahead' : y \in Ahead \/ y.msg = m  BY DEF FansAdd
<1>4. ASSUME NEW x, Begun(x.msg), NEW y \in Ahead', y \notin Ahead
      PROVE  Before(x, y)'
  <2>1. y.msg = m /\ x.msg \in DOMAIN sent  BY <1>3, <1>4 DEF Begun
  <2>2. x.msg # y.msg /\ Ordered(x.msg, y.msg)'  BY <1>4, <2>1
  <2>3. QED  BY <2>2 DEF Before
<1>5. HistoryOK'
  <2>1. ASSUME NEW y \in Ahead', y \notin Ahead, NEW c \in Calls PROVE Before(c, y)'
    <3>1. Begun(c.msg)  BY <2>1 DEF HistoryOK
    <3>2. QED  BY <1>4, <2>1, <3>1
  <2>2. QED  BY <1>2, <2>1, HistoryKept
<1>6. WaitsOK'
  <2>1. ASSUME NEW u \in Loops, NEW e \in Events(u)' PROVE WaitOK(u, e)'
    <3>1. e \in Events(u) /\ WaitOK(u, e)  BY <2>1 DEF WaitsOK
    <3>2. ASSUME NEW y \in Ahead', y \notin Ahead, e.to \in Slots PROVE Before(Waits(e), y)'
      <4>1. Begun(e.msg) /\ Waits(e).msg = e.msg  BY <3>1, <3>2 DEF WaitOK, Waits, Ticket
      <4>2. PICK x : x = Waits(e)  OBVIOUS
      <4>3. Begun(x.msg)  BY <4>1, <4>2
      <4>4. QED  BY <1>4, <3>2, <4>2, <4>3
    <3>3. \A y \in Ahead' : y \in Ahead \/ (e.to \in Slots => Before(Waits(e), y)')  BY <3>2
    <3>4. QED  BY <1>2, <3>1, <3>3, WaitKept
  <2>2. QED  BY <2>1 DEF WaitsOK
<1>7. QED  BY <1>1, <1>2, <1>5, <1>6

LEMMA EmitInOrder ==
  ASSUME DispInv, OrderInv, NEW t \in Threads, NEW s \in Signals, Emit(t, s)
  PROVE  OrderInv'
<1> USE DEF DispInv, OrderInv
<1>0. UNCHANGED calls /\ sent \in Seq(SentSet)  BY DEF Emit, Typed
<1>1. PICK m \in Nat, e \in EventSet :
        /\ m = Len(sent) + 1 /\ e = Event(s, m, 1, TRUE)
        /\ sent' = Append(sent, [sig |-> s, by |-> t, within |-> InProgress(t)])
        /\ IF Home[s] \in Loops \ {t}
           THEN /\ queue' = [queue EXCEPT ![Home[s]] = Append(@, e)]
                /\ Push(t, Post(e))
           ELSE Push(t, Fan(s, m, TRUE, Todo(s))) /\ UNCHANGED queue
  <2>1. Len(sent) + 1 \in Nat  BY <1>0
  <2>2. Event(s, Len(sent) + 1, 1, TRUE) \in EventSet
    BY <2>1 DEF Event, EventSet, Objects
  <2>3. QED  BY <2>1, <2>2 DEF Emit, AddEvent
<1>2. /\ SentGrows /\ m \in DOMAIN sent' /\ \A n \in DOMAIN sent : n \in Nat /\ n < m
      /\ sent'[m].sig = s /\ sent'[m].by = t /\ sent'[m].within = InProgress(t)
  <2>1. PICK r : r = [sig |-> s, by |-> t, within |-> InProgress(t)]  OBVIOUS
  <2>2. r \in SentSet /\ r.sig = s /\ r.by = t /\ r.within = InProgress(t)
    BY <2>1, InProgressType DEF SentSet
  <2>3. sent' = Append(sent, r)  BY <1>1, <2>1
  <2>4. QED  BY <1>0, <1>1, <2>2, <2>3 DEF SentGrows
<1>3. CASE Home[s] \in Loops \ {t}
  <2>1. PICK h \in Loops : h = Home[s] /\ h # t  BY <1>3
  <2>2. e.to = s /\ e.msg = m /\ e.to \notin Slots
    BY <1>1, ConnectionsAssumption DEF Event
  <2>3. PICK b : b = Post(e)  OBVIOUS
  <2>4. FansShrink
    <3>1. b \in FrameSet /\ b.op # "fan"  BY <2>3 DEF Post, FrameSet, PostSet
    <3>2. QED  BY <1>1, <1>3, <2>3, <3>1, PushPlain
  <2>5. \A d \in Events(h) : PairOK(d, e)'
    <3>1. ASSUME NEW d \in Events(h) PROVE PairOK(d, e)'
      <4>1. d.msg < m  BY <1>2, <3>1, EventMade
      <4>2. QED  BY <2>2, <4>1 DEF PairOK
    <3>2. QED  BY <3>1
  <2>6. /\ LinesOK'
        /\ \A u \in Loops : \A d \in Events(u)' : d \in Events(u) \/ (u = h /\ d = e)
    BY <1>1, <1>2, <1>3, <2>1, <2>5, LinesAppend
  <2>7. SignalsLater  BY <1>2, <2>2, <2>6 DEF SignalsLater
  <2>8. ProgressOK' /\ OneFanEach'  BY <1>2, <2>4, <2>7, ProgressShrinks DEF FansShrink
  <2>9. CallsInLine' /\ Calls' = Calls  BY <1>0, <1>2, CallsStay
  <2>10. \A y \in Ahead' : y \in Ahead  BY <2>4 DEF FansShrink
  <2>11. HistoryOK'  BY <1>2, <2>7, <2>9, <2>10, HistoryKept
  <2>12. WaitOK(h, e)'  BY <1>2, <2>1, <2>2 DEF WaitOK
  <2>13. WaitsOK'
    <3>1. ASSUME NEW u \in Loops, NEW d \in Events(u)' PROVE WaitOK(u, d)'
      <4>1. CASE d \in Events(u)
        <5>1. WaitOK(u, d)  BY <4>1 DEF WaitsOK
        <5>2. QED  BY <1>2, <2>7, <2>9, <2>10, <4>1, <5>1, WaitKept
      <4>2. CASE u = h /\ d = e  BY <2>12, <4>2
      <4>3. QED  BY <2>6, <3>1, <4>1, <4>2
    <3>2. QED  BY <3>1 DEF WaitsOK
  <2>14. QED  BY <2>6, <2>8, <2>9, <2>11, <2>13
<1>4. CASE Home[s] \notin Loops \ {t}
  <2>1. PICK f \in FrameSet : f = Fan(s, m, TRUE, Todo(s))
    BY TodoFacts DEF Fan, FrameSet, FanSet
  <2>2. f.op = "fan" /\ f.msg = m  BY <2>1 DEF Fan
  <2>3. \A n \in InProgress(t) : n \in DOMAIN sent  BY DEF ProgressOK, Begun
  <2>4. m \notin InProgress(t)  BY <1>2, <2>3
  <2>5. FansAdd(t, m)  BY <1>1, <1>4, <2>1, <2>2, <2>4, PushFan
  <2>6. LinesOK' /\ \A u \in Loops : Events(u)' = Events(u)  BY <1>1, <1>2, <1>4, LinesSame
  <2>7. SignalsLater  BY <2>6 DEF SignalsLater
  <2>8. Walker(m)' = t  BY <1>2, <1>4 DEF Walker
  <2>9. \A n \in InProgress(t) : Ordered(m, n)' /\ Ordered(n, m)'
    BY <1>2, <2>3 DEF Ordered
  <2>10. Begun(m)'
    <3>1. ASSUME NEW u \in Loops, NEW d \in Events(u)', d.to \in Signals, SameSender(m, d.msg)'
          PROVE  FALSE
      <4>1. d \in Events(u)  BY <2>6, <3>1
      <4>2. d.msg \in DOMAIN sent /\ EventOK(u, d)  BY <4>1, EventMade
      <4>3. sent[d.msg].sig = s /\ sent[d.msg].by = t
        BY <1>2, <3>1, <4>2 DEF SameSender, SentGrows
      <4>4. d.to = s /\ u = t  BY <1>4, <3>1, <4>2, <4>3 DEF EventOK
      <4>5. sent[d.msg].by # u  BY <3>1, <4>1 DEF WaitsOK, WaitOK
      <4>6. QED  BY <4>3, <4>4, <4>5
    <3>2. QED  BY <1>2, <3>1 DEF Begun
  <2>11. \A n \in DOMAIN sent : n # m /\ Ordered(n, m)'  BY <1>2 DEF Ordered
  <2>12. QED
    BY <1>0, <1>2, <2>5, <2>6, <2>7, <2>8, <2>9, <2>10, <2>11, OrderAdds
<1>5. QED  BY <1>3, <1>4

LEMMA RunEventInOrder ==
  ASSUME DispInv, OrderInv, NEW t \in Loops, RunEvent(t)
  PROVE  OrderInv'
<1> USE DEF DispInv, OrderInv
<1>0. /\ UNCHANGED sent /\ SentGrows /\ t \in Threads /\ stack[t] = <<>>
      /\ queue[t] # <<>> /\ queue' = [queue EXCEPT ![t] = Tail(@)]
  BY DEF RunEvent, SentGrows, Threads, Idle
<1>1. PICK e : e = Head(queue[t])  OBVIOUS
<1>2. /\ LinesOK' /\ e \in Events(t)
      /\ \A u \in Loops : Events(u)' \subseteq Events(u)
      /\ \A d \in Events(t)' : PairOK(e, d)'
  BY <1>0, <1>1, LinesTail
<1>3. /\ e \in EventSet /\ EventOK(t, e) /\ e.msg \in DOMAIN sent /\ e.msg \in Nat
      /\ e.to \in Objects /\ WaitOK(t, e)
  BY <1>2, EventMade DEF EventSet, WaitsOK
<1>4. SignalsLater  BY <1>2 DEF SignalsLater
<1>5. PICK ok \in BOOLEAN :
        \/ UNCHANGED <<stack, calls>>
        \/ /\ e.to \in Signals
           /\ Push(t, Fan(e.to, e.msg, ok, Todo(e.to)))
           /\ UNCHANGED calls
        \/ /\ e.to \in Slots
           /\ Push(t, Body(e.to, e.msg))
           /\ calls' = Append(calls, [slot |-> e.to, msg |-> e.msg, thread |-> t,
                                      via |-> "queued", nth |-> e.nth, fresh |-> ok])
  <2>1. (e.fresh /\ Intact(e)) \in BOOLEAN  BY Zenon
  <2>2. QED  BY <1>1, <2>1 DEF RunEvent
<1>6. CASE UNCHANGED <<stack, calls>>
  <2>1. FansShrink  BY <1>6, SameShrinks
  <2>2. QED  BY <1>0, <1>2, <1>6, <2>1, OrderShrinks
<1>7. CASE /\ e.to \in Signals
           /\ Push(t, Fan(e.to, e.msg, ok, Todo(e.to)))
           /\ UNCHANGED calls
  <2>1. PICK f \in FrameSet : f = Fan(e.to, e.msg, ok, Todo(e.to))
    BY <1>3, <1>7, TodoFacts DEF Fan, FrameSet, FanSet
  <2>2. f.op = "fan" /\ f.msg = e.msg  BY <2>1 DEF Fan
  <2>3. InProgress(t) = {}
    <3>1. DOMAIN stack[t] = {}  BY <1>0
    <3>2. QED  BY <3>1 DEF InProgress, Frames
  <2>4. FansAdd(t, e.msg)  BY <1>0, <1>7, <2>1, <2>2, <2>3, PushFan
  <2>5. sent[e.msg].sig = e.to /\ Home[e.to] = t  BY <1>3, <1>7 DEF EventOK
  <2>6. Walker(e.msg)' = t  BY <1>0, <2>5 DEF Walker
\* Events to this signal that wait are for later emissions.
  <2>7. Begun(e.msg)'
    <3>1. ASSUME NEW u \in Loops, NEW d \in Events(u)', d.to \in Signals, SameSender(e.msg, d.msg)'
          PROVE  e.msg < d.msg
      <4>1. d \in Events(u) /\ EventOK(u, d)  BY <1>2, <3>1, EventMade
      <4>2. sent[d.msg].sig = e.to  BY <1>0, <2>5, <3>1 DEF SameSender
      <4>3. u = t  BY <2>5, <3>1, <4>1, <4>2 DEF EventOK
      <4>4. QED  BY <1>2, <1>7, <3>1, <4>3 DEF PairOK
    <3>2. QED  BY <1>0, <1>3, <3>1 DEF Begun
\* Emissions begun before are earlier, if they are of the same sender.
  <2>8. ASSUME NEW n \in DOMAIN sent, Begun(n)
        PROVE  n # e.msg /\ Ordered(n, e.msg)'
    <3>1. SameSender(n, e.msg) => n < e.msg  BY <1>2, <1>7, <2>8 DEF Begun
    <3>2. n \in Nat  BY <2>8 DEF Typed
    <3>3. n # e.msg  BY <3>1, <3>2 DEF SameSender
    <3>4. Ordered(n, e.msg)  BY <1>3, <3>1, <3>2 DEF Ordered
    <3>5. QED  BY <1>0, <1>3, <3>3, <3>4, OrderedKept
  <2>9. QED
    BY <1>0, <1>2, <1>3, <1>4, <1>7, <2>3, <2>4, <2>6, <2>7, <2>8, OrderAdds
<1>8. CASE /\ e.to \in Slots
           /\ Push(t, Body(e.to, e.msg))
           /\ calls' = Append(calls, [slot |-> e.to, msg |-> e.msg, thread |-> t,
                                      via |-> "queued", nth |-> e.nth, fresh |-> ok])
  <2>1. FansShrink
    <3>1. PICK f \in FrameSet : f = Body(e.to, e.msg)
      BY <1>3, <1>8 DEF Body, FrameSet, BodySet
    <3>2. f.op # "fan"  BY <3>1 DEF Body
    <3>3. QED  BY <1>0, <1>8, <3>1, <3>2, PushPlain
  <2>2. PICK c \in CallSet :
          /\ c = [slot |-> e.to, msg |-> e.msg, thread |-> t,
                  via |-> "queued", nth |-> e.nth, fresh |-> ok]
          /\ calls' = Append(calls, c)
    BY <1>0, <1>3, <1>8 DEF CallSet, EventOK
  <2>3. PICK y : y = Waits(e)  OBVIOUS
  <2>4. /\ y.slot = c.slot /\ y.msg = c.msg /\ y.nth = c.nth /\ y.via = c.via
        /\ c.slot = e.to /\ c.msg = e.msg /\ y.msg \in DOMAIN sent
    BY <1>3, <2>2, <2>3 DEF Waits, Ticket
  <2>5. /\ Begun(e.msg)
        /\ \A d \in Calls : Before(d, y)
        /\ \A z \in Ahead : Before(y, z)
    BY <1>3, <1>8, <2>3 DEF WaitOK
  <2>6. ProgressOK' /\ OneFanEach'  BY <1>0, <1>4, <2>1, ProgressShrinks DEF FansShrink
  <2>7. \A d \in Calls : Before(d, c)'
    <3>1. ASSUME NEW d \in Calls PROVE Before(d, c)'
      <4>1. Before(d, y) /\ d.msg \in DOMAIN sent  BY <2>5, <3>1 DEF HistoryOK, Begun
      <4>2. Before(d, y)'  BY <1>0, <2>4, <4>1, BeforeKept
      <4>3. QED  BY <2>4, <4>2, SameTicket
    <3>2. QED  BY <3>1
  <2>8. CallsInLine' /\ \A d \in Calls' : d \in Calls \/ d = c
    BY <1>0, <2>2, <2>7, CallAdds
  <2>9. HistoryOK'
    <3>1. Begun(c.msg)'  BY <1>0, <1>4, <2>4, <2>5, BegunKept
    <3>2. ASSUME NEW z \in Ahead' PROVE Before(c, z)'
      <4>1. z \in Ahead  BY <2>1, <3>2 DEF FansShrink
      <4>2. Before(y, z) /\ z.msg \in DOMAIN sent  BY <2>5, <4>1, AheadMade
      <4>3. Before(y, z)'  BY <1>0, <2>4, <4>2, BeforeKept
      <4>4. QED  BY <2>4, <4>3, SameTicket
    <3>3. \A z \in Ahead' : z \in Ahead  BY <2>1 DEF FansShrink
    <3>4. \A d \in Calls' : d \in Calls \/ (Begun(d.msg)' /\ \A z \in Ahead' : Before(d, z)')
      BY <2>8, <3>1, <3>2
    <3>5. QED  BY <1>0, <1>4, <3>3, <3>4, HistoryKept
\* A slot has its events in one loop.
  <2>10. WaitsOK'
    <3>1. ASSUME NEW u \in Loops, NEW d \in Events(u)' PROVE WaitOK(u, d)'
      <4>1. d \in Events(u) /\ WaitOK(u, d) /\ EventOK(u, d)
        BY <1>2, <3>1, EventMade DEF WaitsOK
      <4>2. ASSUME d.to \in Slots PROVE Before(c, Waits(d))'
        <5>1. CASE u = t
          <6>1. Before(Waits(e), Waits(d))'  BY <1>2, <1>8, <3>1, <4>2, <5>1 DEF PairOK
          <6>2. PICK z : z = Waits(d)  OBVIOUS
          <6>3. Before(y, z)'  BY <2>3, <6>1, <6>2
          <6>4. QED  BY <2>4, <6>2, <6>3, SameTicket
        <5>2. CASE u # t
          <6>1. d.to # e.to  BY <1>3, <4>1, <5>2 DEF EventOK
          <6>2. Waits(d).slot = d.to  BY DEF Waits, Ticket
          <6>3. QED  BY <2>4, <6>1, <6>2 DEF Before
        <5>3. QED  BY <5>1, <5>2
      <4>3. \A b \in Calls' : b \in Calls \/ (d.to \in Slots => Before(b, Waits(d))')
        BY <2>8, <4>2
      <4>4. \A z \in Ahead' : z \in Ahead  BY <2>1 DEF FansShrink
      <4>5. QED  BY <1>0, <1>4, <4>1, <4>3, <4>4, WaitKept
    <3>2. QED  BY <3>1 DEF WaitsOK
  <2>11. QED  BY <1>2, <2>6, <2>8, <2>9, <2>10
<1>9. QED  BY <1>5, <1>6, <1>7, <1>8

-----------------------------------------------------------------------------
LEMMA OrderInvariance == DispatchSpec => []OrderInv
<1>1. DispatchInit => OrderInv
  <2> SUFFICES ASSUME DispatchInit PROVE OrderInv
    OBVIOUS
  <2>1. /\ calls = <<>> /\ \A t \in Threads : stack[t] = <<>>
        /\ \A t \in Loops : queue[t] = <<>>
    BY DEF DispatchInit
  <2>2. /\ Calls = {} /\ \A t \in Threads : Frames(t) = {} /\ InProgress(t) = {}
        /\ \A t \in Loops : Events(t) = {}
    BY <2>1 DEF Calls, Frames, InProgress, Events
  <2>3. ProgressOK /\ OneFanEach  BY <2>1, <2>2 DEF ProgressOK, OneFanEach
  <2>4. LinesOK /\ WaitsOK  BY <2>1, <2>2 DEF LinesOK, WaitsOK
  <2>5. HistoryOK /\ CallsInLine  BY <2>1, <2>2 DEF HistoryOK, CallsInLine
  <2>6. QED  BY <2>3, <2>4, <2>5 DEF OrderInv
<1>2. DispInv /\ OrderInv /\ [DispatchNext]_allVars => OrderInv'
  <2> SUFFICES ASSUME DispInv, OrderInv, [DispatchNext]_allVars PROVE OrderInv'
    OBVIOUS
  <2>1. CASE UNCHANGED allVars
    BY <2>1, OrderSame DEF allVars, dispVars
  <2>2. CASE DispatchNext
    <3>1. ASSUME NEW t \in Threads, Step(t) PROVE OrderInv'
      BY <3>1, FanDirectInOrder, FanQueuedInOrder, ReturnInOrder DEF Step
    <3>2. ASSUME NEW t \in Threads, Change(t) PROVE OrderInv'
      BY <3>2, OrderSame DEF Change
    <3>3. QED
      BY <2>2, <3>1, <3>2, EmitInOrder, RunEventInOrder DEF DispatchNext
  <2>3. QED  BY <2>1, <2>2
<1>3. QED  BY <1>1, <1>2, DispInvariance, PTL DEF DispatchSpec

\* Through the loop of the signal and the loop of the slot, whatever other
\* threads do between: callQueuedConnections of an earlier emission comes
\* before that of a later one, unless a slot called directly in the earlier
\* one made the later.
THEOREM DispatchInOrder == DispatchSpec => []InOrder
<1>1. OrderInv => InOrder
  <2> SUFFICES ASSUME OrderInv, NEW i \in DOMAIN calls, NEW j \in DOMAIN calls, i < j,
                      calls[i].slot = calls[j].slot,
                      calls[i].via = "queued", calls[j].via = "queued",
                      Sig(calls[i]) = Sig(calls[j]), By(calls[i]) = By(calls[j])
               PROVE  \/ calls[i].msg <= calls[j].msg
                      \/ calls[j].msg \in sent[calls[i].msg].within
    BY DEF InOrder
  <2>1. Before(calls[i], calls[j])  BY DEF OrderInv, CallsInLine
  <2>2. SameSender(calls[i].msg, calls[j].msg)  BY DEF SameSender, Sig, By
  <2>3. QED  BY <2>1, <2>2 DEF Before, Ordered
<1>2. QED  BY <1>1, OrderInvariance, PTL

\* callDirectConnections and callQueuedConnections make one call for each entry
\* of a list: none is made by two events, or by an event and a walk, and a call
\* that was made is not still to be made, in any stage.
THEOREM DispatchOncePerConnection == DispatchSpec => []OncePerConnection
<1>1. DispInv /\ OrderInv => OncePerConnection
  <2> SUFFICES ASSUME DispInv, OrderInv PROVE OncePerConnection
    OBVIOUS
  <2>0. calls \in Seq(CallSet)  BY DEF DispInv, Typed
  <2>1. ASSUME NEW i \in DOMAIN calls, NEW j \in DOMAIN calls, i < j,
               calls[i].slot = calls[j].slot, calls[i].msg = calls[j].msg,
               calls[i].via = calls[j].via
        PROVE  calls[i].nth # calls[j].nth
    <3>1. Before(calls[i], calls[j])  BY <2>1 DEF OrderInv, CallsInLine
    <3>2. QED  BY <2>1, <3>1 DEF Before
  <2>2. ASSUME NEW i \in DOMAIN calls, NEW j \in DOMAIN calls,
               calls[i].slot = calls[j].slot, calls[i].msg = calls[j].msg,
               calls[i].via = calls[j].via, calls[i].nth = calls[j].nth
        PROVE  i = j
    <3>1. ~(i < j) /\ ~(j < i)  BY <2>1, <2>2
    <3>2. i \in Int /\ j \in Int  BY <2>0
    <3>3. QED  BY <3>1, <3>2
  <2>3. ASSUME NEW c \in Calls PROVE ~Awaited(c)
    <3>1. c \in CallSet /\ Begun(c.msg) /\ \A y \in Ahead : Before(c, y)
      <4>1. PICK i \in DOMAIN calls : c = calls[i]  BY <2>3 DEF Calls
      <4>2. c \in CallSet  BY <2>0, <4>1
      <4>3. QED  BY <2>3, <4>2 DEF OrderInv, HistoryOK
    <3>2. ASSUME NEW t \in Threads, NEW f \in Frames(t), f.op = "fan", f.msg = c.msg,
                 <<c.via, c.slot, c.nth>> \in f.todo
          PROVE  FALSE
      <4>1. PICK y : y = Ticket(c.slot, c.msg, c.nth, c.via)  OBVIOUS
      <4>2. y.slot = c.slot /\ y.msg = c.msg /\ y.nth = c.nth /\ y.via = c.via
        BY <4>1 DEF Ticket
      <4>3. y \in TicketSet  BY <3>1, <4>1 DEF Ticket, TicketSet, CallSet
      <4>4. y \in Ahead  BY <3>2, <4>2, <4>3 DEF Ahead
      <4>5. Before(c, y)  BY <3>1, <4>4
      <4>6. QED  BY <4>2, <4>5 DEF Before
    <3>3. ASSUME NEW t \in Loops, NEW i \in DOMAIN queue[t], queue[t][i].msg = c.msg,
                 \/ queue[t][i].to \in Signals
                 \/ /\ c.via = "queued" /\ queue[t][i].to = c.slot
                    /\ queue[t][i].nth = c.nth
          PROVE  FALSE
      <4>1. PICK e : e = queue[t][i]  OBVIOUS
      <4>2. e \in Events(t) /\ WaitOK(t, e)
        BY <3>3, <4>1 DEF Events, OrderInv, WaitsOK
      <4>3. CASE e.to \in Signals
        <5>1. c.msg \in DOMAIN sent /\ SameSender(c.msg, e.msg) /\ e.msg = c.msg
          BY <3>1, <3>3, <4>1 DEF Begun, SameSender
        <5>2. c.msg < c.msg  BY <3>1, <4>2, <4>3, <5>1 DEF Begun
        <5>3. c.msg \in Nat  BY <3>1 DEF CallSet
        <5>4. QED  BY <5>2, <5>3
      <4>4. CASE c.via = "queued" /\ e.to = c.slot /\ e.nth = c.nth
        <5>1. e.to \in Slots  BY <3>1, <4>4 DEF CallSet
        <5>2. Before(c, Waits(e))  BY <2>3, <4>2, <5>1 DEF WaitOK
        <5>3. QED  BY <3>3, <4>1, <4>4, <5>2 DEF Before, Waits, Ticket
      <4>5. QED  BY <3>3, <4>1, <4>3, <4>4
    <3>4. QED  BY <3>2, <3>3 DEF Awaited
  <2>4. QED  BY <2>2, <2>3 DEF OncePerConnection
<1>2. QED  BY <1>1, DispInvariance, OrderInvariance, PTL

-----------------------------------------------------------------------------
(* No call is lost.  A call that is due stands in a frame or in an event;  *)
(* every step that takes one of them away hands the call on.               *)

FrameThere(f) == \E t \in Threads : \E i \in DOMAIN stack[t] : stack[t][i] = f
EventThere(e) == \E t \in Loops : \E i \in DOMAIN queue[t] : queue[t][i] = e

DueInFrame(l, m, f) ==
  FrameThere(f) /\ f.op = "fan" /\ f.msg = m /\ \E x \in f.todo : x[2] = l

DueInEvent(l, m, e) ==
  /\ EventThere(e) /\ e.msg = m
  /\ e.to = l \/ (e.to \in Signals /\ \E x \in Todo(e.to) : x[2] = l)

LEMMA DueStands ==
  ASSUME NEW l, NEW m
  PROVE  Due(l, m) <=> (\E f : DueInFrame(l, m, f)) \/ (\E e : DueInEvent(l, m, e))
BY DEF Due, DueInFrame, DueInEvent, FrameThere, EventThere, Frames

LEMMA DueStandsNext ==
  ASSUME NEW l, NEW m, NEW f, DueInFrame(l, m, f)' \/ DueInEvent(l, m, f)'
  PROVE  Due(l, m)'
BY DEF Due, DueInFrame, DueInEvent, FrameThere, EventThere, Frames

LEMMA TailHas ==
  ASSUME NEW S, NEW q \in Seq(S), q # <<>>, NEW r, r = Tail(q), NEW j \in DOMAIN q
  PROVE  q[j] = Head(q) \/ \E i \in DOMAIN r : r[i] = q[j]
<1>1. r \in Seq(S) /\ Len(r) = Len(q) - 1 /\ Len(q) \in Nat /\ j \in 1..Len(q)
  OBVIOUS
<1>2. CASE j = 1  BY <1>2
<1>3. CASE j # 1
  <2>1. j - 1 \in DOMAIN r /\ r[j - 1] = q[j]  BY <1>1, <1>3
  <2>2. QED  BY <2>1
<1>4. QED  BY <1>2, <1>3

LEMMA AppendHas ==
  ASSUME NEW S, NEW q \in Seq(S), NEW x \in S, NEW r, r = Append(q, x)
  PROVE  /\ \E i \in DOMAIN r : r[i] = x
         /\ \A j \in DOMAIN q : \E i \in DOMAIN r : r[i] = q[j]
<1>1. r \in Seq(S) /\ Len(r) = Len(q) + 1 /\ Len(q) \in Nat /\ r[Len(q) + 1] = x
  OBVIOUS
<1>2. Len(q) + 1 \in DOMAIN r  BY <1>1
<1>3. ASSUME NEW j \in DOMAIN q PROVE j \in DOMAIN r /\ r[j] = q[j]  BY <1>1
<1>4. QED  BY <1>1, <1>2, <1>3

\* A new stack of one thread, and a new event list of one loop.
LEMMA FramesStay ==
  ASSUME Typed, NEW t \in Threads, NEW q, stack' = [stack EXCEPT ![t] = q],
         NEW f, FrameThere(f)
  PROVE  FrameThere(f)' \/ \E j \in DOMAIN stack[t] : stack[t][j] = f
<1>1. PICK u \in Threads : \E i \in DOMAIN stack[u] : stack[u][i] = f
  BY DEF FrameThere
<1>2. u # t => stack'[u] = stack[u]  BY DEF Typed
<1>3. QED  BY <1>1, <1>2 DEF FrameThere

LEMMA EventsStay ==
  ASSUME Typed, NEW t \in Loops, NEW q, queue' = [queue EXCEPT ![t] = q],
         NEW e, EventThere(e)
  PROVE  EventThere(e)' \/ \E j \in DOMAIN queue[t] : queue[t][j] = e
<1>1. PICK u \in Loops : \E i \in DOMAIN queue[u] : queue[u][i] = e
  BY DEF EventThere
<1>2. u # t => queue'[u] = queue[u]  BY DEF Typed
<1>3. QED  BY <1>1, <1>2 DEF EventThere

LEMMA PushHolds ==
  ASSUME Typed, NEW t \in Threads, NEW g \in FrameSet, Push(t, g)
  PROVE  FrameThere(g)' /\ \A f : FrameThere(f) => FrameThere(f)'
<1>0. PICK q : q = stack[t]  OBVIOUS
<1>1. PICK r : r = <<g>> \o q  OBVIOUS
<1>10. q \in Seq(FrameSet)  BY <1>0 DEF Typed
<1>11. r \in Seq(FrameSet) /\ Len(r) = Len(q) + 1 /\ Len(q) \in Nat /\ r[1] = g
  BY <1>1, <1>10
<1>12. ASSUME NEW j \in DOMAIN q PROVE j + 1 \in DOMAIN r /\ r[j + 1] = q[j]
  BY <1>1, <1>10, <1>11
<1>2. /\ \E i \in DOMAIN r : r[i] = g
      /\ \A j \in DOMAIN q : \E i \in DOMAIN r : r[i] = q[j]
  BY <1>11, <1>12
<1>3. stack' = [stack EXCEPT ![t] = r]  BY <1>0, <1>1 DEF Push
<1>4. stack'[t] = r  BY <1>3 DEF Typed
<1>5. ASSUME NEW f, FrameThere(f) PROVE FrameThere(f)'
  <2>1. FrameThere(f)' \/ \E j \in DOMAIN stack[t] : stack[t][j] = f
    BY <1>3, <1>5, FramesStay
  <2>2. QED  BY <1>0, <1>2, <1>4, <2>1 DEF FrameThere
<1>6. QED  BY <1>0, <1>2, <1>4, <1>5 DEF FrameThere

LEMMA CallHolds ==
  ASSUME Typed, NEW t \in Threads, stack[t] # <<>>, NEW g \in FrameSet, NEW h \in FrameSet,
         stack' = [stack EXCEPT ![t] = <<g, h>> \o Tail(@)]
  PROVE  /\ FrameThere(h)'
         /\ \A f : FrameThere(f) => FrameThere(f)' \/ f = Head(stack[t])
<1>0. PICK q : q = stack[t]  OBVIOUS
<1>1. PICK r : r = <<g, h>> \o Tail(q)  OBVIOUS
<1>10. q \in Seq(FrameSet)  BY <1>0 DEF Typed
<1>9. PICK z : z = Tail(q)  OBVIOUS
<1>11. z \in Seq(FrameSet) /\ Len(z) = Len(q) - 1 /\ z = Tail(q)  BY <1>0, <1>9, <1>10
<1>12. /\ r \in Seq(FrameSet) /\ Len(r) = Len(z) + 2 /\ Len(z) \in Nat /\ r[2] = h
       /\ \A k \in 1..Len(z) : r[k + 2] = z[k]
  BY <1>1, <1>11
<1>13. ASSUME NEW j \in DOMAIN q
       PROVE  q[j] = Head(q) \/ \E i \in DOMAIN r : r[i] = q[j]
  <2>1. j \in 1..Len(z) + 1 /\ (j # 1 => z[j - 1] = q[j])  BY <1>0, <1>10, <1>11
  <2>2. CASE j = 1  BY <1>0, <1>10, <2>2
  <2>3. CASE j # 1
    <3>1. j - 1 \in 1..Len(z) /\ (j - 1) + 2 = j + 1  BY <1>12, <2>1, <2>3
    <3>2. r[j + 1] = q[j]  BY <1>12, <2>1, <2>3, <3>1
    <3>3. j + 1 \in DOMAIN r  BY <1>12, <2>1, <2>3
    <3>4. QED  BY <3>2, <3>3
  <2>4. QED  BY <2>2, <2>3
<1>2. /\ \E i \in DOMAIN r : r[i] = h
      /\ \A j \in DOMAIN q : q[j] = Head(q) \/ \E i \in DOMAIN r : r[i] = q[j]
  BY <1>12, <1>13
<1>3. stack' = [stack EXCEPT ![t] = r]  BY <1>0, <1>1
<1>4. stack'[t] = r  BY <1>3 DEF Typed
<1>5. ASSUME NEW f, FrameThere(f) PROVE FrameThere(f)' \/ f = Head(stack[t])
  <2>1. FrameThere(f)' \/ \E j \in DOMAIN stack[t] : stack[t][j] = f
    BY <1>3, <1>5, FramesStay
  <2>2. QED  BY <1>0, <1>2, <1>4, <2>1 DEF FrameThere
<1>6. QED  BY <1>0, <1>2, <1>4, <1>5 DEF FrameThere

LEMMA PopHolds ==
  ASSUME Typed, NEW t \in Threads, stack[t] # <<>>, Pop(t), NEW f, FrameThere(f)
  PROVE  FrameThere(f)' \/ f = Head(stack[t])
<1>0. PICK q : q = stack[t]  OBVIOUS
<1>1. PICK r : r = Tail(q)  OBVIOUS
<1>10. q \in Seq(FrameSet)  BY <1>0 DEF Typed
<1>2. \A j \in DOMAIN q :
        q[j] = Head(q) \/ \E i \in DOMAIN r : r[i] = q[j]
  BY <1>0, <1>1, <1>10, TailHas
<1>3. stack' = [stack EXCEPT ![t] = r]  BY <1>0, <1>1 DEF Pop
<1>4. stack'[t] = r  BY <1>3 DEF Typed
<1>5. FrameThere(f)' \/ \E j \in DOMAIN stack[t] : stack[t][j] = f  BY <1>3, FramesStay
<1>6. QED  BY <1>0, <1>2, <1>4, <1>5 DEF FrameThere

LEMMA AddHolds ==
  ASSUME Typed, NEW t \in Loops, NEW e \in EventSet,
         queue' = [queue EXCEPT ![t] = Append(@, e)]
  PROVE  EventThere(e)' /\ \A d : EventThere(d) => EventThere(d)'
<1>0. PICK q : q = queue[t]  OBVIOUS
<1>1. PICK r : r = Append(q, e)  OBVIOUS
<1>10. q \in Seq(EventSet)  BY <1>0 DEF Typed
<1>2. /\ \E i \in DOMAIN r : r[i] = e
      /\ \A j \in DOMAIN q : \E i \in DOMAIN r : r[i] = q[j]
  BY <1>0, <1>1, <1>10, AppendHas
<1>3. queue' = [queue EXCEPT ![t] = r]  BY <1>0, <1>1
<1>4. queue'[t] = r  BY <1>3 DEF Typed
<1>5. ASSUME NEW d, EventThere(d) PROVE EventThere(d)'
  <2>1. EventThere(d)' \/ \E j \in DOMAIN queue[t] : queue[t][j] = d
    BY <1>3, <1>5, EventsStay
  <2>2. QED  BY <1>0, <1>2, <1>4, <2>1 DEF EventThere
<1>6. QED  BY <1>0, <1>2, <1>4, <1>5 DEF EventThere

LEMMA RemoveHolds ==
  ASSUME Typed, NEW t \in Loops, queue[t] # <<>>, queue' = [queue EXCEPT ![t] = Tail(@)],
         NEW e, EventThere(e)
  PROVE  EventThere(e)' \/ e = Head(queue[t])
<1>0. PICK q : q = queue[t]  OBVIOUS
<1>1. PICK r : r = Tail(q)  OBVIOUS
<1>10. q \in Seq(EventSet)  BY <1>0 DEF Typed
<1>2. \A j \in DOMAIN q :
        q[j] = Head(q) \/ \E i \in DOMAIN r : r[i] = q[j]
  BY <1>0, <1>1, <1>10, TailHas
<1>3. queue' = [queue EXCEPT ![t] = r]  BY <1>0, <1>1
<1>4. queue'[t] = r  BY <1>3 DEF Typed
<1>5. EventThere(e)' \/ \E j \in DOMAIN queue[t] : queue[t][j] = e  BY <1>3, EventsStay
<1>6. ASSUME NEW j \in DOMAIN q, q[j] = e PROVE EventThere(e)' \/ e = Head(q)
  BY <1>2, <1>4, <1>6 DEF EventThere
<1>7. QED  BY <1>0, <1>5, <1>6

\* What stands where it stood, or was handed on, is still due.
LEMMA FrameStillDue ==
  ASSUME NEW l, NEW m, NEW f, DueInFrame(l, m, f), FrameThere(f)'
  PROVE  Due(l, m)'
<1>1. DueInFrame(l, m, f)'  BY DEF DueInFrame
<1>2. QED  BY <1>1, DueStandsNext

LEMMA EventStillDue ==
  ASSUME UNCHANGED connVars, NEW l, NEW m, NEW e, DueInEvent(l, m, e), EventThere(e)'
  PROVE  Due(l, m)'
<1>1. e.to \in Signals => Todo(e.to)' = Todo(e.to)  BY TodoKept
<1>2. DueInEvent(l, m, e)'  BY <1>1 DEF DueInEvent
<1>3. QED  BY <1>2, DueStandsNext

\* Of the calls a frame has left, all but the one that is made are still due.
LEMMA OthersStillDue ==
  ASSUME NEW l, NEW m, NEW f, NEW x, NEW y \in f.todo, y # x, y[2] = l,
         f.msg = m, f \in FanSet, FrameThere([f EXCEPT !.todo = @ \ {x}])'
  PROVE  Due(l, m)'
<1>1. PICK g : g = [f EXCEPT !.todo = @ \ {x}]  OBVIOUS
<1>2. g.op = "fan" /\ g.msg = m /\ y \in g.todo  BY <1>1 DEF FanSet
<1>3. DueInFrame(l, m, g)'  BY <1>1, <1>2 DEF DueInFrame
<1>4. QED  BY <1>3, DueStandsNext

LEMMA CallMade ==
  ASSUME Typed, NEW c \in CallSet, calls' = Append(calls, c)
  PROVE  Called(c.slot, c.msg)'
<1>1. PICK q : q = calls'  OBVIOUS
<1>2. \E i \in DOMAIN q : q[i] = c  BY <1>1, AppendHas DEF Typed
<1>3. QED  BY <1>1, <1>2 DEF Called, Calls

LEMMA EmitLosesNone ==
  ASSUME DispInv, NEW t \in Threads, NEW s \in Signals, Emit(t, s),
         NEW l, NEW m, Due(l, m)
  PROVE  Due(l, m)'
<1> USE DEF DispInv
<1>0. UNCHANGED connVars /\ sent \in Seq(SentSet)  BY DEF Emit, Typed
<1>1. PICK n \in Nat, e \in EventSet :
        /\ n = Len(sent) + 1 /\ e = Event(s, n, 1, TRUE)
        /\ IF Home[s] \in Loops \ {t}
           THEN /\ queue' = [queue EXCEPT ![Home[s]] = Append(@, e)]
                /\ Push(t, Post(e))
           ELSE Push(t, Fan(s, n, TRUE, Todo(s))) /\ UNCHANGED queue
  <2>1. Len(sent) + 1 \in Nat  BY <1>0
  <2>2. Event(s, Len(sent) + 1, 1, TRUE) \in EventSet
    BY <2>1 DEF Event, EventSet, Objects
  <2>3. QED  BY <2>1, <2>2 DEF Emit, AddEvent
<1>2. PICK g \in FrameSet : Push(t, g)
  <2>1. Post(e) \in FrameSet  BY DEF Post, FrameSet, PostSet
  <2>2. Fan(s, n, TRUE, Todo(s)) \in FrameSet  BY TodoFacts DEF Fan, FrameSet, FanSet
  <2>3. QED  BY <1>1, <2>1, <2>2
<1>3. ASSUME NEW f, DueInFrame(l, m, f) PROVE Due(l, m)'
  <2>1. FrameThere(f)'  BY <1>2, <1>3, PushHolds DEF DueInFrame
  <2>2. QED  BY <1>3, <2>1, FrameStillDue
<1>4. ASSUME NEW d, DueInEvent(l, m, d) PROVE Due(l, m)'
  <2>1. EventThere(d)  BY <1>4 DEF DueInEvent
  <2>2. EventThere(d)'
    <3>1. CASE Home[s] \in Loops \ {t}  BY <1>1, <2>1, <3>1, AddHolds
    <3>2. CASE Home[s] \notin Loops \ {t}  BY <1>1, <2>1, <3>2 DEF EventThere
    <3>3. QED  BY <3>1, <3>2
  <2>3. QED  BY <1>0, <1>4, <2>2, EventStillDue
<1>5. QED  BY <1>3, <1>4, DueStands

LEMMA FanDirectLosesNone ==
  ASSUME DispInv, NEW t \in Threads, FanDirect(t), NEW l, NEW m, Due(l, m)
  PROVE  Due(l, m)' \/ Called(l, m)'
<1> USE DEF DispInv
<1>0. UNCHANGED connVars /\ UNCHANGED queue /\ Top(t, "fan")  BY DEF FanDirect
<1>20. PICK f : f = Head(stack[t])  OBVIOUS
<1>1. PICK x \in f.todo :
        /\ stack' = [stack EXCEPT ![t] = <<Body(x[2], f.msg), [f EXCEPT !.todo = @ \ {x}]>>
                                         \o Tail(@)]
        /\ calls' = Append(calls, [slot |-> x[2], msg |-> f.msg, thread |-> t,
                                   via |-> "direct", nth |-> x[3], fresh |-> f.fresh])
  BY <1>20 DEF FanDirect
<1>2. f \in FanSet /\ stack[t] # <<>>  BY <1>0, <1>20, FanFacts
<1>3. x[2] \in Slots /\ x[3] \in 1..MaxConn /\ f.msg \in Nat /\ f.fresh \in BOOLEAN
  BY <1>0, <1>20, <1>1, <1>2, FanFacts DEF FanSet, TodoSet
<1>4. PICK b \in FrameSet : b = Body(x[2], f.msg)
  BY <1>3 DEF Body, BodySet, FrameSet
<1>5. PICK g \in FrameSet : g = [f EXCEPT !.todo = @ \ {x}]
  BY <1>0, <1>20, <1>1, FanFacts
<1>6. FrameThere(g)' /\ \A h : FrameThere(h) => FrameThere(h)' \/ h = f
  BY <1>1, <1>2, <1>4, <1>5, <1>20, CallHolds
<1>7. Called(x[2], f.msg)'
  <2>1. PICK c : c = [slot |-> x[2], msg |-> f.msg, thread |-> t,
                      via |-> "direct", nth |-> x[3], fresh |-> f.fresh]
    OBVIOUS
  <2>2. c \in CallSet /\ c.slot = x[2] /\ c.msg = f.msg  BY <1>3, <2>1 DEF CallSet
  <2>3. QED  BY <1>1, <2>1, <2>2, CallMade
<1>8. ASSUME NEW h, DueInFrame(l, m, h) PROVE Due(l, m)' \/ Called(l, m)'
  <2>1. CASE FrameThere(h)'  BY <1>8, <2>1, FrameStillDue
  <2>2. CASE h = f
    <3>1. PICK y \in f.todo : y[2] = l /\ f.msg = m  BY <1>8, <2>2 DEF DueInFrame
    <3>2. CASE y = x  BY <1>7, <3>1, <3>2
    <3>3. CASE y # x  BY <1>2, <1>5, <1>6, <3>1, <3>3, OthersStillDue
    <3>4. QED  BY <3>2, <3>3
  <2>3. QED  BY <1>6, <1>8, <2>1, <2>2 DEF DueInFrame
<1>9. ASSUME NEW e, DueInEvent(l, m, e) PROVE Due(l, m)'
  <2>1. EventThere(e)'  BY <1>0, <1>9 DEF DueInEvent, EventThere
  <2>2. QED  BY <1>0, <1>9, <2>1, EventStillDue
<1>10. QED  BY <1>8, <1>9, DueStands

LEMMA FanQueuedLosesNone ==
  ASSUME DispInv, NEW t \in Threads, FanQueued(t), NEW l, NEW m, Due(l, m)
  PROVE  Due(l, m)' \/ thrown'
<1> USE DEF DispInv
<1>0. UNCHANGED connVars /\ Top(t, "fan")  BY DEF FanQueued
<1>20. PICK f : f = Head(stack[t])  OBVIOUS
<1>1. SUFFICES ASSUME ~thrown' PROVE Due(l, m)'
  OBVIOUS
<1>11. PICK x, e :
        /\ x \in f.todo
        /\ e = Event(x[2], f.msg, x[3], f.fresh)
        /\ Home[x[2]] \in Loops
        /\ queue' = [queue EXCEPT ![Home[x[2]]] = Append(@, e)]
        /\ stack' = [stack EXCEPT ![t] = <<Post(e), [f EXCEPT !.todo = @ \ {x}]>> \o Tail(@)]
  BY <1>1, <1>20 DEF FanQueued, AddEvent
<1>2. f \in FanSet /\ stack[t] # <<>>  BY <1>0, <1>20, FanFacts
<1>3. x[2] \in Slots /\ x[3] \in Nat /\ f.msg \in Nat /\ f.fresh \in BOOLEAN
  BY <1>0, <1>20, <1>11, <1>2, FanFacts DEF FanSet, TodoSet
<1>4. e \in EventSet /\ e.to = x[2] /\ e.msg = f.msg
  BY <1>11, <1>3 DEF Event, EventSet, Objects
<1>5. PICK b \in FrameSet, g \in FrameSet : b = Post(e) /\ g = [f EXCEPT !.todo = @ \ {x}]
  <2>1. Post(e) \in FrameSet  BY <1>4 DEF Post, PostSet, FrameSet
  <2>2. QED  BY <1>0, <1>20, <1>11, <2>1, FanFacts
<1>6. FrameThere(g)' /\ \A h : FrameThere(h) => FrameThere(h)' \/ h = f
  BY <1>11, <1>2, <1>5, <1>20, CallHolds
<1>7. EventThere(e)' /\ \A d : EventThere(d) => EventThere(d)'
  BY <1>11, <1>4, AddHolds
<1>8. ASSUME NEW h, DueInFrame(l, m, h) PROVE Due(l, m)'
  <2>1. CASE FrameThere(h)'  BY <1>8, <2>1, FrameStillDue
  <2>2. CASE h = f
    <3>1. PICK y \in f.todo : y[2] = l /\ f.msg = m  BY <1>8, <2>2 DEF DueInFrame
    <3>2. CASE y = x
      <4>1. DueInEvent(l, m, e)'  BY <1>4, <1>7, <3>1, <3>2 DEF DueInEvent
      <4>2. QED  BY <4>1, DueStandsNext
    <3>3. CASE y # x  BY <1>2, <1>5, <1>6, <3>1, <3>3, OthersStillDue
    <3>4. QED  BY <3>2, <3>3
  <2>3. QED  BY <1>6, <1>8, <2>1, <2>2 DEF DueInFrame
<1>9. ASSUME NEW d, DueInEvent(l, m, d) PROVE Due(l, m)'
  <2>1. EventThere(d)'  BY <1>7, <1>9 DEF DueInEvent
  <2>2. QED  BY <1>0, <1>9, <2>1, EventStillDue
<1>10. QED  BY <1>8, <1>9, DueStands

LEMMA ReturnLosesNone ==
  ASSUME DispInv, NEW t \in Threads, Return(t), NEW l, NEW m, Due(l, m)
  PROVE  Due(l, m)'
<1>1. /\ UNCHANGED connVars /\ UNCHANGED queue /\ stack[t] # <<>> /\ Pop(t) /\ Typed
      /\ Head(stack[t]).op = "fan" => Head(stack[t]).todo = {}
  BY DEF Return, Top, DispInv
<1>2. ASSUME NEW f, DueInFrame(l, m, f) PROVE Due(l, m)'
  <2>1. f # Head(stack[t]) /\ FrameThere(f)  BY <1>1, <1>2 DEF DueInFrame
  <2>2. FrameThere(f)'  BY <1>1, <2>1, PopHolds
  <2>3. QED  BY <1>2, <2>2, FrameStillDue
<1>3. ASSUME NEW e, DueInEvent(l, m, e) PROVE Due(l, m)'
  <2>1. EventThere(e)'  BY <1>1, <1>3 DEF DueInEvent, EventThere
  <2>2. QED  BY <1>1, <1>3, <2>1, EventStillDue
<1>4. QED  BY <1>2, <1>3, DueStands

\* An event that is taken fans out, calls its slot, or was for an object that
\* is gone: the slot, or a signal, whose connections went with it.
LEMMA RunEventLosesNone ==
  ASSUME DispInv, NEW t \in Loops, RunEvent(t), NEW l \in Slots, NEW m, Due(l, m)
  PROVE  Due(l, m)' \/ Called(l, m)' \/ Severed(l, m)'
<1> USE DEF DispInv
<1>0. /\ UNCHANGED connVars /\ alive' = alive /\ t \in Threads
      /\ queue[t] # <<>> /\ queue' = [queue EXCEPT ![t] = Tail(@)]
  BY DEF RunEvent, connVars, Threads
<1>2. PICK e : e = Head(queue[t])  OBVIOUS
<1>3. e \in EventSet /\ EventOK(t, e)
  <2>1. queue[t] \in Seq(EventSet)  BY DEF Typed
  <2>2. 1 \in DOMAIN queue[t] /\ e = queue[t][1] /\ e \in EventSet
    BY <1>0, <1>2, <2>1, TailFacts
  <2>3. QED  BY <2>2 DEF EventsOK
<1>4. PICK ok \in BOOLEAN :
        \/ e.to \notin alive /\ UNCHANGED <<stack, calls>>
        \/ /\ e.to \in alive \cap Signals
           /\ Push(t, Fan(e.to, e.msg, ok, Todo(e.to)))
        \/ /\ e.to \in alive \cap Slots
           /\ Push(t, Body(e.to, e.msg))
           /\ calls' = Append(calls, [slot |-> e.to, msg |-> e.msg, thread |-> t,
                                      via |-> "queued", nth |-> e.nth, fresh |-> ok])
  <2>1. (e.fresh /\ Intact(e)) \in BOOLEAN  BY Zenon
  <2>2. QED  BY <1>2, <2>1 DEF RunEvent
<1>5. e.msg \in Nat /\ e.to \in Objects /\ (e.to \in Slots => e.nth \in 1..MaxConn)
  BY <1>3 DEF EventSet, EventOK
<1>6. e.to \in Signals => Fan(e.to, e.msg, ok, Todo(e.to)) \in FrameSet
  BY <1>5, TodoFacts DEF Fan, FrameSet, FanSet
<1>7. e.to \in Slots => Body(e.to, e.msg) \in FrameSet
  BY <1>5 DEF Body, FrameSet, BodySet
<1>8. ASSUME NEW f, DueInFrame(l, m, f) PROVE Due(l, m)'
  <2>1. FrameThere(f)  BY <1>8 DEF DueInFrame
  <2>2. FrameThere(f)'
    <3>1. CASE UNCHANGED stack  BY <2>1, <3>1 DEF FrameThere
    <3>2. CASE \E g \in FrameSet : Push(t, g)  BY <1>0, <2>1, <3>2, PushHolds
    <3>3. QED  BY <1>4, <1>6, <1>7, <3>1, <3>2
  <2>3. QED  BY <1>8, <2>2, FrameStillDue
<1>9. ASSUME DueInEvent(l, m, e)
      PROVE  Due(l, m)' \/ Called(l, m)' \/ Severed(l, m)'
  <2>1. CASE e.to \notin alive
    <3>1. CASE e.to = l  BY <1>0, <2>1, <3>1 DEF Severed
    <3>2. CASE e.to \in Signals /\ \E x \in Todo(e.to) : x[2] = l
      <4>1. direct[<<e.to, l>>] + queued[<<e.to, l>>] > 0  BY <3>2, TodoFacts
      <4>20. PICK p : p = <<e.to, l>>  OBVIOUS
      <4>2. p \in Pairs /\ p = <<e.to, l>> /\ p[1] = e.to  BY <3>2, <4>20 DEF Pairs
      <4>3. direct[p] + queued[p] + back[p] > 0
        <5>1. direct[p] \in Nat /\ queued[p] \in Nat /\ back[p] \in Nat
          <6>1. MaxConn \in Nat  BY ConnectionsAssumption
          <6>2. QED  BY <4>2, <6>1 DEF ConnInv, TypeOK
        <5>2. QED  BY <4>1, <4>2, <5>1
      <4>4. e.to \in alive  BY <4>2, <4>3 DEF ConnInv, NoDangling
      <4>5. QED  BY <2>1, <4>4
    <3>3. QED  BY <1>9, <3>1, <3>2 DEF DueInEvent
  <2>2. CASE e.to \in alive \cap Signals /\ Push(t, Fan(e.to, e.msg, ok, Todo(e.to)))
    <3>1. \E x \in Todo(e.to) : x[2] = l
      BY <1>9, <2>2, ConnectionsAssumption DEF DueInEvent
    <3>2. PICK g \in FrameSet : g = Fan(e.to, e.msg, ok, Todo(e.to))  BY <1>6, <2>2
    <3>3. FrameThere(g)'  BY <1>0, <2>2, <3>2, PushHolds
    <3>4. g.op = "fan" /\ g.msg = m /\ g.todo = Todo(e.to)
      BY <1>9, <3>2 DEF Fan, DueInEvent
    <3>5. DueInFrame(l, m, g)'  BY <3>1, <3>3, <3>4 DEF DueInFrame
    <3>6. QED  BY <3>5, DueStandsNext
  <2>3. CASE /\ e.to \in Slots
             /\ calls' = Append(calls, [slot |-> e.to, msg |-> e.msg, thread |-> t,
                                        via |-> "queued", nth |-> e.nth, fresh |-> ok])
    <3>1. e.to = l /\ e.msg = m  BY <1>9, <2>3, ConnectionsAssumption DEF DueInEvent
    <3>2. PICK c \in CallSet : /\ c = [slot |-> e.to, msg |-> e.msg, thread |-> t,
                                       via |-> "queued", nth |-> e.nth, fresh |-> ok]
                               /\ c.slot = e.to /\ c.msg = e.msg
      BY <1>0, <1>5, <2>3 DEF CallSet
    <3>3. QED  BY <2>3, <3>1, <3>2, CallMade
  <2>4. QED  BY <1>4, <2>1, <2>2, <2>3
<1>10. ASSUME NEW d, DueInEvent(l, m, d), d # e PROVE Due(l, m)'
  <2>1. EventThere(d)'  BY <1>0, <1>2, <1>10, RemoveHolds DEF DueInEvent
  <2>2. QED  BY <1>0, <1>10, <2>1, EventStillDue
<1>11. QED  BY <1>8, <1>9, <1>10, DueStands

\* A change may take connections away from a signal that an event is on its
\* way to; the call stays due as long as one connection is left.
LEMMA ChangeLosesNone ==
  ASSUME DispInv, NEW t \in Threads, Change(t), NEW l \in Slots, NEW m, Due(l, m)
  PROVE  Due(l, m)' \/ Severed(l, m)'
<1>0. UNCHANGED <<queue, stack, sent>> /\ ConnInv'
  BY ChangeConn DEF Change, DispInv
<1>1. ASSUME NEW f, DueInFrame(l, m, f) PROVE Due(l, m)'
  <2>1. FrameThere(f)'  BY <1>0, <1>1 DEF DueInFrame, FrameThere
  <2>2. QED  BY <1>1, <2>1, FrameStillDue
<1>2. ASSUME NEW e, DueInEvent(l, m, e) PROVE Due(l, m)' \/ Severed(l, m)'
  <2>1. EventThere(e)'  BY <1>0, <1>2 DEF DueInEvent, EventThere
  <2>2. CASE e.to = l
    <3>1. DueInEvent(l, m, e)'  BY <1>2, <2>1, <2>2 DEF DueInEvent
    <3>2. QED  BY <3>1, DueStandsNext
  <2>3. CASE e.to \in Signals
    <3>1. PICK u \in Loops : EventOK(u, e)
      BY <1>2 DEF DueInEvent, EventThere, DispInv, EventsOK
    <3>2. /\ m \in DOMAIN sent /\ sent[m].sig = e.to /\ Home[e.to] # NoParent
      BY <1>2, <2>3, <3>1, ConnectionsAssumption DEF EventOK, DueInEvent, Threads
    <3>3. PICK p \in Pairs : p = <<e.to, l>>  BY <2>3 DEF Pairs
    <3>4. direct'[p] \in 0..MaxConn /\ queued'[p] \in 0..MaxConn /\ MaxConn \in Nat
      BY <1>0, ConnectionsAssumption DEF ConnInv, TypeOK
    <3>5. CASE direct'[p] + queued'[p] = 0
      BY <1>0, <3>2, <3>3, <3>5 DEF Severed
    <3>6. CASE direct'[p] >= 1
      <4>1. <<"direct", l, 1>> \in Todo(e.to)'  BY <3>3, <3>4, <3>6 DEF Todo
      <4>2. DueInEvent(l, m, e)'  BY <1>2, <2>1, <2>3, <4>1 DEF DueInEvent
      <4>3. QED  BY <4>2, DueStandsNext
    <3>7. CASE queued'[p] >= 1
      <4>1. <<"queued", l, 1>> \in Todo(e.to)'  BY <3>2, <3>3, <3>4, <3>7 DEF Todo
      <4>2. DueInEvent(l, m, e)'  BY <1>2, <2>1, <2>3, <4>1 DEF DueInEvent
      <4>3. QED  BY <4>2, DueStandsNext
    <3>8. QED  BY <3>4, <3>5, <3>6, <3>7
  <2>4. QED  BY <1>2, <2>2, <2>3 DEF DueInEvent
<1>3. QED  BY <1>1, <1>2, DueStands

\* The safety half of EveryCallMade: emit, callDirectConnections,
\* callQueuedConnections, addEventToParent and the loops hand every call on,
\* until it is made, its slot or its connection is gone, or emit has thrown.
THEOREM DispatchNoCallLost == DispatchSpec => NoCallLost
<1>1. DispInv /\ [DispatchNext]_allVars =>
        [\A l \in Slots, m \in 1..MaxEmits :
           Due(l, m) => Due(l, m)' \/ Called(l, m)' \/ Severed(l, m)' \/ thrown']_allVars
  <2> SUFFICES ASSUME DispInv, DispatchNext, NEW l \in Slots, NEW m \in 1..MaxEmits, Due(l, m)
               PROVE  Due(l, m)' \/ Called(l, m)' \/ Severed(l, m)' \/ thrown'
    OBVIOUS
  <2>1. ASSUME NEW t \in Threads, Step(t)
        PROVE  Due(l, m)' \/ Called(l, m)' \/ Severed(l, m)' \/ thrown'
    BY <2>1, FanDirectLosesNone, FanQueuedLosesNone, ReturnLosesNone DEF Step
  <2>2. QED
    BY <2>1, EmitLosesNone, ChangeLosesNone, RunEventLosesNone DEF DispatchNext
<1>2. QED  BY <1>1, DispInvariance, PTL DEF DispatchSpec, NoCallLost
=============================================================================
