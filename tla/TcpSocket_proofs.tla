--------------------------- MODULE TcpSocket_proofs ---------------------------
(***************************************************************************)
(* What holds of a TcpSocket for any set of threads, any size of a block   *)
(* and any amount of data: its type, that the stream arrives intact and    *)
(* announced, that a connected object owns its descriptor, and that the    *)
(* socket implements a stream of data.                                     *)
(***************************************************************************)
EXTENDS TcpSocket, SequenceTheorems, TLAPS

\* The first n units of data.
Units(n) == [i \in 1..n |-> i]

All == (taken \o buffer) \o unread

\* Wherever the data is, in order it is what was sent; while the connection
\* stands all of it is there.  A peer there is only of a connected object.
StreamInv ==
  /\ All = Units(Len(All))
  /\ file = "open" /\ peer \in {"open", "fin"} => Len(All) = sent
  /\ peer # "none" => connected

\* In the middle of readFromSocket data may still have to be announced.
AnnouncedInv == buffer # <<>> => announced \/ (server = "recv" /\ received)

Inv == TypeOK /\ OwnDescriptor /\ StreamInv /\ AnnouncedInv

-----------------------------------------------------------------------------
\* Data that is joined in any order of joining.
LEMMA Joining ==
  \A s, t, u \in Seq(Nat) : (s \o t) \o u = s \o (t \o u)
<1> TAKE s, t, u \in Seq(Nat)
<1> QED
  OBVIOUS

\* Nothing joined to the end changes nothing.
LEMMA JoiningNone ==
  \A s \in Seq(Nat) : s \o <<>> = s
<1> TAKE s \in Seq(Nat)
<1> QED
  OBVIOUS

\* Data that goes from one place to the next leaves the whole as it is.
LEMMA MovedData ==
  \A t, b, u \in Seq(Nat) : \A n \in 1..Len(u) :
    (t \o (b \o SubSeq(u, 1, n))) \o SubSeq(u, n + 1, Len(u)) = (t \o b) \o u
<1> TAKE t, b, u \in Seq(Nat)
<1> TAKE n \in 1..Len(u)
<1> DEFINE v == SubSeq(u, 1, n)
           w == SubSeq(u, n + 1, Len(u))
<1>1. v \in Seq(Nat) /\ w \in Seq(Nat)
  OBVIOUS
<1>2. v \o w = u
  <2>1. 1 \in 1..Len(u) + 1 /\ n \in 0..Len(u) /\ Len(u) \in n..Len(u)
    BY LenProperties
  <2>2. v \o w = SubSeq(u, 1, Len(u))
    BY <2>1, ConcatAdjacentSubSeq
  <2> QED
    BY <2>2
<1> HIDE DEF v, w
<1>3. b \o v \in Seq(Nat)
  BY <1>1
<1>4. (t \o (b \o v)) \o w = t \o ((b \o v) \o w)
  BY <1>1, <1>3, Joining, Zenon
<1>5. (b \o v) \o w = b \o (v \o w)
  BY <1>1, Joining, Zenon
<1>6. t \o (b \o u) = (t \o b) \o u
  BY Joining, Zenon
<1>7. (t \o (b \o v)) \o w = (t \o b) \o u
  BY <1>2, <1>4, <1>5, <1>6, Zenon
<1> QED
  BY <1>7 DEF v, w

\* A new unit at the end of what was sent.
LEMMA NewData ==
  ASSUME NEW g \in Seq(Nat), NEW u \in Seq(Nat), NEW n \in Nat,
         g \o u = Units(Len(g \o u)), Len(g \o u) = n
  PROVE  /\ Append(u, n + 1) \in Seq(Nat)
         /\ g \o Append(u, n + 1) = Units(n + 1)
         /\ Len(g \o Append(u, n + 1)) = n + 1
<1>1. g \o Append(u, n + 1) = Append(g \o u, n + 1)
  OBVIOUS
<1>2. Append(Units(n), n + 1) = Units(n + 1)
  BY DEF Units
<1>3. Len(Units(n + 1)) = n + 1
  BY DEF Units
<1>4. Append(u, n + 1) \in Seq(Nat)
  BY n + 1 \in Nat
<1> QED
  BY <1>1, <1>2, <1>3, <1>4

\* The first part of the data is itself in order.
LEMMA FirstData ==
  ASSUME NEW g \in Seq(Nat), NEW u \in Seq(Nat), g \o u = Units(Len(g \o u))
  PROVE  g = Units(Len(g)) /\ g \o <<>> = g
<1>1. Len(g \o u) = Len(g) + Len(u) /\ \A i \in 1..Len(g) : (g \o u)[i] = g[i]
  OBVIOUS
<1>2. ASSUME NEW i \in 1..Len(g)
      PROVE  g[i] = i
  <2>1. i \in 1..Len(g \o u)
    BY <1>1
  <2>2. Units(Len(g \o u))[i] = i
    BY <2>1 DEF Units
  <2> QED
    BY <1>1, <2>2, Zenon
<1>3. g = Units(Len(g))
  BY <1>1, <1>2 DEF Units
<1>4. g \o <<>> = g
  BY JoiningNone, Zenon
<1> QED
  BY <1>3, <1>4

-----------------------------------------------------------------------------
\* No step changes the type of a variable.
LEMMA TypeStep ==
  ASSUME Inv, [Next]_vars
  PROVE  TypeOK'
<1> USE TcpSocketAssumption DEF TypeOK, netVars, objectVars, dataVars, serverVars
<1> SUFFICES ASSUME TypeOK, [Next]_vars PROVE TypeOK'
  BY DEF Inv
<1>0. <<>> \in Seq(Nat)
  OBVIOUS
<1>1. CASE Environment
  <2>1. CASE Send
    <3>1. Append(unread, sent + 1) \in Seq(Nat)
      OBVIOUS
    <3> QED
      BY <2>1, <3>1 DEF Send
  <2>2. CASE Leave
    BY <1>0, <2>2 DEF Leave
  <2>3. CASE GiveAway \/ Forget
    BY <2>3 DEF GiveAway, Forget
  <2> QED
    BY <1>1, <2>1, <2>2, <2>3 DEF Environment
<1>2. CASE RecvData
  <2> DEFINE n == IF Len(unread) < Block THEN Len(unread) ELSE Block
  <2>1. n \in 1..Len(unread)
    BY <1>2 DEF RecvData
  <2>2. buffer' = buffer \o SubSeq(unread, 1, n) /\ unread' = SubSeq(unread, n + 1, Len(unread))
    BY <1>2 DEF RecvData
  <2>3. buffer' \in Seq(Nat) /\ unread' \in Seq(Nat)
    BY <2>1, <2>2
  <2> QED
    BY <1>2, <2>3 DEF RecvData, Return
<1>3. CASE Poll \/ RecvEnd \/ RecvError
  BY <1>0, <1>3 DEF Poll, RecvEnd, RecvError, HangUp, Return
<1>4. ASSUME NEW u \in Users, NEW method \in Calls, Call(u, method)
      PROVE  TypeOK'
  BY <1>4 DEF Call
<1>5. ASSUME NEW u \in Users, Method(u)
      PROVE  TypeOK'
  <2>1. at' \in [Users -> Calls \cup {"out"}]
    BY <1>5 DEF Method, Runs, Read, Write, Connect, Disconnect, SetSocketDescriptor, Destroy
  <2>2. CASE Read(u)
    <3>1. taken \o buffer \in Seq(Nat) /\ <<>> \in Seq(Nat)
      OBVIOUS
    <3> QED
      BY <2>1, <2>2, <3>1 DEF Read, Runs
  <2>3. CASE Write(u)
    BY <1>0, <2>1, <2>3 DEF Write, Runs
  <2>4. CASE Connect(u)
    BY <2>1, <2>4 DEF Connect, Runs
  <2>5. CASE Disconnect(u)
    BY <1>0, <2>1, <2>5 DEF Disconnect, Runs, HangUp
  <2>6. CASE SetSocketDescriptor(u)
    BY <2>1, <2>6 DEF SetSocketDescriptor, Runs
  <2>7. CASE Destroy(u)
    BY <1>0, <2>1, <2>7 DEF Destroy, Runs, HangUp
  <2> QED
    BY <1>5, <2>2, <2>3, <2>4, <2>5, <2>6, <2>7 DEF Method
<1>6. CASE UNCHANGED vars
  BY <1>6 DEF vars
<1> QED
  BY <1>1, <1>2, <1>3, <1>4, <1>5, <1>6 DEF Next, Server

\* The descriptor is closed together with the status.
LEMMA OwnDescriptorStep ==
  ASSUME Inv, [Next]_vars
  PROVE  OwnDescriptor'
<1> USE DEF Inv, TypeOK, OwnDescriptor, netVars, objectVars, dataVars, serverVars
<1>1. CASE Environment
  BY <1>1 DEF Environment, Send, Leave, GiveAway, Forget
<1>2. CASE Server
  BY <1>2 DEF Server, Poll, RecvData, RecvEnd, RecvError, HangUp
<1>3. ASSUME NEW u \in Users, NEW method \in Calls, Call(u, method)
      PROVE  OwnDescriptor'
  BY <1>3 DEF Call
<1>4. ASSUME NEW u \in Users, Method(u)
      PROVE  OwnDescriptor'
  BY <1>4 DEF Method, Read, Write, Connect, Disconnect, SetSocketDescriptor, Destroy, HangUp
<1>5. CASE UNCHANGED vars
  BY <1>5 DEF vars
<1> QED
  BY <1>1, <1>2, <1>3, <1>4, <1>5 DEF Next

\* What readFromSocket has received it announces before it lets go of _mutex.
LEMMA AnnouncedStep ==
  ASSUME Inv, [Next]_vars
  PROVE  AnnouncedInv'
<1> USE DEF Inv, TypeOK, AnnouncedInv, netVars, objectVars, dataVars, serverVars
<1>1. CASE Environment
  BY <1>1 DEF Environment, Send, Leave, GiveAway, Forget
<1>2. CASE Server
  BY <1>2 DEF Server, Poll, RecvData, RecvEnd, RecvError, Return
<1>3. ASSUME NEW u \in Users, NEW method \in Calls, Call(u, method)
      PROVE  AnnouncedInv'
  BY <1>3 DEF Call
<1>4. ASSUME NEW u \in Users, Method(u)
      PROVE  AnnouncedInv'
  BY <1>4 DEF Method, Read, Write, Connect, Disconnect, SetSocketDescriptor, Destroy
<1>5. CASE UNCHANGED vars
  BY <1>5 DEF vars
<1> QED
  BY <1>1, <1>2, <1>3, <1>4, <1>5 DEF Next

-----------------------------------------------------------------------------
\* A step that drops what is unread, because the connection is over.
LEMMA DroppedData ==
  ASSUME Inv, unread' = <<>>, UNCHANGED <<taken, buffer>>,
         ~(file' = "open" /\ peer' \in {"open", "fin"}),
         peer' # "none" => connected'
  PROVE  StreamInv'
<1>1. taken \o buffer \in Seq(Nat)
  BY DEF Inv, TypeOK
<1>2. taken \o buffer = Units(Len(taken \o buffer)) /\ (taken \o buffer) \o <<>> = taken \o buffer
  BY <1>1, FirstData DEF Inv, TypeOK, StreamInv, All
<1>3. All' = taken \o buffer
  BY <1>2 DEF All
<1>4. All' = Units(Len(All'))
  BY <1>2, <1>3
<1> QED
  BY <1>4 DEF StreamInv

\* A step that leaves the data where it is.
LEMMA KeptData ==
  ASSUME Inv, UNCHANGED <<unread, taken, buffer, sent>>,
         file' = "open" /\ peer' \in {"open", "fin"} => file = "open" /\ peer \in {"open", "fin"},
         peer' # "none" => connected'
  PROVE  StreamInv'
BY DEF Inv, StreamInv, All

\* No step loses data of a connection that stands, or changes its order.
LEMMA StreamStep ==
  ASSUME Inv, [Next]_vars
  PROVE  StreamInv'
<1> USE DEF Inv, TypeOK, netVars, objectVars, dataVars, serverVars
<1>1. CASE Send
  <2>1. All' = (taken \o buffer) \o Append(unread, sent + 1)
    BY <1>1 DEF Send, All
  <2>2. All = Units(Len(All)) /\ Len(All) = sent
    BY <1>1 DEF Send, StreamInv
  <2>3. taken \o buffer \in Seq(Nat) /\ unread \in Seq(Nat) /\ sent \in Nat
    OBVIOUS
  <2> DEFINE g == taken \o buffer
  <2> HIDE DEF g
  <2>4. g \o Append(unread, sent + 1) = Units(sent + 1)
        /\ Len(g \o Append(unread, sent + 1)) = sent + 1
    <3>1. g \o unread = Units(Len(g \o unread)) /\ Len(g \o unread) = sent
      BY <2>2 DEF All, g
    <3>2. g \in Seq(Nat)
      BY <2>3 DEF g
    <3> QED
      BY <2>3, <3>1, <3>2, NewData, Zenon
  <2>5. All' = Units(sent + 1) /\ Len(All') = sent + 1
    BY <2>1, <2>4 DEF g
  <2> QED
    BY <1>1, <2>5 DEF Send, StreamInv
<1>2. CASE Leave
  <2>1. CASE unread' = <<>> /\ peer' = "reset"
    BY <1>2, <2>1, DroppedData DEF Leave, StreamInv
  <2>2. CASE peer = "open" /\ peer' = "fin" /\ UNCHANGED unread
    BY <1>2, <2>2, KeptData DEF Leave, StreamInv
  <2> QED
    BY <1>2, <2>1, <2>2 DEF Leave
<1>3. CASE GiveAway \/ Forget
  BY <1>3, KeptData DEF GiveAway, Forget, StreamInv
<1>4. CASE Poll \/ RecvError
  BY <1>4, KeptData DEF Poll, RecvError, StreamInv
<1>5. CASE RecvData
  <2> DEFINE n == IF Len(unread) < Block THEN Len(unread) ELSE Block
  <2>1. n \in 1..Len(unread)
    BY <1>5, TcpSocketAssumption DEF RecvData
  <2>2. All' = (taken \o (buffer \o SubSeq(unread, 1, n))) \o SubSeq(unread, n + 1, Len(unread))
    BY <1>5 DEF RecvData, All
  <2>3. taken \in Seq(Nat) /\ buffer \in Seq(Nat) /\ unread \in Seq(Nat)
    OBVIOUS
  <2> HIDE DEF n
  <2>4. (taken \o (buffer \o SubSeq(unread, 1, n))) \o SubSeq(unread, n + 1, Len(unread)) = All
    BY <2>1, <2>3, MovedData, Zenon DEF All
  <2>5. All' = All
    BY <2>2, <2>4
  <2> QED
    BY <1>5, <2>5 DEF RecvData, StreamInv
<1>6. ASSUME NEW t \in Threads, HangUp(t), UNCHANGED <<taken, buffer, sent>>
      PROVE  StreamInv'
  <2>1. CASE UNCHANGED <<peer, unread, objectVars>>
    BY <1>6, <2>1, KeptData DEF StreamInv
  <2>2. CASE peer' = "none" /\ unread' = <<>>
    BY <1>6, <2>2, DroppedData
  <2>3. CASE file' = "shut" /\ UNCHANGED <<connected, peer>> /\ unread' = unread
    BY <1>6, <2>3, KeptData DEF StreamInv
  <2>4. CASE file' = "shut" /\ UNCHANGED <<connected, peer>> /\ unread' = <<>>
    BY <1>6, <2>4, DroppedData DEF StreamInv
  <2> QED
    BY <1>6, <2>1, <2>2, <2>3, <2>4 DEF HangUp
<1>7. CASE RecvEnd
  BY <1>6, <1>7 DEF RecvEnd, Threads
<1>8. ASSUME NEW u \in Users, NEW method \in Calls, Call(u, method)
      PROVE  StreamInv'
  BY <1>8, KeptData DEF Call, StreamInv
<1>9. ASSUME NEW u \in Users, Method(u)
      PROVE  StreamInv'
  <2>1. CASE Read(u)
    <3>1. taken \o buffer \in Seq(Nat)
      OBVIOUS
    <3>2. All' = All
      BY <2>1, <3>1, JoiningNone DEF Read, All
    <3> QED
      BY <2>1, <3>2 DEF Read, StreamInv
  <2>2. CASE Write(u)
    <3>1. CASE UNCHANGED <<peer, unread>>
      BY <2>2, <3>1, KeptData DEF Write, StreamInv
    <3>2. CASE connected /\ peer' = "reset" /\ unread' = <<>>
      BY <2>2, <3>2, DroppedData DEF Write
    <3> QED
      BY <2>2, <3>1, <3>2 DEF Write
  <2>3. CASE Connect(u) \/ SetSocketDescriptor(u)
    BY <2>3, KeptData DEF Connect, SetSocketDescriptor, StreamInv
  <2>4. CASE Disconnect(u) \/ Destroy(u)
    BY <1>6, <2>4 DEF Disconnect, Destroy, Threads
  <2> QED
    BY <1>9, <2>1, <2>2, <2>3, <2>4 DEF Method
<1>10. CASE UNCHANGED vars
  BY <1>10, KeptData DEF vars, StreamInv
<1> QED
  BY <1>1, <1>2, <1>3, <1>4, <1>5, <1>7, <1>8, <1>9, <1>10
  DEF Next, Environment, Server

-----------------------------------------------------------------------------
\* A new object has received and announced nothing.
LEMMA InvInit == Init => Inv
<1> SUFFICES ASSUME Init PROVE Inv
  OBVIOUS
<1> USE DEF Init
<1>1. TypeOK
  <2>1. <<>> \in Seq(Nat)
    OBVIOUS
  <2> QED
    BY <2>1 DEF TypeOK
<1>2. OwnDescriptor /\ AnnouncedInv
  BY DEF OwnDescriptor, AnnouncedInv
<1>3. All = <<>>
  BY DEF All
<1>4. <<>> = Units(0) /\ Len(<<>>) = 0
  BY DEF Units
<1> QED
  BY <1>1, <1>2, <1>3, <1>4 DEF Inv, StreamInv

\* The invariant of the specification, from which the properties follow.
LEMMA Invariance == Spec => []Inv
<1>1. Inv /\ [Next]_vars => Inv'
  BY TypeStep, OwnDescriptorStep, AnnouncedStep, StreamStep DEF Inv
<1> QED
  BY <1>1, InvInit, PTL DEF Spec

\* TypeOK: every variable stays what it is meant to be.
THEOREM SocketTypeCorrect == Spec => []TypeOK
BY Invariance, PTL DEF Inv

\* OwnDescriptor: a connected socket never uses a descriptor it has closed.
THEOREM DescriptorOwned == Spec => []OwnDescriptor
BY Invariance, PTL DEF Inv

\* Announced: no data waits for read() without a dataReady behind it, however
\* readFromSocket ended.
THEOREM DataAnnounced == Spec => []Announced
<1>1. Inv => Announced
  BY DEF Inv, AnnouncedInv, Announced, MutexFree
<1> QED
  BY <1>1, Invariance, PTL

\* StreamIntact: whatever size blocks have and however reads, receptions and
\* the end of the connection fall, read() hands out what was sent.
THEOREM StreamArrivesIntact == Spec => []StreamIntact
<1>1. ASSUME Inv PROVE StreamIntact
  <2>1. taken \o buffer \in Seq(Nat) /\ unread \in Seq(Nat)
    BY <1>1 DEF Inv, TypeOK
  <2>2. taken \o buffer = Units(Len(taken \o buffer))
    BY <1>1, <2>1, FirstData DEF Inv, StreamInv, All
  <2>3. file = "open" /\ peer \in {"open", "fin"} => All = Units(sent)
    BY <1>1 DEF Inv, StreamInv
  <2> QED
    BY <2>2, <2>3 DEF StreamIntact, Units, All
<1> QED
  BY <1>1, Invariance, PTL

-----------------------------------------------------------------------------
(* The stream of data that the socket is to its user                       *)

Up == file = "open" /\ peer \in {"open", "fin"}

\* A step that leaves the data where it is is none of the stream's, unless
\* the connection ends.
LEMMA KeptStreams ==
  ASSUME UNCHANGED <<unread, taken, buffer, sent>>, Up' = Up \/ Up' = FALSE
  PROVE  [Stream!Next]_(Stream!streamVars)
BY DEF Up, Stream!Next, Stream!End, Stream!streamVars

\* One that drops what is unread is the end of the connection.
LEMMA DroppedStreams ==
  ASSUME Inv, unread' = <<>>, UNCHANGED <<taken, buffer, sent>>, Up' = FALSE
  PROVE  [Stream!Next]_(Stream!streamVars)
<1>1. taken \o buffer \in Seq(Nat)
  BY DEF Inv, TypeOK
<1>2. (taken \o buffer) \o <<>> = taken \o buffer
  BY <1>1, JoiningNone, Zenon
<1>3. (taken' \o buffer') \o unread' = taken \o buffer
  BY <1>2
<1> QED
  BY <1>3 DEF Up, Stream!Next, Stream!End

\* What is received is the first part of what is there.
LEMMA ReceivedData ==
  \A t, b, u \in Seq(Nat) : \A n \in 1..Len(u) :
    /\ t \o (b \o SubSeq(u, 1, n)) = SubSeq((t \o b) \o u, 1, Len(t \o b) + n)
    /\ Len(t \o b) + n \in Len(t \o b) + 1..Len((t \o b) \o u)
<1> TAKE t, b, u \in Seq(Nat)
<1> TAKE n \in 1..Len(u)
<1> DEFINE v == SubSeq(u, 1, n)
           g == t \o b
<1>1. g \in Seq(Nat) /\ v \in Seq(Nat) /\ Len(v) = n
  OBVIOUS
<1>2. t \o (b \o v) = g \o v
  BY <1>1, Joining, Zenon
<1>3. \A i \in 1..n : v[i] = u[i]
  OBVIOUS
<1> HIDE DEF v, g
<1>4. Len(g) + n \in Len(g) + 1..Len(g \o u)
  BY <1>1
<1>5. g \o v = SubSeq(g \o u, 1, Len(g) + n)
  <2> DEFINE w == SubSeq(g \o u, 1, Len(g) + n)
  <2>1. g \o v \in Seq(Nat) /\ w \in Seq(Nat)
    BY <1>1
  <2>2. Len(g \o v) = Len(g) + n /\ Len(w) = Len(g) + n
    <3>1. Len(g \o v) = Len(g) + n
      BY <1>1, ConcatProperties
    <3>2. g \o u \in Seq(Nat) /\ Len(g) \in Nat /\ n \in Nat
      BY <1>1
    <3>3. Len(w) = Len(g) + n
      BY <3>2
    <3> QED
      BY <3>1, <3>3
  <2>3. ASSUME NEW i \in 1..Len(g) + n
        PROVE  (g \o v)[i] = w[i]
    <3>1. w[i] = (g \o u)[i]
      BY <1>1, <1>4
    <3>2. CASE i \in 1..Len(g)
      BY <1>1, <3>1, <3>2
    <3>3. CASE i \notin 1..Len(g)
      <4>1. i - Len(g) \in 1..n
        BY <1>1, <3>3
      <4>2. (g \o v)[i] = v[i - Len(g)] /\ (g \o u)[i] = u[i - Len(g)]
        BY <1>1, <1>4, <3>3, <4>1
      <4> QED
        BY <1>3, <3>1, <4>1, <4>2
    <3> QED
      BY <3>2, <3>3
  <2> HIDE DEF w
  <2>4. g \o v = w
    BY <2>1, <2>2, <2>3, SeqEqual
  <2> QED
    BY <2>4 DEF w
<1> QED
  BY <1>2, <1>4, <1>5 DEF v, g

-----------------------------------------------------------------------------
\* Every step of the socket is one of the stream, or none of it.
LEMMA StepStreams ==
  ASSUME Inv, [Next]_vars
  PROVE  [Stream!Next]_(Stream!streamVars)
<1> USE DEF netVars, objectVars, dataVars, serverVars
<1>0. TypeOK /\ StreamInv
  BY DEF Inv
<1>1. CASE Send
  <2>1. (taken \o buffer) \o Append(unread, sent + 1) = Append((taken \o buffer) \o unread, sent + 1)
    BY <1>0 DEF TypeOK
  <2>2. [i \in 1..sent + 1 |-> i] = Append([i \in 1..sent |-> i], sent + 1)
    BY <1>0 DEF TypeOK
  <2>3. sent + 1 \in 1..MaxSent
    BY <1>0, <1>1, TcpSocketAssumption DEF TypeOK, Send
  <2>4. /\ Up /\ Up' = Up /\ UNCHANGED <<taken, buffer>>
        /\ sent' = sent + 1 /\ unread' = Append(unread, sent + 1)
    BY <1>1 DEF Send, Up
  <2>5. (taken' \o buffer') \o unread' = Append((taken \o buffer) \o unread, sent + 1)
    BY <2>1, <2>4
  <2>6. [i \in 1..sent' |-> i] = Append([i \in 1..sent |-> i], sent + 1)
    BY <2>2, <2>4
  <2>7. Stream!Send
    BY <2>3, <2>4, <2>5, <2>6 DEF Stream!Send, Up
  <2> QED
    BY <2>7 DEF Stream!Next
<1>2. CASE Leave
  BY <1>2, KeptStreams, DroppedStreams DEF Leave, Up
<1>3. CASE GiveAway \/ Forget \/ Poll \/ RecvError
  BY <1>3, KeptStreams DEF GiveAway, Forget, Poll, RecvError, Up
<1>4. CASE RecvData
  <2> DEFINE n == IF Len(unread) < Block THEN Len(unread) ELSE Block
  <2>1. n \in 1..Len(unread)
    BY <1>0, <1>4, TcpSocketAssumption DEF RecvData, TypeOK
  <2>2. /\ buffer' = buffer \o SubSeq(unread, 1, n)
        /\ unread' = SubSeq(unread, n + 1, Len(unread))
        /\ Up' = Up /\ UNCHANGED <<taken, sent>>
    BY <1>4 DEF RecvData, Up
  <2>3. taken \in Seq(Nat) /\ buffer \in Seq(Nat) /\ unread \in Seq(Nat)
    BY <1>0 DEF TypeOK
  <2> HIDE DEF n
  <2>4. (taken' \o buffer') \o unread' = (taken \o buffer) \o unread
    BY <2>1, <2>2, <2>3, MovedData
  <2>5. /\ taken' \o buffer' = SubSeq((taken \o buffer) \o unread, 1, Len(taken \o buffer) + n)
        /\ Len(taken \o buffer) + n \in Len(taken \o buffer) + 1..Len((taken \o buffer) \o unread)
    BY <2>1, <2>2, <2>3, ReceivedData
  <2>6. Stream!Arrive
    BY <2>2, <2>4, <2>5 DEF Stream!Arrive, Up
  <2> QED
    BY <2>6 DEF Stream!Next
<1>5. ASSUME NEW t \in Threads, HangUp(t), UNCHANGED <<taken, buffer, sent>>
      PROVE  [Stream!Next]_(Stream!streamVars)
  <2>1. CASE UNCHANGED <<peer, unread, objectVars>>
    BY <1>5, <2>1, KeptStreams DEF Up
  <2>2. CASE file' \in {"closed", "shut"} /\ unread' \in {unread, <<>>}
    BY <1>5, <2>2, KeptStreams, DroppedStreams DEF Up
  <2> QED
    BY <1>5, <2>1, <2>2 DEF HangUp
<1>6. CASE RecvEnd
  BY <1>5, <1>6 DEF RecvEnd, Threads
<1>7. ASSUME NEW u \in Users, NEW method \in Calls, Call(u, method)
      PROVE  [Stream!Next]_(Stream!streamVars)
  BY <1>7, KeptStreams DEF Call, Up
<1>8. ASSUME NEW u \in Users, Method(u)
      PROVE  [Stream!Next]_(Stream!streamVars)
  <2>1. CASE Read(u)
    <3>1. (taken \o buffer) \o <<>> = taken \o buffer
      <4>1. taken \o buffer \in Seq(Nat)
        BY <1>0 DEF TypeOK
      <4> QED
        BY <4>1, JoiningNone, Zenon
    <3>2. taken' = taken \o buffer /\ buffer' = <<>> /\ Up' = Up /\ UNCHANGED <<unread, sent>>
      BY <2>1 DEF Read, Up
    <3>3. taken' \o buffer' = taken \o buffer
      BY <3>1, <3>2
    <3>4. Stream!Deliver
      BY <3>2, <3>3 DEF Stream!Deliver, Up
    <3> QED
      BY <3>4 DEF Stream!Next
  <2>2. CASE Write(u)
    BY <2>2, KeptStreams, DroppedStreams DEF Write, Up
  <2>3. CASE Connect(u)
    <3>1. Up' = Up \/ Up' = FALSE
      BY <1>0, <2>3 DEF Connect, Up, StreamInv, TypeOK
    <3>2. UNCHANGED <<unread, taken, buffer, sent>>
      BY <2>3 DEF Connect
    <3> QED
      BY <3>1, <3>2, KeptStreams
  <2>4. CASE SetSocketDescriptor(u)
    BY <2>4, KeptStreams DEF SetSocketDescriptor, Up
  <2>5. CASE Disconnect(u) \/ Destroy(u)
    BY <1>5, <2>5 DEF Disconnect, Destroy, Threads
  <2> QED
    BY <1>8, <2>1, <2>2, <2>3, <2>4, <2>5 DEF Method
<1>9. CASE UNCHANGED vars
  BY <1>9, KeptStreams DEF vars, Up
<1> QED
  BY <1>1, <1>2, <1>3, <1>4, <1>6, <1>7, <1>8, <1>9
  DEF Next, Environment, Server

\* RefinesStream: whoever calls which method when, and however the connection
\* ends, readFromSocket and read() together are a stream of data: what was
\* received is handed out, once and in order, and nothing is lost of a
\* connection that stands.
THEOREM SocketImplementsStream == Spec => RefinesStream
<1>1. Init => Stream!Init
  <2> SUFFICES ASSUME Init PROVE Stream!Init
    OBVIOUS
  <2>1. (<<>> \o <<>>) \o <<>> = <<>> /\ <<>> \o <<>> = <<>> /\ [i \in 1..0 |-> i] = <<>>
    OBVIOUS
  <2>2. sent = 0 /\ unread = <<>> /\ buffer = <<>> /\ taken = <<>>
    BY DEF Init
  <2> QED
    BY <2>1, <2>2 DEF Stream!Init
<1>2. Inv /\ [Next]_vars => [Stream!Next]_(Stream!streamVars)
  BY StepStreams
<1> QED
  BY <1>1, <1>2, Invariance, PTL DEF Spec, RefinesStream, Stream!Spec
=============================================================================
