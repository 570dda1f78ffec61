------------------------------ MODULE TcpSocket ------------------------------
(***************************************************************************)
(* One TcpSocket object (TcpSocket.h, TcpSocket.cpp), made for a           *)
(* connection that was accepted, or without one for connect().             *)
(*                                                                         *)
(* A server's thread calls readFromSocket when poll reports something,     *)
(* other threads call everything else.  Each method holds _mutex from its  *)
(* beginning to its end, readFromSocket also while it is blocked in recv,  *)
(* so a call of another method is one step, once the mutex is free.        *)
(*                                                                         *)
(* Left out: the last error and the size of the read buffer, which no      *)
(* method reads but to return it.                                          *)
(***************************************************************************)
EXTENDS Naturals, Sequences

CONSTANTS
  Users,        \* the threads that use the object, beside the server's
  Loop,         \* the one of them that is the loop of a threaded parent
  Block,        \* what one recv takes at most, in units of data
  MaxSent       \* bound: units of data that the peer sends

ASSUME TcpSocketAssumption ==
  /\ Loop \in Users /\ "server" \notin Users
  /\ Block \in Nat \ {0} /\ MaxSent \in Nat

Threads == Users \cup {"server"}
Calls == {"read", "write", "connect", "disconnect", "set", "destroy"}

VARIABLES
  own,          \* the threads that the object takes for its own, by getThreadId
  peer, sent,   \* the other end, and how much it has sent
  unread,       \* what the system holds of it
  file,         \* what _socketD stands for: none, or a file and its state
  connected,    \* _connectionStatus
  buffer,       \* _dataBuffer
  announced,    \* whether dataReady was emitted since the last read()
  taken,        \* what read() has handed out
  server, hup, received,   \* where the server's thread stands; whether poll
                           \*   saw a hang-up; totalReceivedSize is not 0
  at,           \* the method each thread has called and not returned from
  alive         \* neither destroyed nor killed by a signal

netVars == <<own, peer, sent, unread>>
objectVars == <<file, connected>>
dataVars == <<buffer, announced, taken>>
serverVars == <<server, hup, received>>
vars == <<netVars, objectVars, dataVars, serverVars, at, alive>>

\* Below a plain object every thread is taken for the object's own.
Init ==
  /\ own \in {Threads, {Loop}}
  /\ \/ file = "open" /\ connected = TRUE /\ peer = "open" /\ server = "idle"
     \/ file = "none" /\ connected = FALSE /\ peer = "none" /\ server = "gone"
  /\ sent = 0 /\ unread = <<>>
  /\ buffer = <<>> /\ announced = FALSE /\ taken = <<>>
  /\ hup = FALSE /\ received = FALSE
  /\ at = [u \in Users |-> "out"] /\ alive = TRUE

-----------------------------------------------------------------------------
(* The other end, and the system                                           *)

Send ==
  /\ peer = "open" /\ file = "open" /\ sent < MaxSent
  /\ sent' = sent + 1
  /\ unread' = Append(unread, sent + 1)
  /\ UNCHANGED <<own, peer, objectVars, dataVars, serverVars, at, alive>>

\* The end of its data, or a reset, after which nothing is left to read.
Leave ==
  /\ \/ peer = "open" /\ peer' = "fin" /\ UNCHANGED unread
     \/ peer \in {"open", "fin"} /\ peer' = "reset" /\ unread' = <<>>
  /\ UNCHANGED <<own, sent, objectVars, dataVars, serverVars, at, alive>>

\* A closed descriptor is given to another connection.
GiveAway ==
  /\ file = "closed"
  /\ file' = "foreign"
  /\ UNCHANGED <<netVars, connected, dataVars, serverVars, at, alive>>

\* The server is destroyed, or drops what it holds under the descriptor.
Forget ==
  /\ server = "idle"
  /\ server' = "gone"
  /\ UNCHANGED <<netVars, objectVars, dataVars, hup, received, at, alive>>

-----------------------------------------------------------------------------
(* readFromSocket, in the server's thread                                  *)

\* Mutant: the status is kept when the descriptor is closed.
HangUpStatusKept(t) ==
  IF ~connected THEN UNCHANGED <<peer, unread, objectVars>>
  ELSE /\ file' = IF t \in own THEN "closed" ELSE "shut"
       /\ peer' = IF t \in own THEN "none" ELSE peer
       /\ unread' \in {unread, <<>>}
       /\ UNCHANGED connected

\* disconnect(): in another thread than its own the object stays connected to
\* a connection that is shut down, of which unread data may be left.
HangUp(t) ==
  IF ~connected THEN UNCHANGED <<peer, unread, objectVars>>
  ELSE IF t \in own
  THEN file' = "closed" /\ connected' = FALSE /\ peer' = "none" /\ unread' = <<>>
  ELSE file' = "shut" /\ unread' \in {unread, <<>>} /\ UNCHANGED <<connected, peer>>

Ended == peer \in {"fin", "reset"} \/ file = "shut"

\* TcpServer: poll reports the connection; one that hung up is dropped after
\* it was read from.
Poll ==
  /\ alive /\ server = "idle" /\ connected /\ peer # "none"
  /\ unread # <<>> \/ Ended
  /\ server' = "recv"
  /\ hup' = (peer = "reset" \/ file = "shut")
  /\ received' = FALSE
  /\ UNCHANGED <<netVars, objectVars, dataVars, at, alive>>

Return(got) ==
  /\ server' = IF hup THEN "gone" ELSE "idle"
  /\ announced' = (announced \/ got)

\* Mutant: only the last block of data is kept.
RecvDataLast ==
  /\ alive /\ server = "recv" /\ unread # <<>>
  /\ LET n == IF Len(unread) < Block THEN Len(unread) ELSE Block IN
     /\ buffer' = SubSeq(unread, 1, n)
     /\ unread' = SubSeq(unread, n + 1, Len(unread))
     /\ received' = TRUE
     /\ IF n = Block THEN UNCHANGED <<server, announced>> ELSE Return(TRUE)
  /\ UNCHANGED <<own, peer, sent, objectVars, taken, hup, at, alive>>

\* Data that does not fill the block ends the loop; data that does, does not.
RecvData ==
  /\ alive /\ server = "recv" /\ unread # <<>>
  /\ LET n == IF Len(unread) < Block THEN Len(unread) ELSE Block IN
     /\ buffer' = buffer \o SubSeq(unread, 1, n)
     /\ unread' = SubSeq(unread, n + 1, Len(unread))
     /\ received' = TRUE
     /\ IF n = Block THEN UNCHANGED <<server, announced>> ELSE Return(TRUE)
  /\ UNCHANGED <<own, peer, sent, objectVars, taken, hup, at, alive>>

\* Mutants: the end of the data does not end the loop, or returns
\* before data is announced.
RecvEndAgain ==
  /\ alive /\ server = "recv" /\ unread = <<>> /\ Ended
  /\ HangUp("server")
  /\ UNCHANGED <<own, sent, dataVars, serverVars, at, alive>>

RecvEndSilent ==
  /\ alive /\ server = "recv" /\ unread = <<>> /\ Ended
  /\ HangUp("server")
  /\ Return(FALSE)
  /\ UNCHANGED <<own, sent, buffer, taken, hup, received, at, alive>>

\* The end of the data: disconnect(), and only then dataReady.
RecvEnd ==
  /\ alive /\ server = "recv" /\ unread = <<>> /\ Ended
  /\ HangUp("server")
  /\ Return(received)
  /\ UNCHANGED <<own, sent, buffer, taken, hup, received, at, alive>>

RecvError ==
  /\ alive /\ server = "recv" /\ peer = "reset"
  /\ Return(received)
  /\ UNCHANGED <<netVars, objectVars, buffer, taken, hup, received, at, alive>>

-----------------------------------------------------------------------------
(* The other methods                                                       *)

MutexFree == server # "recv"

\* The destructor: of an object that nobody else uses any more.
Call(u, method) ==
  /\ alive /\ at[u] = "out"
  /\ method = "destroy" =>
       server = "gone" /\ \A v \in Users : at[v] = "out"
  /\ \A v \in Users : at[v] # "destroy"
  /\ at' = [at EXCEPT ![u] = method]
  /\ UNCHANGED <<netVars, objectVars, dataVars, serverVars, alive>>

Runs(u, method) ==
  /\ alive /\ at[u] = method /\ MutexFree
  /\ at' = [at EXCEPT ![u] = "out"]

Read(u) ==
  /\ Runs(u, "read")
  /\ taken' = taken \o buffer
  /\ buffer' = <<>> /\ announced' = FALSE
  /\ UNCHANGED <<netVars, objectVars, serverVars, alive>>

\* write(): after data was sent it answers false.  The peer may answer with a
\* reset; a connection that cannot send kills the program with a signal.
Write(u) ==
  /\ Runs(u, "write")
  /\ \/ UNCHANGED <<peer, unread, alive>>
     \/ /\ connected /\ peer = "fin"
        /\ peer' = "reset" /\ unread' = <<>> /\ UNCHANGED alive
     \/ /\ connected /\ (peer \in {"none", "reset"} \/ file = "shut")
        /\ alive' = FALSE /\ UNCHANGED <<peer, unread>>
  /\ UNCHANGED <<own, sent, objectVars, dataVars, serverVars>>

\* connect(): refused with a descriptor of any kind.  The address has no
\* family, so the system may take the call for one that has no peer; when it
\* fails the descriptor is kept.
Connect(u) ==
  /\ Runs(u, "connect")
  /\ IF connected \/ file # "none" THEN UNCHANGED objectVars
     ELSE \/ UNCHANGED objectVars
          \/ file' = "open" /\ connected' \in BOOLEAN
  /\ UNCHANGED <<netVars, dataVars, serverVars, alive>>

Disconnect(u) ==
  /\ Runs(u, "disconnect")
  /\ HangUp(u)
  /\ UNCHANGED <<own, sent, dataVars, serverVars, alive>>

\* setSocketDescriptor, with -1 or the descriptor of something else.
SetSocketDescriptor(u) ==
  /\ Runs(u, "set")
  /\ IF connected THEN UNCHANGED file ELSE file' \in {"none", "foreign"}
  /\ UNCHANGED <<netVars, connected, dataVars, serverVars, alive>>

Destroy(u) ==
  /\ Runs(u, "destroy")
  /\ HangUp(u)
  /\ alive' = FALSE
  /\ UNCHANGED <<own, sent, dataVars, serverVars>>

-----------------------------------------------------------------------------
Environment == Send \/ Leave \/ GiveAway \/ Forget

Server == Poll \/ RecvData \/ RecvEnd \/ RecvError

Method(u) ==
  \/ Read(u) \/ Write(u) \/ Connect(u) \/ Disconnect(u)
  \/ SetSocketDescriptor(u) \/ Destroy(u)

Next ==
  \/ Environment \/ Server
  \/ \E u \in Users : Method(u) \/ \E method \in Calls : Call(u, method)

Spec == Init /\ [][Next]_vars

\* Threads run: the server's, and each that has called a method.
FairSpec == Spec /\ WF_vars(Server) /\ \A u \in Users : WF_vars(Method(u))

-----------------------------------------------------------------------------
TypeOK ==
  /\ own \in {Threads, {Loop}}
  /\ peer \in {"none", "open", "fin", "reset"}
  /\ sent \in Nat /\ unread \in Seq(Nat)
  /\ file \in {"none", "open", "shut", "closed", "foreign"}
  /\ connected \in BOOLEAN
  /\ buffer \in Seq(Nat) /\ announced \in BOOLEAN /\ taken \in Seq(Nat)
  /\ server \in {"idle", "recv", "gone"} /\ hup \in BOOLEAN /\ received \in BOOLEAN
  /\ at \in [Users -> Calls \cup {"out"}] /\ alive \in BOOLEAN

\* What read() hands out, and what is still to be handed out, is what the peer
\* sent, in order and once; as long as the connection stands nothing of it is
\* missing.
StreamIntact ==
  LET got == taken \o buffer IN
  /\ got = [i \in 1..Len(got) |-> i]
  /\ (file = "open" /\ peer \in {"open", "fin"}) =>
       got \o unread = [i \in 1..sent |-> i]

\* readFromSocket and read() together are a stream of data: nothing that has
\* been received is lost, repeated or overtaken, whoever disconnects, resets or
\* reads when, and nothing at all while the connection stands.
Stream == INSTANCE ByteStream WITH
  Data <- 1..MaxSent,
  sent <- [i \in 1..sent |-> i],
  kept <- (taken \o buffer) \o unread,
  arrived <- taken \o buffer,
  delivered <- taken,
  up <- file = "open" /\ peer \in {"open", "fin"}
RefinesStream == Stream!Spec

\* Data that waits for read() has been announced by dataReady, also when the
\* connection ended in the same call of readFromSocket.
Announced == MutexFree /\ buffer # <<>> => announced

\* A connected object reads from and writes to the file it was made for: not
\* to one it has closed, whose descriptor may be another connection's.
OwnDescriptor == connected => file \in {"open", "shut"}

\* The peer has sent whole blocks and the server's thread waits for more,
\* with the mutex.
Held == server = "recv" /\ unread = <<>> /\ peer = "open" /\ file = "open"

\* Every call of a method returns, unless the peer holds up the server's
\* thread, or the program is killed.
CallsReturn ==
  \A u \in Users : at[u] # "out" ~> (at[u] = "out" \/ Held \/ ~alive)
=============================================================================
