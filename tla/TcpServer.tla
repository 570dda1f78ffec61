------------------------------ MODULE TcpServer ------------------------------
(***************************************************************************)
(* TcpServer and the TcpSocket objects of its connections (TcpServer.cpp,  *)
(* TcpSocket.cpp), after listen() has succeeded: one thread polls the      *)
(* server's socket and those of the connections, accepts, reads, and drops *)
(* connections that hung up; the tables it keeps of them are indexed by    *)
(* file descriptors, which the system uses again once they are closed.     *)
(*                                                                         *)
(* A connection's timer comes from a combined_timer; nothing is connected  *)
(* to its timeout, so one that expires only disappears.                    *)
(***************************************************************************)
EXTENDS Naturals, FiniteSets

CONSTANTS
  Size,         \* _maxConnectionSize: entries of the poll list, the server's too
  Fds,          \* the file descriptors the system can give to accept
  TimerIds,     \* the ids of _timer: 16 bits in the code
  MaxArrivals,  \* bound: number of peers that connect
  MaxSends      \* bound: number of messages from all peers

ASSUME TcpServerAssumption ==
  /\ Size \in Nat \ {0}
  /\ Fds \subseteq Nat \ {0}
  /\ TimerIds \subseteq Nat
  /\ MaxArrivals \in Nat /\ MaxSends \in Nat

VARIABLES
  root,         \* "threaded" if the server's root is a br_threaded_object, so that
                \*   disconnect() finds itself in another thread; "plain" if not:
                \*   the default, a server without a parent
  file,         \* of each descriptor: the peer, what it is up to, unread data
  backlog, arrived, sent,     \* peers not accepted yet; peers, messages so far
  running,      \* _running
  pc, cur,      \* where run() stands, and the connection it is reading from
  todo,         \* the rest of _socketFdIndexMap that processSockets walks over
  revents,      \* what poll reported for each entry of the list
  list, vacant, indexOf,      \* _socketList, _socketListEmptyIndexSet, _socketFdIndexMap
  active,       \* _activeConnections: each TcpSocket's peer and _connectionStatus
  timerOf, fdOf,              \* _socketFdTimerIdMap, _timerIdSocketFdMap
  armed                       \* the timers of _timer that run

netVars == <<file, backlog, arrived, sent>>
loopVars == <<running, pc, cur, todo, revents>>
listVars == <<list, vacant, indexOf, active>>
timerVars == <<timerOf, fdOf, armed>>
vars == <<root, netVars, loopVars, listVars, timerVars>>

Indexes == 1..Size - 1
Free == {fd \in Fds : file[fd].state = "closed"}
Lowest(S) == CHOOSE n \in S : \A k \in S : n <= k

With(f, x, v) == [y \in DOMAIN f \cup {x} |-> IF y = x THEN v ELSE f[y]]
Without(f, x) == [y \in DOMAIN f \ {x} |-> f[y]]
Nothing == [x \in {} |-> 0]

Init ==
  /\ root \in {"threaded", "plain"}
  /\ file = [fd \in Fds |-> [peer |-> 0, state |-> "closed", data |-> "none"]]
  /\ backlog = 0 /\ arrived = 0 /\ sent = 0
  /\ running = TRUE
  /\ pc = "poll" /\ cur = 0 /\ todo = {}
  /\ revents = [i \in 0..Size - 1 |-> {}]
  /\ list = [i \in Indexes |-> 0] /\ vacant = Indexes
  /\ indexOf = Nothing /\ active = Nothing
  /\ timerOf = Nothing /\ fdOf = Nothing
  /\ armed = {}

-----------------------------------------------------------------------------
(* The peers, and the timers                                               *)

Arrive ==
  /\ arrived < MaxArrivals
  /\ arrived' = arrived + 1 /\ backlog' = backlog + 1
  /\ UNCHANGED <<file, sent, loopVars, listVars, timerVars>>

\* A message either ends a recv, or fills the buffer exactly.
Send(fd) ==
  /\ file[fd].state = "open" /\ file[fd].data = "none"
  /\ sent < MaxSends
  /\ sent' = sent + 1
  /\ \E d \in {"short", "exact"} : file' = [file EXCEPT ![fd].data = d]
  /\ UNCHANGED <<backlog, arrived, loopVars, listVars, timerVars>>

Leave(fd) ==
  /\ \/ /\ file[fd].state = "open"
        /\ file' = [file EXCEPT ![fd].state = "fin"]
     \/ /\ file[fd].state \in {"open", "fin"}                   \* a reset
        /\ file' = [file EXCEPT ![fd].state = "dead", ![fd].data = "none"]
  /\ UNCHANGED <<backlog, arrived, sent, loopVars, listVars, timerVars>>

Expire(id) ==
  /\ id \in armed
  /\ armed' = armed \ {id}
  /\ UNCHANGED <<netVars, loopVars, listVars, timerOf, fdOf>>

-----------------------------------------------------------------------------
(* TcpSocket::disconnect and the timers of connections                     *)

\* The files after disconnect() of a connected socket: in another thread than
\* the object's the connection is shut down only, and the descriptor kept.
HungUp(f, fd) ==
  [f EXCEPT ![fd].state = IF root = "threaded" THEN "dead" ELSE "closed", ![fd].data = "none"]

\* stopTimeoutTimer: a timer that has expired leaves both maps as they are.
Stopped(fd) == fd \in DOMAIN timerOf /\ timerOf[fd] \in armed

StopTimeoutTimer(fd) ==
  IF Stopped(fd)
  THEN /\ armed' = armed \ {timerOf[fd]}
       /\ fdOf' = Without(fdOf, timerOf[fd])
       /\ timerOf' = Without(timerOf, fd)
  ELSE UNCHANGED timerVars

\* _timer counts its ids; here the lowest stands for them that no timer or
\* connection has (what becomes of ids that are in use is CombinedTimer's).
Unused == {id \in TimerIds : id \notin armed /\ \A fd \in DOMAIN timerOf : timerOf[fd] # id}

StartTimeoutTimer(fd) ==
  /\ Unused # {}
  /\ LET id == Lowest(Unused) IN
     /\ timerOf' = With(timerOf, fd, id)
     /\ fdOf' = With(fdOf, id, fd)
     /\ armed' = armed \cup {id}

-----------------------------------------------------------------------------
(* run() and processSockets                                                *)

Reported(i) ==
  IF i = 0 THEN IF backlog > 0 THEN {"in"} ELSE {}
  ELSE IF list[i] = 0 THEN {}
  ELSE CASE file[list[i]].state = "closed" -> {"nval"}
         [] file[list[i]].state = "dead" -> {"in", "hup"}
         [] file[list[i]].state = "fin" -> {"in"}
         [] OTHER -> IF file[list[i]].data = "none" THEN {} ELSE {"in"}

\* With no free entry for a new connection the others are not looked at.
Poll ==
  /\ pc = "poll" /\ running
  /\ \E i \in 0..Size - 1 : Reported(i) # {}
  /\ revents' = [i \in 0..Size - 1 |-> Reported(i)]
  /\ pc' = IF backlog = 0 THEN "walk" ELSE IF vacant = {} THEN "poll" ELSE "accept"
  /\ todo' = DOMAIN indexOf
  /\ UNCHANGED <<netVars, running, cur, listVars, timerVars>>

\* The loop ends, when the object is destroyed or poll fails.
Finish ==
  /\ pc = "poll"
  /\ pc' = "done"
  /\ UNCHANGED <<netVars, running, cur, todo, revents, listVars, timerVars>>

\* Mutant: the poll list is not told of the new connection.
AddUnpolled(fd, f) ==
  IF vacant = {} THEN file' = f /\ UNCHANGED <<listVars, timerVars>>
  ELSE LET i == Lowest(vacant) IN
       /\ indexOf' = With(indexOf, fd, i)
       /\ vacant' = vacant \ {i}
       /\ active' = With(active, fd, [peer |-> f[fd].peer, status |-> "connected"])
       /\ StartTimeoutTimer(fd)
       /\ file' = f
       /\ UNCHANGED list

\* addNewConnection.  Without a free entry the descriptor is forgotten; when
\* it is still in the list of connections the new TcpSocket is destroyed.
AddNewConnection(fd, f) ==
  IF vacant = {} THEN file' = f /\ UNCHANGED <<listVars, timerVars>>
  ELSE LET i == Lowest(vacant) IN
       /\ list' = [list EXCEPT ![i] = fd]
       /\ indexOf' = With(indexOf, fd, i)
       /\ vacant' = vacant \ {i}
       /\ IF fd \in DOMAIN active
          THEN file' = HungUp(f, fd) /\ UNCHANGED <<active, timerVars>>
          ELSE /\ active' = With(active, fd, [peer |-> f[fd].peer, status |-> "connected"])
               /\ StartTimeoutTimer(fd)
               /\ file' = f

\* acceptNewConnections, one turn of its loop; and its end, when there is no
\* peer left, or no descriptor, or the object is destroyed.
Accept ==
  /\ pc = "accept" /\ running
  /\ backlog > 0 /\ Free # {}
  /\ backlog' = backlog - 1
  /\ LET fd == Lowest(Free) IN
     AddNewConnection(fd, [file EXCEPT ![fd] =
       [peer |-> arrived - backlog + 1, state |-> "open", data |-> "none"]])
  /\ todo' = DOMAIN indexOf'
  /\ UNCHANGED <<arrived, sent, running, pc, cur, revents>>

Accepted ==
  /\ pc = "accept"
  /\ ~running \/ backlog = 0 \/ Free = {}
  /\ pc' = "walk"
  /\ UNCHANGED <<netVars, running, cur, todo, revents, listVars, timerVars>>

Walked ==
  /\ pc = "walk" /\ todo = {}
  /\ pc' = "poll"
  /\ UNCHANGED <<netVars, running, cur, todo, revents, listVars, timerVars>>

\* Mutant: the timer of a connection runs on while data is read.
VisitTimerOn ==
  /\ pc = "walk" /\ todo # {}
  /\ LET fd == Lowest(todo) IN
     /\ cur' = fd
     /\ pc' = IF fd \in DOMAIN active /\ "in" \in revents[indexOf[fd]] THEN "recv" ELSE "check"
  /\ UNCHANGED <<netVars, running, todo, revents, listVars, timerVars>>

\* The next connection: with something to read the timer is stopped first.
Visit ==
  /\ pc = "walk" /\ todo # {}
  /\ LET fd == Lowest(todo) IN
     /\ cur' = fd
     /\ IF fd \in DOMAIN active /\ "in" \in revents[indexOf[fd]]
        THEN pc' = "recv" /\ StopTimeoutTimer(fd)
        ELSE pc' = "check" /\ UNCHANGED timerVars
  /\ UNCHANGED <<netVars, running, todo, revents, listVars>>

\* Mutant: disconnect() closes the descriptor, but the socket stays connected.
RecvStatusKept ==
  /\ pc = "recv" /\ pc' = "check"
  /\ LET f == file[cur] IN
     /\ f.data # "none" \/ f.state \in {"fin", "dead"}
     /\ file' = IF f.data = "none" THEN HungUp(file, cur) ELSE [file EXCEPT ![cur].data = "none"]
  /\ StartTimeoutTimer(cur)
  /\ UNCHANGED <<backlog, arrived, sent, running, cur, todo, revents, listVars>>

\* readFromSocket: recv blocks until there is something, and is called again
\* as long as it fills the buffer.  At the end of the stream the socket
\* disconnects itself; after a reset recv may also just fail; an object that
\* is not connected does not read.  Then the timer is started.
Recv ==
  /\ pc = "recv"
  /\ LET f == file[cur]
         on == active[cur].status = "connected"
     IN
     \/ /\ on /\ f.data = "exact"
        /\ file' = [file EXCEPT ![cur].data = "none"]
        /\ UNCHANGED <<pc, active, timerVars>>
     \/ /\ pc' = "check"
        /\ StartTimeoutTimer(cur)
        /\ \/ /\ on /\ f.data = "short"
              /\ file' = [file EXCEPT ![cur].data = "none"]
              /\ UNCHANGED active
           \/ /\ on /\ f.data = "none" /\ f.state \in {"fin", "dead"}
              /\ file' = HungUp(file, cur)
              /\ active' = [active EXCEPT ![cur].status =
                               IF root = "threaded" THEN @ ELSE "notConnected"]
           \/ /\ ~on \/ f.state = "dead"
              /\ UNCHANGED <<file, active>>
  /\ UNCHANGED <<backlog, arrived, sent, running, cur, todo, revents, list, vacant, indexOf>>

KeepOpen ==
  /\ pc = "check" /\ "hup" \notin revents[indexOf[cur]]
  /\ pc' = "walk"
  /\ todo' = todo \ {cur}
  /\ UNCHANGED <<netVars, running, cur, revents, listVars, timerVars>>

\* Mutant: the list entry of a closed connection keeps its descriptor.
ConnectionClosedSlotKept ==
  /\ pc = "check" /\ "hup" \in revents[indexOf[cur]]
  /\ indexOf' = Without(indexOf, cur)
  /\ vacant' = vacant \cup {indexOf[cur]}
  /\ active' = Without(active, cur)
  /\ StopTimeoutTimer(cur)
  /\ file' = IF active[cur].status = "connected" THEN HungUp(file, cur) ELSE file
  /\ \/ pc' = "walk" /\ todo' \in SUBSET (todo \ {cur})
     \/ pc' = "undefined" /\ UNCHANGED todo
  /\ UNCHANGED <<backlog, arrived, sent, running, cur, revents, list>>

\* connectionClosed: the last reference to the TcpSocket goes.  The walk goes
\* on from the map element that was just erased: it may miss others, or the
\* program crashes.
ConnectionClosed ==
  /\ pc = "check" /\ "hup" \in revents[indexOf[cur]]
  /\ list' = [list EXCEPT ![indexOf[cur]] = 0]
  /\ vacant' = vacant \cup {indexOf[cur]}
  /\ indexOf' = Without(indexOf, cur)
  /\ active' = Without(active, cur)
  /\ StopTimeoutTimer(cur)
  /\ file' = IF active[cur].status = "connected" THEN HungUp(file, cur) ELSE file
  /\ \/ pc' = "walk" /\ todo' \in SUBSET (todo \ {cur})
     \/ pc' = "undefined" /\ UNCHANGED todo
  /\ UNCHANGED <<backlog, arrived, sent, running, cur, revents>>

\* ~TcpServer.  stop() returns false while the server runs.
Destroy ==
  /\ running
  /\ running' = FALSE
  /\ UNCHANGED <<netVars, pc, cur, todo, revents, listVars, timerVars>>

-----------------------------------------------------------------------------
Peers == Arrive \/ \E fd \in Fds : Send(fd) \/ Leave(fd)

Run ==
  \/ Poll \/ Accept \/ Accepted \/ Walked \/ Visit \/ Recv \/ KeepOpen
  \/ ConnectionClosed

Next ==
  /\ Peers \/ Run \/ Finish \/ Destroy \/ \E id \in armed : Expire(id)
  /\ UNCHANGED root

Spec == Init /\ [][Next]_vars

\* The server's thread runs; peers and timers do what they like.
FairSpec == Spec /\ WF_vars(Run /\ UNCHANGED root)

-----------------------------------------------------------------------------
TypeOK ==
  /\ root \in {"threaded", "plain"}
  /\ \A fd \in Fds : file[fd].state \in {"closed", "open", "fin", "dead"}
                     /\ file[fd].data \in {"none", "short", "exact"}
  /\ backlog \in 0..arrived /\ arrived \in 0..MaxArrivals /\ sent \in 0..MaxSends
  /\ running \in BOOLEAN
  /\ pc \in {"poll", "accept", "walk", "recv", "check", "undefined", "done"}
  /\ pc \in {"recv", "check"} => cur \in todo
  /\ pc \in {"walk", "recv", "check"} => todo \subseteq DOMAIN indexOf
  /\ armed \subseteq DOMAIN fdOf /\ DOMAIN fdOf \subseteq TimerIds

\* The three tables of connections and the poll list agree: what is polled is
\* what can be looked up, and every other entry is free for a new connection.
\* Below a plain root entries are lost: there a peer may be given a descriptor
\* that is still in the tables, and is entered a second time.
TablesAgree ==
  /\ DOMAIN active = DOMAIN indexOf
  /\ \A fd \in DOMAIN indexOf : list[indexOf[fd]] = fd /\ indexOf[fd] \notin vacant
  /\ \A i \in vacant : list[i] = 0
  /\ root = "threaded" =>
       \A i \in Indexes \ vacant : \E fd \in DOMAIN indexOf : indexOf[fd] = i

\* A TcpSocket never reads from another peer than its own, although the
\* system gives a descriptor that was closed to another peer while the tables
\* still have it, and its entry is polled.
OwnPeer ==
  \A fd \in DOMAIN active :
    active[fd].status = "connected" => file[fd].peer = active[fd].peer

\* Every timer that runs is the one of a connection that exists: none
\* outlives its connection or is doubled by new data.
TimersKnown ==
  \A id \in armed : /\ fdOf[id] \in DOMAIN active
                    /\ fdOf[id] \in DOMAIN timerOf /\ timerOf[fdOf[id]] = id

\* A connection is only dropped when its peer has ended it, or its socket has
\* disconnected: what connectionClosed goes by is what poll said of an entry
\* before peers were accepted, who are given entries and, below a plain root,
\* descriptors that were used before.
OnlyLeaversDropped ==
  [][\A fd \in DOMAIN active :
       fd \notin DOMAIN active' =>
         file[fd].state = "dead" \/ active[fd].status # "connected"]_vars

Full == vacant = {} /\ backlog > 0
Waiting == pc = "recv" /\ active[cur].status = "connected" /\ file[cur].data = "none"
           /\ file[cur].state = "open"
Over == pc \in {"done", "undefined"} \/ ~running

\* Below a plain root a socket closes its descriptor, and poll does not
\* report a hang-up of that: its connection stays in the tables.
Abandoned(fd) == fd \in DOMAIN active /\ active[fd].status # "connected"

\* A connection whose peer has left is removed, unless the server is over,
\* held up by a peer in recv, or by one that does not fit in, or its socket
\* has closed the descriptor.
LeaversRemoved ==
  \A fd \in Fds :
    (fd \in DOMAIN active /\ file[fd].state \in {"fin", "dead"})
      ~> (fd \notin DOMAIN active \/ Over \/ Waiting \/ Full \/ Abandoned(fd))
=============================================================================
