-------------------------- MODULE TcpServer_proofs --------------------------
(***************************************************************************)
(* For any number of entries, file descriptors, timers, peers and          *)
(* messages, and either kind of root: the tables of a server agree, no     *)
(* connected TcpSocket reads from a foreign peer, and no timer outlives    *)
(* its connection.                                                         *)
(***************************************************************************)
EXTENDS TcpServer, WellFoundedInduction, TLAPS

-----------------------------------------------------------------------------
(* The lowest descriptor or entry                                          *)

LEMMA LowestIn ==
  ASSUME NEW S, S \subseteq Nat, S # {}
  PROVE  Lowest(S) \in S
<1>1. PICK n \in S : \A k \in S : <<k, n>> \notin OpToRel(<, Nat)
  <2> DEFINE R == OpToRel(<, Nat)
  <2>1. IsWellFoundedOn(R, Nat)  BY NatLessThanWellFounded
  <2> HIDE DEF R
  <2>2. \E x \in S : \A y \in S : ~(<<y, x>> \in R)  BY <2>1, WFMin
  <2>3. QED  BY <2>2 DEF R
<1>2. ASSUME NEW k \in S PROVE n <= k
  <2>1. n \in Nat /\ k \in Nat  OBVIOUS
  <2>2. k < n => <<k, n>> \in OpToRel(<, Nat)  BY <2>1 DEF OpToRel
  <2>3. ~(k < n)  BY <1>1, <2>2, Zenon
  <2>4. QED  BY <2>1, <2>3
<1>3. QED  BY <1>2 DEF Lowest

-----------------------------------------------------------------------------
(* The inductive invariant                                                 *)

FileType == [peer : Nat, state : {"closed", "open", "fin", "dead"},
             data : {"none", "short", "exact"}]

\* The walk stands on connections that are in the tables.
WalkInv ==
  /\ root \in {"threaded", "plain"}
  /\ file \in [Fds -> FileType]
  /\ backlog \in Nat /\ arrived \in Nat /\ backlog <= arrived
  /\ pc \in {"poll", "accept", "walk", "recv", "check", "undefined", "done"}
  /\ pc \in {"accept", "walk", "recv", "check"} => todo \subseteq DOMAIN indexOf
  /\ pc \in {"recv", "check"} => cur \in DOMAIN indexOf

TableInv ==
  /\ indexOf \in [DOMAIN indexOf -> Indexes] /\ DOMAIN indexOf \subseteq Fds
  /\ list \in [Indexes -> Nat] /\ vacant \subseteq Indexes
  /\ TablesAgree

\* As long as a TcpSocket is connected its descriptor is not closed, so that
\* accept cannot return it for another peer; below a br_threaded_object it
\* always is.
PeerInv ==
  /\ active \in [DOMAIN active -> [peer : Nat, status : {"connected", "notConnected"}]]
  /\ \A fd \in DOMAIN active :
       /\ active[fd].status = "connected" =>
            file[fd].state # "closed" /\ file[fd].peer = active[fd].peer
       /\ root = "threaded" => active[fd].status = "connected"

\* The maps know the timers that run; the connection that is read from has none.
TimerInv ==
  /\ \A id \in armed : id \in DOMAIN fdOf
  /\ \A id \in armed : /\ fdOf[id] \in DOMAIN active
                       /\ fdOf[id] \in DOMAIN timerOf /\ timerOf[fdOf[id]] = id
  /\ pc = "recv" => \A id \in armed : fdOf[id] # cur

ServerInv == WalkInv /\ TableInv /\ PeerInv /\ TimerInv

LEMMA InvInit == Init => ServerInv
<1> SUFFICES ASSUME Init PROVE ServerInv
  OBVIOUS
<1> USE DEF Init, Nothing
<1>1. WalkInv  BY DEF WalkInv, FileType
<1>2. TableInv  BY DEF TableInv, TablesAgree, Indexes
<1>3. PeerInv  BY DEF PeerInv
<1>4. TimerInv  BY DEF TimerInv
<1>5. QED  BY <1>1, <1>2, <1>3, <1>4 DEF ServerInv

-----------------------------------------------------------------------------
(* Timers                                                                  *)

\* stopTimeoutTimer: the connection has no timer afterwards, whether or not
\* its timer had expired before.
LEMMA StopTimer ==
  ASSUME TimerInv, NEW fd, StopTimeoutTimer(fd)
  PROVE  /\ armed' \subseteq armed
         /\ \A id \in armed' :
              /\ id \in DOMAIN fdOf' /\ fdOf'[id] = fdOf[id] /\ fdOf[id] # fd
              /\ fdOf[id] \in DOMAIN timerOf' /\ timerOf'[fdOf[id]] = id
<1> USE DEF TimerInv
<1>1. CASE Stopped(fd)
  BY <1>1 DEF StopTimeoutTimer, Stopped, Without
<1>2. CASE ~Stopped(fd)
  BY <1>2 DEF StopTimeoutTimer, Stopped, timerVars
<1>3. QED  BY <1>1, <1>2

\* startTimeoutTimer, for a connection without a timer.
LEMMA StartTimer ==
  ASSUME TimerInv, NEW fd, StartTimeoutTimer(fd), \A id \in armed : fdOf[id] # fd
  PROVE  \A id \in armed' :
           /\ id \in DOMAIN fdOf'
           /\ fdOf'[id] \in DOMAIN timerOf' /\ timerOf'[fdOf'[id]] = id
           /\ fdOf'[id] = fd \/ (id \in armed /\ fdOf'[id] = fdOf[id])
<1> DEFINE new == Lowest(Unused)
<1>1. new \in Unused
  BY LowestIn, TcpServerAssumption DEF StartTimeoutTimer, Unused
<1>2. /\ timerOf' = With(timerOf, fd, new) /\ fdOf' = With(fdOf, new, fd)
      /\ armed' = armed \cup {new}
  BY DEF StartTimeoutTimer
<1> HIDE DEF new
<1>3. ASSUME NEW id \in armed
      PROVE  /\ id # new /\ id \in DOMAIN fdOf' /\ fdOf'[id] = fdOf[id]
             /\ fdOf[id] \in DOMAIN timerOf' /\ timerOf'[fdOf[id]] = id
  BY <1>1, <1>2, <1>3 DEF TimerInv, Unused, With
<1>4. new \in DOMAIN fdOf' /\ fdOf'[new] = fd /\ fd \in DOMAIN timerOf' /\ timerOf'[fd] = new
  BY <1>2 DEF With
<1>5. QED  BY <1>2, <1>3, <1>4

-----------------------------------------------------------------------------
(* The steps                                                               *)

\* Peers come, send and leave; a descriptor that is open stays open.
LEMMA PeersKeep == ServerInv /\ Peers /\ root' = root => ServerInv'
<1> SUFFICES ASSUME ServerInv, Peers, root' = root PROVE ServerInv'
  OBVIOUS
<1> DEFINE NetStep ==
      /\ UNCHANGED <<loopVars, listVars, timerVars>>
      /\ file' \in [Fds -> FileType] /\ backlog' \in Nat /\ arrived' \in Nat
      /\ backlog' <= arrived'
      /\ \A fd \in Fds : file'[fd].peer = file[fd].peer
                         /\ (file[fd].state # "closed" => file'[fd].state # "closed")
<1>1. NetStep
  <2> USE DEF ServerInv, WalkInv, FileType
  <2>1. CASE Arrive  BY <2>1 DEF Arrive
  <2>2. ASSUME NEW fd \in Fds, Send(fd) PROVE NetStep
    <3>1. PICK d \in {"short", "exact"} : file' = [file EXCEPT ![fd].data = d]
      BY <2>2 DEF Send
    <3>2. UNCHANGED <<backlog, arrived, loopVars, listVars, timerVars>>
      BY <2>2 DEF Send
    <3>3. QED  BY <3>1, <3>2
  <2>3. ASSUME NEW fd \in Fds, Leave(fd) PROVE NetStep
    <3>1. UNCHANGED <<backlog, arrived, loopVars, listVars, timerVars>>
      BY <2>3 DEF Leave
    <3>2. \/ file' = [file EXCEPT ![fd].state = "fin"]
          \/ file' = [file EXCEPT ![fd].state = "dead", ![fd].data = "none"]
      BY <2>3 DEF Leave
    <3>3. QED  BY <3>1, <3>2
  <2>4. QED  BY <2>1, <2>2, <2>3 DEF Peers
<1>2. WalkInv'  BY <1>1 DEF ServerInv, WalkInv, loopVars, listVars
<1>3. TableInv'  BY <1>1 DEF ServerInv, TableInv, TablesAgree, listVars
<1>4. PeerInv'
  <2>1. DOMAIN active \subseteq Fds  BY DEF ServerInv, TableInv, TablesAgree
  <2>2. QED  BY <1>1, <2>1 DEF ServerInv, PeerInv, listVars
<1>5. TimerInv'  BY <1>1 DEF ServerInv, TimerInv, loopVars, listVars, timerVars
<1>6. QED  BY <1>2, <1>3, <1>4, <1>5 DEF ServerInv

\* A timer that expires disappears; the maps are not told.
LEMMA ExpireKeeps ==
  ASSUME ServerInv, root' = root, NEW id \in armed, Expire(id)
  PROVE  ServerInv'
<1> USE DEF Expire
<1>1. WalkInv'  BY DEF ServerInv, WalkInv, netVars, loopVars, listVars
<1>2. TableInv'  BY DEF ServerInv, TableInv, TablesAgree, listVars
<1>3. PeerInv'  BY DEF ServerInv, PeerInv, netVars, listVars
<1>4. TimerInv'  BY DEF ServerInv, TimerInv, loopVars, listVars
<1>5. QED  BY <1>1, <1>2, <1>3, <1>4 DEF ServerInv

\* Steps that change neither tables nor files.
LEMMA WalkKeeps ==
  ASSUME ServerInv, root' = root,
         Poll \/ Accepted \/ Walked \/ Finish \/ KeepOpen \/ Destroy \/ UNCHANGED vars
  PROVE  ServerInv'
<1>1. UNCHANGED <<netVars, listVars, timerVars>>
  BY DEF Poll, Accepted, Walked, Finish, KeepOpen, Destroy, vars
<1>2. WalkInv'
  BY <1>1 DEF ServerInv, WalkInv, netVars, listVars, loopVars, vars,
              Poll, Accepted, Walked, Finish, KeepOpen, Destroy
<1>3. TableInv'  BY <1>1 DEF ServerInv, TableInv, TablesAgree, listVars
<1>4. PeerInv'  BY <1>1 DEF ServerInv, PeerInv, netVars, listVars
<1>5. pc' = "recv" => pc = "recv" /\ cur' = cur
  BY DEF Poll, Accepted, Walked, Finish, KeepOpen, Destroy, vars, loopVars
<1>6. TimerInv'  BY <1>1, <1>5 DEF ServerInv, TimerInv, listVars, timerVars
<1>7. QED  BY <1>2, <1>3, <1>4, <1>6 DEF ServerInv

\* The next connection: its timer is stopped before it is read from.
LEMMA VisitKeeps == ServerInv /\ Visit /\ root' = root => ServerInv'
<1> SUFFICES ASSUME ServerInv, Visit, root' = root PROVE ServerInv'
  OBVIOUS
<1> DEFINE fd == Lowest(todo)
<1>1. /\ pc = "walk" /\ todo # {} /\ cur' = fd
      /\ UNCHANGED <<netVars, running, todo, revents, listVars>>
      /\ \/ pc' = "recv" /\ StopTimeoutTimer(fd)
         \/ pc' = "check" /\ UNCHANGED timerVars
  BY DEF Visit
<1>2. fd \in todo /\ fd \in DOMAIN indexOf
  <2>1. todo \subseteq DOMAIN indexOf /\ DOMAIN indexOf \subseteq Nat
    BY <1>1, TcpServerAssumption DEF ServerInv, WalkInv, TableInv
  <2>2. QED  BY <1>1, <2>1, LowestIn
<1> HIDE DEF fd
<1>3. WalkInv'  BY <1>1, <1>2 DEF ServerInv, WalkInv, netVars, listVars
<1>4. TableInv'  BY <1>1 DEF ServerInv, TableInv, TablesAgree, listVars
<1>5. PeerInv'  BY <1>1 DEF ServerInv, PeerInv, netVars, listVars
<1>6. TimerInv'
  <2>1. CASE pc' = "recv" /\ StopTimeoutTimer(fd)
    <3>1. /\ armed' \subseteq armed
          /\ \A id \in armed' :
               /\ id \in DOMAIN fdOf' /\ fdOf'[id] = fdOf[id] /\ fdOf[id] # fd
               /\ fdOf[id] \in DOMAIN timerOf' /\ timerOf'[fdOf[id]] = id
      BY <2>1, StopTimer DEF ServerInv
    <3>2. cur' = fd /\ active' = active  BY <1>1 DEF listVars
    <3>3. QED  BY <3>1, <3>2 DEF ServerInv, TimerInv
  <2>2. CASE pc' = "check" /\ UNCHANGED timerVars
    BY <1>1, <2>2 DEF ServerInv, TimerInv, timerVars, listVars
  <2>3. QED  BY <1>1, <2>1, <2>2
<1>7. QED  BY <1>3, <1>4, <1>5, <1>6 DEF ServerInv

\* readFromSocket: the descriptor is shut down, or closed by a socket that is
\* not connected from then on; and the timer starts.
LEMMA RecvKeeps ==
  ASSUME ServerInv, root' = root, Recv
  PROVE  ServerInv'
<1>1. /\ pc = "recv" /\ cur \in DOMAIN active /\ cur \in Fds
      /\ UNCHANGED <<backlog, arrived, sent, running, cur, todo, revents, list, vacant, indexOf>>
  BY DEF Recv, ServerInv, WalkInv, TableInv, TablesAgree
<1>2. \/ /\ file' = [file EXCEPT ![cur].data = "none"] \/ file' = file
         /\ active' = active
      \/ /\ file' = HungUp(file, cur)
         /\ active' = [active EXCEPT ![cur].status =
                          IF root = "threaded" THEN @ ELSE "notConnected"]
  BY DEF Recv
<1>3. file' \in [Fds -> FileType]
  <2> USE <1>1 DEF ServerInv, WalkInv, FileType
  <2>1. CASE file' = [file EXCEPT ![cur].data = "none"] \/ file' = file  BY <2>1
  <2>2. CASE file' = HungUp(file, cur)  BY <2>2 DEF HungUp
  <2>3. QED  BY <1>2, <2>1, <2>2
<1>4. \/ pc' = "recv" /\ UNCHANGED timerVars
      \/ pc' = "check" /\ StartTimeoutTimer(cur)
  BY <1>1 DEF Recv
<1>5. DOMAIN active' = DOMAIN active  BY <1>2
<1>6. WalkInv'  BY <1>1, <1>3, <1>4 DEF ServerInv, WalkInv
<1>7. TableInv'  BY <1>1, <1>5 DEF ServerInv, TableInv, TablesAgree
<1>8. PeerInv'
  <2> USE DEF ServerInv, PeerInv
  <2>0. DOMAIN active \subseteq Fds /\ file \in [Fds -> FileType]
    BY DEF TableInv, TablesAgree, WalkInv
  <2>1. CASE /\ file' = [file EXCEPT ![cur].data = "none"] \/ file' = file
             /\ active' = active
    <3>1. \A fd \in Fds : file'[fd].peer = file[fd].peer /\ file'[fd].state = file[fd].state
      BY <1>1, <2>0, <2>1 DEF FileType
    <3>2. QED  BY <2>0, <2>1, <3>1
  <2>2. CASE /\ file' = HungUp(file, cur)
             /\ active' = [active EXCEPT ![cur].status =
                              IF root = "threaded" THEN @ ELSE "notConnected"]
    <3>1. /\ \A fd \in Fds \ {cur} : file'[fd] = file[fd]
          /\ file'[cur].peer = file[cur].peer
          /\ root = "threaded" => file'[cur].state = "dead"
      BY <1>1, <2>0, <2>2 DEF HungUp, FileType
    <3>2. /\ active' \in [DOMAIN active' -> [peer : Nat, status : {"connected", "notConnected"}]]
          /\ \A fd \in DOMAIN active \ {cur} : active'[fd] = active[fd]
          /\ active'[cur].peer = active[cur].peer
          /\ root = "threaded" => active'[cur].status = active[cur].status
          /\ root # "threaded" => active'[cur].status = "notConnected"
      BY <1>1, <2>2
    <3>3. QED  BY <1>5, <2>0, <3>1, <3>2
  <2>3. QED  BY <1>2, <2>1, <2>2
<1>9. TimerInv'
  <2>1. CASE UNCHANGED timerVars
    BY <1>1, <1>5, <2>1 DEF ServerInv, TimerInv, timerVars
  <2>2. CASE pc' = "check" /\ StartTimeoutTimer(cur)
    <3>1. \A id \in armed' :
            /\ id \in DOMAIN fdOf'
            /\ fdOf'[id] \in DOMAIN timerOf' /\ timerOf'[fdOf'[id]] = id
            /\ fdOf'[id] = cur \/ (id \in armed /\ fdOf'[id] = fdOf[id])
      BY <1>1, <2>2, StartTimer DEF ServerInv, TimerInv
    <3>2. QED  BY <1>1, <1>5, <2>2, <3>1 DEF ServerInv, TimerInv
  <2>3. QED  BY <1>4, <2>1, <2>2
<1>10. QED  BY <1>6, <1>7, <1>8, <1>9 DEF ServerInv

\* accept: a free descriptor and a free entry.  No connected TcpSocket has the
\* descriptor; one that has closed it may still be in the tables.
LEMMA AcceptKeeps ==
  ASSUME ServerInv, root' = root, Accept
  PROVE  ServerInv'
<1> DEFINE fd == Lowest(Free)
           new == [peer |-> arrived - backlog + 1, state |-> "open", data |-> "none"]
           f == [file EXCEPT ![fd] = new]
           i == Lowest(vacant)
<1>1. /\ pc = "accept" /\ backlog > 0 /\ backlog' = backlog - 1
      /\ AddNewConnection(fd, f)
      /\ todo' = DOMAIN indexOf'
      /\ UNCHANGED <<arrived, sent, running, pc, cur, revents>>
  BY DEF Accept
<1>2. fd \in Fds /\ file[fd].state = "closed"
  <2>1. Free \subseteq Nat /\ Free # {}  BY TcpServerAssumption DEF Accept, Free
  <2>2. QED  BY <2>1, LowestIn DEF Free
<1>3. new \in FileType /\ backlog' \in Nat /\ backlog' <= arrived
  BY <1>1 DEF ServerInv, WalkInv, FileType
<1>4. /\ f \in [Fds -> FileType] /\ f[fd] = new
      /\ \A d \in Fds \ {fd} : f[d] = file[d]
  BY <1>2, <1>3 DEF ServerInv, WalkInv
<1>5. new.peer \in Nat /\ new.state = "open"  BY <1>3 DEF FileType
<1> HIDE DEF fd, new, f, i
<1>6. DOMAIN active \subseteq Fds /\ DOMAIN indexOf = DOMAIN active
  BY DEF ServerInv, TableInv, TablesAgree
<1>7. fd \in DOMAIN active => active[fd].status = "notConnected" /\ root # "threaded"
  BY <1>2 DEF ServerInv, PeerInv
<1>8. CASE vacant = {}
  <2>1. file' = f /\ UNCHANGED <<listVars, timerVars>>
    BY <1>1, <1>8 DEF AddNewConnection
  <2>2. WalkInv'  BY <1>1, <1>3, <1>4, <2>1 DEF ServerInv, WalkInv, listVars
  <2>3. TableInv'  BY <2>1 DEF ServerInv, TableInv, TablesAgree, listVars
  <2>4. PeerInv'
    BY <1>4, <1>6, <1>7, <2>1 DEF ServerInv, PeerInv, listVars
  <2>5. TimerInv'  BY <1>1, <2>1 DEF ServerInv, TimerInv, listVars, timerVars
  <2>6. QED  BY <2>2, <2>3, <2>4, <2>5 DEF ServerInv
<1>9. ASSUME vacant # {} PROVE WalkInv' /\ TableInv'
  <2>1. /\ list' = [list EXCEPT ![i] = fd] /\ indexOf' = With(indexOf, fd, i)
        /\ vacant' = vacant \ {i}
        /\ file' \in {f, HungUp(f, fd)}
        /\ DOMAIN active' = DOMAIN active \cup {fd}
    BY <1>1, <1>9 DEF AddNewConnection, With, i
  <2>2. i \in vacant /\ i \in Indexes /\ vacant \subseteq Indexes
    <3>1. vacant \subseteq Indexes /\ Indexes \subseteq Nat
      BY TcpServerAssumption DEF ServerInv, TableInv, Indexes
    <3>2. QED  BY <1>9, <3>1, LowestIn DEF i
  <2>3. /\ DOMAIN indexOf' = DOMAIN indexOf \cup {fd} /\ indexOf'[fd] = i
        /\ \A d \in DOMAIN indexOf \ {fd} : indexOf'[d] = indexOf[d]
        /\ \A d \in DOMAIN indexOf : indexOf[d] # i
    BY <2>1, <2>2 DEF ServerInv, TableInv, TablesAgree, With
  <2>4. file' \in [Fds -> FileType]
    <3>1. HungUp(f, fd) \in [Fds -> FileType]  BY <1>2, <1>4 DEF HungUp, FileType
    <3>2. QED  BY <1>4, <2>1, <3>1
  <2>5. WalkInv'
    BY <1>1, <1>3, <2>4 DEF ServerInv, WalkInv
  <2>6. TableInv'
    <3>1. /\ indexOf' \in [DOMAIN indexOf' -> Indexes] /\ DOMAIN indexOf' \subseteq Fds
          /\ list' \in [Indexes -> Nat] /\ vacant' \subseteq Indexes
      BY <1>2, <2>1, <2>2, <2>3, TcpServerAssumption DEF ServerInv, TableInv, With
    <3>2. DOMAIN active' = DOMAIN indexOf'  BY <1>6, <2>1, <2>3
    <3>3. \A d \in DOMAIN indexOf' : list'[indexOf'[d]] = d /\ indexOf'[d] \notin vacant'
      BY <2>1, <2>2, <2>3 DEF ServerInv, TableInv, TablesAgree
    <3>4. \A k \in vacant' : list'[k] = 0
      BY <2>1, <2>2 DEF ServerInv, TableInv, TablesAgree
    <3>5. ASSUME root' = "threaded", NEW k \in Indexes \ vacant'
          PROVE  \E d \in DOMAIN indexOf' : indexOf'[d] = k
      <4>1. CASE k = i  BY <2>3, <4>1
      <4>2. CASE k # i
        <5>1. PICK d \in DOMAIN indexOf : indexOf[d] = k
          BY <2>1, <3>5, <4>2 DEF ServerInv, TableInv, TablesAgree
        <5>2. d # fd  BY <1>6, <1>7, <3>5, <5>1
        <5>3. QED  BY <2>3, <5>1, <5>2
      <4>3. QED  BY <4>1, <4>2
    <3>6. QED  BY <3>1, <3>2, <3>3, <3>4, <3>5 DEF TableInv, TablesAgree
  <2>7. QED  BY <2>5, <2>6
<1>10. CASE vacant # {} /\ fd \notin DOMAIN active
  <2>1. /\ active' = With(active, fd, [peer |-> f[fd].peer, status |-> "connected"])
        /\ file' = f /\ StartTimeoutTimer(fd)
    BY <1>1, <1>10 DEF AddNewConnection
  <2>2. /\ DOMAIN active' = DOMAIN active \cup {fd}
        /\ active'[fd] = [peer |-> new.peer, status |-> "connected"]
        /\ \A d \in DOMAIN active : d # fd /\ active'[d] = active[d]
    BY <1>4, <1>10, <2>1 DEF With
  <2>3. PeerInv'
    <3>1. active' \in [DOMAIN active' -> [peer : Nat, status : {"connected", "notConnected"}]]
      BY <1>5, <2>1, <2>2 DEF ServerInv, PeerInv, With
    <3>2. file'[fd].state # "closed" /\ file'[fd].peer = active'[fd].peer
      BY <1>4, <1>5, <2>1, <2>2
    <3>3. \A d \in DOMAIN active : file'[d] = file[d]
      BY <1>4, <1>6, <2>1, <2>2
    <3>4. QED  BY <2>2, <3>1, <3>2, <3>3 DEF ServerInv, PeerInv
  <2>4. TimerInv'
    <3>1. \A id \in armed : fdOf[id] # fd  BY <1>10 DEF ServerInv, TimerInv
    <3>2. \A id \in armed' :
            /\ id \in DOMAIN fdOf'
            /\ fdOf'[id] \in DOMAIN timerOf' /\ timerOf'[fdOf'[id]] = id
            /\ fdOf'[id] = fd \/ (id \in armed /\ fdOf'[id] = fdOf[id])
      BY <2>1, <3>1, StartTimer DEF ServerInv
    <3>3. pc' # "recv"  BY <1>1
    <3>4. QED  BY <2>2, <3>2, <3>3 DEF ServerInv, TimerInv
  <2>5. QED  BY <1>9, <1>10, <2>3, <2>4 DEF ServerInv
<1>11. CASE vacant # {} /\ fd \in DOMAIN active
  <2>1. file' = HungUp(f, fd) /\ UNCHANGED <<active, timerVars>>
    BY <1>1, <1>11 DEF AddNewConnection
  <2>2. \A d \in Fds \ {fd} : file'[d] = file[d]
    BY <1>4, <2>1 DEF HungUp
  <2>3. PeerInv'  BY <1>6, <1>7, <1>11, <2>1, <2>2 DEF ServerInv, PeerInv
  <2>4. TimerInv'  BY <1>1, <2>1 DEF ServerInv, TimerInv, timerVars
  <2>5. QED  BY <1>9, <1>11, <2>3, <2>4 DEF ServerInv
<1>12. QED  BY <1>8, <1>10, <1>11

\* connectionClosed: the connection leaves every table, and its timer goes.
LEMMA ClosedKeeps ==
  ASSUME ServerInv, root' = root, ConnectionClosed
  PROVE  ServerInv'
<1>1. /\ pc = "check" /\ cur \in DOMAIN indexOf /\ cur \in DOMAIN active /\ cur \in Fds
      /\ indexOf[cur] \in Indexes
  BY DEF ConnectionClosed, ServerInv, WalkInv, TableInv, TablesAgree
<1>2. /\ list' = [list EXCEPT ![indexOf[cur]] = 0]
      /\ vacant' = vacant \cup {indexOf[cur]}
      /\ indexOf' = Without(indexOf, cur) /\ active' = Without(active, cur)
      /\ StopTimeoutTimer(cur)
      /\ UNCHANGED <<backlog, arrived, sent, running, cur, revents>>
      /\ (pc' = "walk" /\ todo' \subseteq todo \ {cur}) \/ pc' = "undefined"
  BY DEF ConnectionClosed
<1>3. file' \in [Fds -> FileType] /\ \A d \in Fds \ {cur} : file'[d] = file[d]
  <2> USE <1>1 DEF ServerInv, WalkInv, FileType
  <2>1. CASE file' = HungUp(file, cur)  BY <2>1 DEF HungUp
  <2>2. CASE file' = file  BY <2>2
  <2>3. QED  BY <2>1, <2>2 DEF ConnectionClosed
<1>4. /\ DOMAIN indexOf' = DOMAIN indexOf \ {cur}
      /\ \A d \in DOMAIN indexOf' : indexOf'[d] = indexOf[d] /\ indexOf[d] # indexOf[cur]
  BY <1>1, <1>2 DEF ServerInv, TableInv, TablesAgree, Without
<1>5. /\ DOMAIN active' = DOMAIN active \ {cur}
      /\ \A d \in DOMAIN active' : active'[d] = active[d] /\ d \in Fds /\ file'[d] = file[d]
  BY <1>1, <1>2, <1>3 DEF ServerInv, WalkInv, TableInv, TablesAgree, Without
<1>6. WalkInv'
  <2>1. todo \subseteq DOMAIN indexOf  BY <1>1 DEF ServerInv, WalkInv
  <2>2. QED  BY <1>2, <1>3, <1>4, <2>1 DEF ServerInv, WalkInv
<1>7. TableInv'
  <2>1. /\ indexOf' \in [DOMAIN indexOf' -> Indexes] /\ DOMAIN indexOf' \subseteq Fds
        /\ list' \in [Indexes -> Nat] /\ vacant' \subseteq Indexes
    BY <1>1, <1>2, <1>4 DEF ServerInv, TableInv, Without
  <2>2. DOMAIN active' = DOMAIN indexOf'
    BY <1>4, <1>5 DEF ServerInv, TableInv, TablesAgree
  <2>3. \A d \in DOMAIN indexOf' : list'[indexOf'[d]] = d /\ indexOf'[d] \notin vacant'
    BY <1>2, <1>4 DEF ServerInv, TableInv, TablesAgree
  <2>4. \A k \in vacant' : list'[k] = 0
    BY <1>1, <1>2 DEF ServerInv, TableInv, TablesAgree
  <2>5. ASSUME root' = "threaded", NEW k \in Indexes \ vacant'
        PROVE  \E d \in DOMAIN indexOf' : indexOf'[d] = k
    <3>1. PICK d \in DOMAIN indexOf : indexOf[d] = k
      BY <1>2, <2>5 DEF ServerInv, TableInv, TablesAgree
    <3>2. d # cur  BY <1>2, <2>5, <3>1
    <3>3. QED  BY <1>4, <3>1, <3>2
  <2>6. QED  BY <2>1, <2>2, <2>3, <2>4, <2>5 DEF TableInv, TablesAgree
<1>8. PeerInv'
  <2>1. active' \in [DOMAIN active' -> [peer : Nat, status : {"connected", "notConnected"}]]
    BY <1>2, <1>5 DEF ServerInv, PeerInv, Without
  <2>2. QED  BY <1>5, <2>1 DEF ServerInv, PeerInv
<1>9. TimerInv'
  <2>1. /\ armed' \subseteq armed
        /\ \A id \in armed' :
             /\ id \in DOMAIN fdOf' /\ fdOf'[id] = fdOf[id] /\ fdOf[id] # cur
             /\ fdOf[id] \in DOMAIN timerOf' /\ timerOf'[fdOf[id]] = id
    BY <1>2, StopTimer DEF ServerInv
  <2>2. pc' # "recv"  BY <1>2
  <2>3. QED  BY <1>5, <2>1, <2>2 DEF ServerInv, TimerInv
<1>10. QED  BY <1>6, <1>7, <1>8, <1>9 DEF ServerInv

LEMMA StepInv ==
  ASSUME ServerInv, [Next]_vars
  PROVE  ServerInv'
<1>0. root' = root  BY DEF Next, vars
<1>1. CASE Peers  BY <1>0, <1>1, PeersKeep
<1>2. CASE \E id \in armed : Expire(id)  BY <1>0, <1>2, ExpireKeeps
<1>3. CASE Poll \/ Accepted \/ Walked \/ Finish \/ KeepOpen \/ Destroy \/ UNCHANGED vars
  BY <1>0, <1>3, WalkKeeps
<1>4. CASE Visit  BY <1>0, <1>4, VisitKeeps
<1>5. CASE Recv  BY <1>0, <1>5, RecvKeeps
<1>6. CASE Accept  BY <1>0, <1>6, AcceptKeeps
<1>7. CASE ConnectionClosed  BY <1>0, <1>7, ClosedKeeps
<1>8. QED  BY <1>1, <1>2, <1>3, <1>4, <1>5, <1>6, <1>7 DEF Next, Run

LEMMA ServerInvariance == Spec => []ServerInv
BY InvInit, StepInv, PTL DEF Spec

-----------------------------------------------------------------------------
(* Types: what the invariant does not say of the bounds and the walk.      *)

RestOK ==
  /\ arrived \in 0..MaxArrivals /\ sent \in 0..MaxSends /\ running \in BOOLEAN
  /\ pc \in {"recv", "check"} => cur \in todo
  /\ DOMAIN fdOf \subseteq TimerIds

LEMMA RestStep ==
  ASSUME ServerInv, RestOK, [Next]_vars
  PROVE  RestOK'
<1> USE TcpServerAssumption DEF RestOK, netVars, loopVars, listVars, timerVars
<1>0. ASSUME NEW fd, StartTimeoutTimer(fd) PROVE DOMAIN fdOf' \subseteq TimerIds
  <2>1. Lowest(Unused) \in Unused  BY <1>0, LowestIn DEF StartTimeoutTimer, Unused
  <2>2. QED  BY <1>0, <2>1 DEF StartTimeoutTimer, Unused, With
<1>1. CASE Peers
  <2>1. CASE Arrive  BY <2>1 DEF Arrive
  <2>2. ASSUME NEW fd \in Fds, Send(fd) PROVE RestOK'  BY <2>2 DEF Send
  <2>3. ASSUME NEW fd \in Fds, Leave(fd) PROVE RestOK'  BY <2>3 DEF Leave
  <2>4. QED  BY <1>1, <2>1, <2>2, <2>3 DEF Peers
<1>2. ASSUME NEW id \in armed, Expire(id) PROVE RestOK'  BY <1>2 DEF Expire
<1>3. CASE Poll \/ Accepted \/ Walked \/ Finish \/ KeepOpen \/ Destroy \/ UNCHANGED vars
  BY <1>3 DEF Poll, Accepted, Walked, Finish, KeepOpen, Destroy, vars
<1>4. CASE Visit
  <2>1. todo \subseteq Nat
    BY <1>4 DEF Visit, ServerInv, WalkInv, TableInv
  <2>2. cur' \in todo' /\ UNCHANGED <<arrived, sent, running>>
    BY <1>4, <2>1, LowestIn DEF Visit
  <2>3. DOMAIN fdOf' \subseteq DOMAIN fdOf
    BY <1>4 DEF Visit, StopTimeoutTimer, Without
  <2>4. QED  BY <2>2, <2>3
<1>5. CASE Recv
  BY <1>0, <1>5 DEF Recv
<1>6. CASE Accept
  BY <1>0, <1>6 DEF Accept, AddNewConnection
<1>7. CASE ConnectionClosed
  BY <1>7 DEF ConnectionClosed, StopTimeoutTimer, Without
<1>8. QED  BY <1>1, <1>2, <1>3, <1>4, <1>5, <1>6, <1>7 DEF Next, Run

-----------------------------------------------------------------------------
(* The properties                                                          *)

\* Every variable keeps its type, for any number of entries, peers and messages.
THEOREM ServerTypeCorrect == Spec => []TypeOK
<1>1. Init => RestOK  BY TcpServerAssumption DEF Init, RestOK, Nothing
<1>2. ServerInv /\ RestOK /\ [Next]_vars => RestOK'  BY RestStep
<1>3. ServerInv /\ RestOK => TypeOK
  BY DEF ServerInv, RestOK, WalkInv, TimerInv, FileType, TypeOK
<1>4. QED  BY <1>1, <1>2, <1>3, ServerInvariance, PTL DEF Spec

\* The poll list, the map of its entries, the set of free entries and the map
\* of connections agree, however many peers come and go: what is polled can be
\* looked up.  No entry is lost below a br_threaded_object; below a plain root
\* some are, when a descriptor comes back that is still in the tables.
THEOREM ServerTablesAgree == Spec => []TablesAgree
<1>1. ServerInv => TablesAgree  BY DEF ServerInv, TableInv
<1>2. QED  BY <1>1, ServerInvariance, PTL

\* No connected TcpSocket reads from another peer than the one it was made
\* for, although descriptors that disconnect() closed come back for others
\* while the tables still have the socket that closed them.
THEOREM ServerOwnPeer == Spec => []OwnPeer
<1>1. ServerInv => OwnPeer  BY DEF ServerInv, PeerInv, OwnPeer
<1>2. QED  BY <1>1, ServerInvariance, PTL

\* Every timer that runs is the one of a connection that exists, although
\* stopTimeoutTimer leaves both maps alone when the timer has expired.
THEOREM ServerTimersKnown == Spec => []TimersKnown
<1>1. ServerInv => TimersKnown  BY DEF ServerInv, TimerInv, TimersKnown
<1>2. QED  BY <1>1, ServerInvariance, PTL

-----------------------------------------------------------------------------
(* What poll said of an entry, and what has become of it since             *)

\* A hang-up that was reported is that of the connection in the entry now,
\* unless its socket has closed the descriptor; of a free entry none was, so
\* that a peer that is accepted into it is safe.
HangUpInv ==
  /\ pc \in {"accept", "walk", "recv", "check"} =>
       \A fd \in DOMAIN indexOf :
         "hup" \in revents[indexOf[fd]] =>
           file[fd].state = "dead" \/ active[fd].status # "connected"
  /\ pc = "accept" => \A i \in vacant : "hup" \notin revents[i]

\* The steps of others leave a connection that is dead dead.
LEMMA DeadStaysDead ==
  ASSUME ServerInv, Peers, NEW fd \in Fds, file[fd].state = "dead"
  PROVE  file'[fd].state = "dead"
<1> USE DEF ServerInv, WalkInv, FileType
<1>1. CASE Arrive  BY <1>1 DEF Arrive
<1>2. ASSUME NEW d \in Fds, Send(d) PROVE file'[fd].state = "dead"
  BY <1>2 DEF Send
<1>3. ASSUME NEW d \in Fds, Leave(d) PROVE file'[fd].state = "dead"
  BY <1>3 DEF Leave
<1>4. QED  BY <1>1, <1>2, <1>3 DEF Peers

LEMMA HangUpStep ==
  ASSUME ServerInv, HangUpInv, [Next]_vars
  PROVE  HangUpInv'
<1>0. /\ DOMAIN indexOf \subseteq Fds /\ DOMAIN active = DOMAIN indexOf
      /\ file \in [Fds -> FileType]
  BY DEF ServerInv, WalkInv, TableInv, TablesAgree
<1>1. CASE Peers
  <2>1. UNCHANGED <<pc, indexOf, revents, vacant, active>>
    BY <1>1 DEF Peers, Arrive, Send, Leave, loopVars, listVars
  <2>2. QED  BY <1>0, <1>1, <2>1, DeadStaysDead DEF HangUpInv
<1>2. CASE Poll
  <2>1. /\ revents' = [i \in 0..Size - 1 |-> Reported(i)]
        /\ UNCHANGED <<file, indexOf, vacant, active>>
    BY <1>2 DEF Poll, netVars, listVars
  <2>2. ASSUME NEW fd \in DOMAIN indexOf', "hup" \in revents'[indexOf'[fd]]
        PROVE  file'[fd].state = "dead"
    <3>1. indexOf[fd] \in 0..Size - 1 /\ indexOf[fd] # 0 /\ list[indexOf[fd]] = fd
      BY <2>1, <2>2, TcpServerAssumption DEF ServerInv, TableInv, TablesAgree, Indexes
    <3>2. fd \in Fds /\ fd # 0 /\ file[fd] \in FileType
      BY <1>0, <2>1, <2>2, TcpServerAssumption
    <3>3. "hup" \in Reported(indexOf[fd])  BY <2>1, <2>2, <3>1
    <3>4. file[fd].state = "dead"  BY <3>1, <3>2, <3>3 DEF Reported, FileType
    <3>5. QED  BY <2>1, <3>4
  <2>3. ASSUME NEW i \in vacant' PROVE "hup" \notin revents'[i]
    <3>1. i \in 0..Size - 1 /\ i # 0 /\ list[i] = 0
      BY <2>1, <2>3, TcpServerAssumption DEF ServerInv, TableInv, TablesAgree, Indexes
    <3>2. Reported(i) = {}  BY <3>1 DEF Reported
    <3>3. QED  BY <2>1, <3>1, <3>2
  <2>4. QED  BY <2>2, <2>3 DEF HangUpInv
<1>3. CASE Accept
  <2> DEFINE fd == Lowest(Free)
             f == [file EXCEPT ![fd] =
                     [peer |-> arrived - backlog + 1, state |-> "open", data |-> "none"]]
             i == Lowest(vacant)
  <2>1. /\ pc = "accept" /\ UNCHANGED <<pc, revents>> /\ AddNewConnection(fd, f)
    BY <1>3 DEF Accept
  <2>2. fd \in Fds /\ file[fd].state = "closed"
    <3>1. Free \subseteq Nat /\ Free # {}
      BY <1>3, TcpServerAssumption DEF Accept, Free
    <3>2. QED  BY <3>1, LowestIn DEF Free
  <2>3. \A d \in Fds \ {fd} : f[d] = file[d] /\ HungUp(f, fd)[d] = file[d]
    BY <1>0, <2>2 DEF HungUp
  <2>4. fd \in DOMAIN active => active[fd].status # "connected"
    BY <2>2 DEF ServerInv, PeerInv
  <2>5. /\ file' \in {f, HungUp(f, fd)}
        /\ \A d \in DOMAIN active : active'[d] = active[d]
    BY <2>1 DEF AddNewConnection, With, listVars
  <2> HIDE DEF fd, f
  <2>6. CASE vacant = {}
    <3>1. UNCHANGED <<indexOf, vacant>>
      BY <2>1, <2>6 DEF AddNewConnection, listVars
    <3>2. QED  BY <1>0, <2>1, <2>3, <2>4, <2>5, <3>1 DEF HangUpInv
  <2>7. CASE vacant # {}
    <3>1. /\ indexOf' = With(indexOf, fd, i) /\ vacant' = vacant \ {i}
      BY <2>1, <2>7 DEF AddNewConnection
    <3>2. i \in vacant
      <4>1. vacant \subseteq Nat
        BY TcpServerAssumption DEF ServerInv, TableInv, Indexes
      <4>2. QED  BY <2>7, <4>1, LowestIn
    <3> HIDE DEF i
    <3>3. "hup" \notin revents'[i]  BY <2>1, <3>2 DEF HangUpInv
    <3>4. /\ DOMAIN indexOf' = DOMAIN indexOf \cup {fd} /\ indexOf'[fd] = i
          /\ \A d \in DOMAIN indexOf \ {fd} : indexOf'[d] = indexOf[d]
      BY <3>1 DEF With
    <3>5. ASSUME NEW d \in DOMAIN indexOf', "hup" \in revents'[indexOf'[d]]
          PROVE  file'[d].state = "dead" \/ active'[d].status # "connected"
      <4>1. d \in DOMAIN indexOf \ {fd}  BY <3>3, <3>4, <3>5
      <4>2. "hup" \in revents[indexOf[d]]  BY <2>1, <3>4, <3>5, <4>1
      <4>3. file'[d] = file[d] /\ active'[d] = active[d]
        BY <1>0, <2>3, <2>5, <4>1
      <4>4. QED  BY <2>1, <4>1, <4>2, <4>3 DEF HangUpInv
    <3>6. QED  BY <2>1, <3>1, <3>5 DEF HangUpInv
  <2>8. QED  BY <2>6, <2>7
<1>4. CASE Recv
  <2>1. /\ pc = "recv" /\ pc' # "accept" /\ UNCHANGED <<indexOf, revents>>
        /\ cur \in Fds /\ cur \in DOMAIN active
    BY <1>0, <1>4 DEF Recv, ServerInv, WalkInv
  <2>2. \/ /\ file' = [file EXCEPT ![cur].data = "none"] \/ file' = file
           /\ active' = active
        \/ /\ file' = HungUp(file, cur)
           /\ active' = [active EXCEPT ![cur].status =
                            IF root = "threaded" THEN @ ELSE "notConnected"]
    BY <1>4 DEF Recv
  <2>3. \A d \in DOMAIN active :
          file[d].state = "dead" \/ active[d].status # "connected" =>
            file'[d].state = "dead" \/ active'[d].status # "connected"
    <3>1. CASE /\ file' = [file EXCEPT ![cur].data = "none"] \/ file' = file
               /\ active' = active
      BY <1>0, <2>1, <3>1 DEF FileType
    <3>2. CASE /\ file' = HungUp(file, cur)
               /\ active' = [active EXCEPT ![cur].status =
                                IF root = "threaded" THEN @ ELSE "notConnected"]
      <4>1. \A d \in DOMAIN active \ {cur} : file'[d] = file[d] /\ active'[d] = active[d]
        BY <1>0, <2>1, <3>2 DEF HungUp
      <4>2. CASE root = "threaded"
        BY <1>0, <2>1, <3>2, <4>1, <4>2 DEF HungUp, FileType
      <4>3. CASE root # "threaded"
        <5>1. active'[cur].status = "notConnected"
          BY <2>1, <3>2, <4>3 DEF ServerInv, PeerInv
        <5>2. QED  BY <4>1, <5>1
      <4>4. QED  BY <4>2, <4>3
    <3>3. QED  BY <2>2, <3>1, <3>2
  <2>4. QED  BY <1>0, <2>1, <2>3 DEF HangUpInv
<1>5. CASE ConnectionClosed
  <2>1. /\ pc = "check" /\ pc' # "accept" /\ UNCHANGED revents
        /\ indexOf' = Without(indexOf, cur) /\ active' = Without(active, cur)
        /\ cur \in Fds
    BY <1>0, <1>5 DEF ConnectionClosed, ServerInv, WalkInv
  <2>2. /\ DOMAIN indexOf' = DOMAIN indexOf \ {cur}
        /\ \A d \in DOMAIN indexOf' : indexOf'[d] = indexOf[d] /\ active'[d] = active[d]
    BY <1>0, <2>1 DEF Without
  <2>3. \A d \in DOMAIN indexOf' : file'[d] = file[d]
    BY <1>0, <1>5, <2>1, <2>2 DEF ConnectionClosed, HungUp
  <2>4. QED  BY <2>1, <2>2, <2>3 DEF HangUpInv
<1>6. CASE Accepted \/ Walked \/ Visit \/ KeepOpen \/ Finish \/ Destroy \/ UNCHANGED vars
  <2>1. UNCHANGED <<file, indexOf, revents, vacant, active>>
    BY <1>6 DEF Accepted, Walked, Visit, KeepOpen, Finish, Destroy, vars, netVars, loopVars,
                listVars
  <2>2. /\ pc' = "accept" => pc = "accept"
        /\ pc' \in {"walk", "recv", "check"} => pc \in {"accept", "walk", "recv", "check"}
    BY <1>6 DEF Accepted, Walked, Visit, KeepOpen, Finish, Destroy, vars, loopVars
  <2>3. QED  BY <2>1, <2>2 DEF HangUpInv
<1>7. CASE \E id \in armed : Expire(id)
  BY <1>7 DEF Expire, netVars, loopVars, listVars, HangUpInv
<1>8. QED
  BY <1>1, <1>2, <1>3, <1>4, <1>5, <1>6, <1>7 DEF Next, Run

\* connectionClosed only ever drops a connection that its peer has ended or
\* whose socket has disconnected, although what it goes by was reported before
\* peers were accepted, into entries and descriptors that were used before.
THEOREM ServerOnlyLeaversDropped == Spec => OnlyLeaversDropped
<1> DEFINE Drops == \A fd \in DOMAIN active :
                      fd \notin DOMAIN active' =>
                        file[fd].state = "dead" \/ active[fd].status # "connected"
<1>1. Init => HangUpInv  BY DEF Init, HangUpInv
<1>2. ServerInv /\ HangUpInv /\ [Next]_vars => [Drops]_vars
  <2> SUFFICES ASSUME ServerInv, HangUpInv, [Next]_vars,
                      NEW fd \in DOMAIN active, fd \notin DOMAIN active'
               PROVE  file[fd].state = "dead" \/ active[fd].status # "connected"
    BY Zenon
  <2>1. CASE ConnectionClosed
    <3>1. active' = Without(active, cur) /\ pc = "check" /\ "hup" \in revents[indexOf[cur]]
      BY <2>1 DEF ConnectionClosed
    <3>2. fd = cur  BY <3>1 DEF Without
    <3>3. fd \in DOMAIN indexOf  BY DEF ServerInv, TableInv, TablesAgree
    <3>4. QED  BY <3>1, <3>2, <3>3 DEF HangUpInv
  <2>2. CASE Accept
    BY <2>2 DEF Accept, AddNewConnection, With, listVars
  <2>3. CASE Recv
    BY <2>3 DEF Recv
  <2>4. CASE ~(ConnectionClosed \/ Accept \/ Recv)
    <3>1. active' = active
      BY <2>4 DEF Next, Peers, Run, Arrive, Send, Leave, Expire, Poll, Accepted, Walked, Visit,
                  KeepOpen, Finish, Destroy, vars, listVars
    <3>2. QED  BY <3>1
  <2>5. QED  BY <2>1, <2>2, <2>3, <2>4
<1>3. Spec => []HangUpInv
  BY <1>1, HangUpStep, ServerInvariance, PTL DEF Spec
<1>4. QED
  BY <1>2, <1>3, ServerInvariance, PTL DEF Spec, OnlyLeaversDropped
=============================================================================
