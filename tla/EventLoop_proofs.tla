-------------------------- MODULE EventLoop_proofs --------------------------
(***************************************************************************)
(* For every set of callers and every number of calls, as long as the      *)
(* deque is not corrupt: the types of                                      *)
(* EventLoop, the bound on what runs after the stop, and, when calls of    *)
(* addEvent do not overlap, the order of the events and the channel the    *)
(* loop implements.                                                        *)
(***************************************************************************)
EXTENDS EventLoop, FiniteSets, FiniteSetTheorems, TLAPS

-----------------------------------------------------------------------------
(* After the stop: the loop may be between the test of _running and the    *)
(* next one, with at most one event to begin.                              *)

\* _running is cleared by the destructor only; once it is clear, the loop
\* that has begun a late event goes on to test _running and ends.
StopInv ==
  /\ running \in BOOLEAN
  /\ owner \in {"alive", "notify", "join", "destroyed"}
  /\ running <=> owner = "alive"
  /\ worker \in {"top", "evaluate", "toBlock", "blocked", "take", "running",
                 "done", "undefined", "corrupt"}
  /\ late \in {0, 1}
  /\ running => late = 0
  /\ late = 1 => worker \in {"running", "top", "done", "corrupt"}

LEMMA StopInvInductive == StopInv /\ [Next]_vars => StopInv'
<1> SUFFICES ASSUME StopInv, [Next]_vars PROVE StopInv'
  OBVIOUS
<1> USE DEF StopInv, Woken
<1>1. ASSUME NEW t \in Callers, AddEvent(t) PROVE StopInv'
  <2>1. CASE Construct(t)  BY <2>1 DEF Construct
  <2>2. CASE Advance(t)    BY <2>2 DEF Advance
  <2>3. CASE NotifyOne(t)  BY <2>3 DEF NotifyOne
  <2>4. QED  BY <1>1, <2>1, <2>2, <2>3 DEF AddEvent
<1>2. CASE Run
  <2>1. CASE Top       BY <2>1 DEF Top
  <2>2. CASE Evaluate  BY <2>2 DEF Evaluate
  <2>3. CASE Block     BY <2>3 DEF Block
  <2>4. CASE Take      BY <2>4 DEF Take
  <2>5. CASE Finish    BY <2>5 DEF Finish
  <2>6. QED  BY <1>2, <2>1, <2>2, <2>3, <2>4, <2>5 DEF Run
<1>3. CASE Spurious  BY <1>3 DEF Spurious
<1>4. CASE Destroy
  <2>1. CASE Stop       BY <2>1 DEF Stop
  <2>2. CASE NotifyAll  BY <2>2 DEF NotifyAll
  <2>3. CASE Join       BY <2>3 DEF Join
  <2>4. QED  BY <1>4, <2>1, <2>2, <2>3 DEF Destroy
<1>5. CASE UNCHANGED vars  BY <1>5 DEF vars
<1>6. QED  BY <1>1, <1>2, <1>3, <1>4, <1>5 DEF Next

\* At most one event is begun after the destructor cleared _running, for any
\* callers and whether or not calls of addEvent overlap.
THEOREM StopBounded == Spec => []LateAtMostOnce
<1>1. Init => StopInv  BY DEF Init, StopInv
<1>2. StopInv => LateAtMostOnce  BY DEF StopInv, LateAtMostOnce
<1>3. QED  BY <1>1, <1>2, StopInvInductive, PTL DEF Spec

-----------------------------------------------------------------------------
(* Types.  That the end cursor stays within the bound is a counting        *)
(* argument: each call still building an element has a cell to come.       *)

Built == {t \in Callers : caller[t] \in {"built", "moving"}}

TypeInv ==
  /\ TypeOK
  /\ head <= MaxEvents
  /\ worker = "running" => head < MaxEvents
  /\ cells[MaxEvents + 1] = Raw
  /\ IsFiniteSet(Built)
  /\ tail + Cardinality(Built) <= made
  /\ \A t \in Built : cursor[t] + Cardinality(Built) <= made

LEMMA TypeInvInit == Init => TypeInv
<1> SUFFICES ASSUME Init PROVE TypeInv
  OBVIOUS
<1>1. Built = {}  BY DEF Init, Built
<1>2. IsFiniteSet(Built) /\ Cardinality(Built) = 0  BY <1>1, FS_EmptySet
<1>3. QED  BY <1>1, <1>2, EventLoopAssumption DEF Init, TypeInv, TypeOK, Raw

\* The calls that touch the end cursor, with the number of elements in the
\* making before and after.
LEMMA TypeInvAddEvent ==
  ASSUME TypeInv, NEW t \in Callers, AddEvent(t)
  PROVE  TypeInv'
<1> USE EventLoopAssumption DEF TypeInv, TypeOK, Raw, queueVars, callVars
<1>0. Cardinality(Built) \in Nat  BY FS_CardinalityType
<1>1. CASE Construct(t)
  <2> USE <1>1 DEF Construct, MayCall
  <2>1. Built' = Built \cup {t} /\ t \notin Built  BY DEF Built
  <2>2. IsFiniteSet(Built') /\ Cardinality(Built') = Cardinality(Built) + 1
    BY <2>1, FS_AddElement
  <2>3. tail + 1 \in 1..MaxEvents /\ made + 1 \in 1..MaxEvents  BY <1>0
  <2>4. ASSUME NEW u \in Built' PROVE cursor'[u] + Cardinality(Built') <= made'
    <3>1. CASE u = t  BY <3>1, <2>2, <1>0
    <3>2. CASE u # t
      <4>1. u \in Built /\ u \in Callers  BY <3>2, <2>1 DEF Built
      <4>2. cursor'[u] = cursor[u] /\ cursor[u] \in Nat  BY <3>2, <4>1
      <4>3. cursor[u] + Cardinality(Built) <= made  BY <4>1
      <4>4. made' = made + 1 /\ made \in Nat  OBVIOUS
      <4> HIDE DEF Construct, TypeInv
      <4>5. QED  BY <4>2, <4>3, <4>4, <2>2, <1>0
    <3>3. QED  BY <3>1, <3>2
  <2>5. TypeOK'  BY <2>3
  <2>6. cells'[MaxEvents + 1] = Raw  BY <2>3
  <2>7. tail' + Cardinality(Built') <= made'  BY <1>0, <2>2
  <2> HIDE DEF TypeOK
  <2>8. QED  BY <2>2, <2>4, <2>5, <2>6, <2>7
<1>2. CASE Advance(t)
  <2> USE <1>2 DEF Advance
  <2>1. Built' = Built \ {t} /\ t \in Built  BY DEF Built
  <2>2. IsFiniteSet(Built') /\ Cardinality(Built') = Cardinality(Built) - 1
    BY <2>1, FS_RemoveElement
  <2>3. tail' + Cardinality(Built') <= made' /\ tail' \in Nat
    BY <1>0, <2>1, <2>2
  <2>4. Cardinality(Built') \in Nat  BY <2>2, FS_CardinalityType
  <2>5. ASSUME NEW u \in Built' PROVE cursor'[u] + Cardinality(Built') <= made'
    <3>1. u \in Built /\ u \in Callers  BY <2>1 DEF Built
    <3>2. cursor'[u] = cursor[u] /\ cursor[u] \in Nat  BY <3>1
    <3>3. QED  BY <3>1, <3>2, <2>2, <1>0
  <2>6. tail' \in 0..MaxEvents  BY <2>3, <2>4
  <2>7. /\ worker' \in {worker, "corrupt"}
        /\ UNCHANGED <<running, cells, head, cursor, made, executed, late, owner>>
        /\ caller' = [caller EXCEPT ![t] = "pushed"]
    OBVIOUS
  <2> HIDE DEF Advance
  <2>8. TypeOK'  BY <2>6, <2>7
  <2> HIDE DEF TypeOK
  <2>9. head' <= MaxEvents /\ (worker' = "running" => head' < MaxEvents)
    BY <2>7
  <2>10. QED  BY <2>2, <2>3, <2>5, <2>7, <2>8, <2>9
<1>3. CASE NotifyOne(t)
  <2> USE <1>3 DEF NotifyOne, Woken
  <2>1. Built' = Built  BY DEF Built
  <2>2. QED  BY <2>1
<1>4. QED  BY <1>1, <1>2, <1>3 DEF AddEvent

\* The steps of the loop and of the destructor leave the callers alone.
LEMMA TypeInvOther ==
  ASSUME TypeInv, Run \/ Spurious \/ Destroy \/ UNCHANGED vars
  PROVE  TypeInv'
<1> USE EventLoopAssumption DEF TypeInv, TypeOK, Raw, queueVars, callVars
<1>1. Built' = Built
  BY DEF Built, Run, Top, Evaluate, Block, Take, Finish, Spurious, Destroy,
         Stop, NotifyAll, Join, vars
<1>2. CASE Top  BY <1>1, <1>2 DEF Top
<1>3. CASE Evaluate  BY <1>1, <1>3 DEF Evaluate
<1>4. CASE Block  BY <1>1, <1>4 DEF Block
<1>5. CASE Take
  <2> USE <1>5 DEF Take
  <2>1. CASE worker' # "running"  BY <1>1, <2>1
  <2>2. CASE worker' = "running"
    <3>1. head < MaxEvents
      <4>1. cells[head + 1] # Raw  BY <2>2
      <4>2. head + 1 # MaxEvents + 1  BY <4>1
      <4>3. head \in Nat /\ head <= MaxEvents  OBVIOUS
      <4> HIDE DEF TypeInv, Take
      <4>4. QED  BY <4>2, <4>3
    <3>2. head + 1 \in 1..MaxEvents + 1 /\ cells[head + 1] # Raw  BY <2>2, <3>1
    <3>3. cells[head + 1] \in 1..MaxEvents  BY <3>2
    <3>4. executed' = Append(executed, cells[head + 1])  BY <2>2
    <3> DEFINE e == cells[head + 1]
    <3>5. e \in 1..MaxEvents /\ executed \in Seq(1..MaxEvents)  BY <3>3
    <3> HIDE DEF e, TypeInv, TypeOK
    <3>6. executed' \in Seq(1..MaxEvents)  BY <3>4, <3>5 DEF e
    <3> USE DEF TypeInv, TypeOK
    <3>7. /\ worker' = "running" /\ late' \in Nat
          /\ UNCHANGED <<running, cells, head, tail, caller, cursor, made, owner>>
      BY <2>2
    <3> HIDE DEF Take
    <3>8. TypeOK'  BY <3>6, <3>7
    <3> HIDE DEF TypeOK
    <3>9. QED  BY <1>1, <3>1, <3>7, <3>8
  <2>3. QED  BY <2>1, <2>2
<1>6. CASE Finish  BY <1>1, <1>6 DEF Finish
<1>7. CASE Spurious  BY <1>1, <1>7 DEF Spurious
<1>8. CASE Stop  BY <1>1, <1>8 DEF Stop
<1>9. CASE NotifyAll  BY <1>1, <1>9 DEF NotifyAll, Woken
<1>10. CASE Join  BY <1>1, <1>10 DEF Join
<1>11. CASE UNCHANGED vars  BY <1>1, <1>11 DEF vars
<1>12. QED
  BY <1>2, <1>3, <1>4, <1>5, <1>6, <1>7, <1>8, <1>9, <1>10, <1>11
  DEF Run, Destroy

LEMMA TypeInvariance == Spec => []TypeInv
<1>1. TypeInv /\ [Next]_vars => TypeInv'
  BY TypeInvAddEvent, TypeInvOther DEF Next
<1>2. QED  BY TypeInvInit, <1>1, PTL DEF Spec

\* Every variable of the event loop keeps its type, for any callers and any
\* size of the deque's nodes, when calls of addEvent overlap too; what a corrupt
\* deque does to the memory is not part of it.
THEOREM TypeCorrect == Spec => []TypeOK
<1>1. TypeInv => TypeOK  BY DEF TypeInv
<1>2. QED  BY <1>1, TypeInvariance, PTL

-----------------------------------------------------------------------------
(* No event is run twice by a loop whose deque is sound: an event has one  *)
(* cell, and the cell is emptied when the event has been run.              *)

Cell == 1..MaxEvents + 1

OnceInv ==
  /\ \A i, j \in Cell : cells[i] = cells[j] /\ cells[i] # Raw => i = j
  /\ \A i \in Cell : cells[i] <= made
  /\ \A i \in DOMAIN executed : executed[i] <= made
  /\ \A i \in DOMAIN executed, j \in Cell :
       executed[i] = cells[j] =>
         worker \in {"running", "corrupt"} /\ j = head + 1
  /\ AtMostOnce

LEMMA OnceInvInductive == TypeInv /\ OnceInv /\ [Next]_vars => OnceInv'
<1> SUFFICES ASSUME TypeInv, OnceInv, [Next]_vars PROVE OnceInv'
  OBVIOUS
<1> USE EventLoopAssumption DEF OnceInv, AtMostOnce, Cell, Raw, queueVars, callVars
<1>0. /\ cells \in [Cell -> 0..MaxEvents] /\ executed \in Seq(1..MaxEvents)
      /\ head \in Nat /\ head <= MaxEvents /\ made \in Nat /\ tail \in 0..MaxEvents
      /\ worker = "running" => head < MaxEvents
  BY DEF TypeInv, TypeOK
<1>1. ASSUME UNCHANGED <<cells, executed, head, made>>,
             worker \in {"running", "corrupt"} => worker' \in {"running", "corrupt"}
      PROVE  OnceInv'
  BY <1>1
<1>2. ASSUME NEW t \in Callers, Construct(t) PROVE OnceInv'
  <2> USE <1>2 DEF Construct
  <2>1. tail + 1 \in Cell /\ made' = made + 1  BY <1>0
  <2>2. \A i \in Cell : cells'[i] = IF i = tail + 1 THEN made + 1 ELSE cells[i]
    BY <1>0, <2>1
  <2>3. \A i \in DOMAIN executed : executed[i] # made + 1  BY <1>0
  <2>4. \A i \in Cell : cells[i] # made + 1  BY <1>0
  <2>5. UNCHANGED <<executed, head, worker>>  OBVIOUS
  <2>6. /\ \A i \in Cell : cells[i] \in Nat /\ cells[i] <= made
        /\ \A i \in DOMAIN executed : executed[i] \in Nat /\ executed[i] <= made
    <3> HIDE DEF Construct, AtMostOnce
    <3>1. \A i \in Cell : cells[i] \in 0..MaxEvents
      <4> HIDE DEF Cell
      <4>1. QED  BY <1>0
    <3>2. \A i \in DOMAIN executed : executed[i] \in 1..MaxEvents  BY <1>0
    <3>3. QED  BY <3>1, <3>2
  <2> HIDE DEF Construct
  <2>7. ASSUME NEW i \in Cell, NEW j \in Cell,
               cells'[i] = cells'[j], cells'[i] # Raw, i # j
        PROVE  FALSE
    <3>1. CASE i = tail + 1  BY <2>2, <2>4, <2>7, <3>1
    <3>2. CASE j = tail + 1  BY <2>2, <2>4, <2>7, <3>2
    <3>3. CASE i # tail + 1 /\ j # tail + 1  BY <2>2, <2>7, <3>3
    <3>4. QED  BY <3>1, <3>2, <3>3
  <2>8. ASSUME NEW i \in Cell PROVE cells'[i] <= made'
    <3>1. CASE i = tail + 1  BY <1>0, <2>1, <2>2, <3>1
    <3>2. CASE i # tail + 1  BY <1>0, <2>1, <2>2, <2>6, <3>2
    <3>3. QED  BY <3>1, <3>2
  <2>9. \A i \in DOMAIN executed' : executed'[i] <= made'
    BY <1>0, <2>1, <2>5, <2>6
  <2>10. \A i \in DOMAIN executed', j \in Cell :
           executed'[i] = cells'[j] =>
             worker' \in {"running", "corrupt"} /\ j = head' + 1
    BY <2>2, <2>3, <2>5
  <2>11. AtMostOnce'  BY <2>5
  <2> HIDE DEF AtMostOnce
  <2>12. QED  BY <2>7, <2>8, <2>9, <2>10, <2>11
<1>3. ASSUME NEW t \in Callers, Advance(t) PROVE OnceInv'
  BY <1>1, <1>3 DEF Advance
<1>4. ASSUME NEW t \in Callers, NotifyOne(t) PROVE OnceInv'
  BY <1>1, <1>4 DEF NotifyOne, Woken
<1>5. CASE Take
  <2> USE <1>5 DEF Take
  <2>1. CASE worker' # "running"  BY <1>1, <2>1
  <2>2. CASE worker' = "running"
    <3> DEFINE e == cells[head + 1]
    <3>1. executed' = Append(executed, e) /\ e # 0 /\ worker = "take"  BY <2>2
    <3>2. head + 1 \in Cell /\ e \in 1..MaxEvents  BY <1>0, <3>1
    <3>3. UNCHANGED <<cells, head, made>>  OBVIOUS
    <3>4. \A i \in DOMAIN executed : executed[i] # e  BY <3>1, <3>2
    <3>5. \A j \in Cell : cells[j] = e => j = head + 1  BY <3>1, <3>2
    <3>6. e <= made  BY <3>2
    <3> HIDE DEF e, Take
    <3>7. /\ DOMAIN executed' = 1..Len(executed) + 1
          /\ DOMAIN executed = 1..Len(executed) /\ Len(executed) \in Nat
          /\ \A i \in 1..Len(executed) : executed'[i] = executed[i]
          /\ executed'[Len(executed) + 1] = e
      BY <1>0, <3>1, <3>2
    <3>8. \A i \in DOMAIN executed' : \/ i \in DOMAIN executed /\ executed'[i] = executed[i]
                                      \/ i = Len(executed) + 1 /\ executed'[i] = e
      BY <3>7
    <3>9. AtMostOnce'  BY <3>4, <3>8
    <3>10. \A i \in DOMAIN executed' : executed'[i] <= made'  BY <3>3, <3>6, <3>8
    <3>11. \A i \in DOMAIN executed', j \in Cell :
             executed'[i] = cells'[j] => j = head' + 1
      BY <3>1, <3>3, <3>5, <3>8
    <3>12. QED  BY <2>2, <3>3, <3>9, <3>10, <3>11
  <2>3. QED  BY <2>1, <2>2
<1>6. CASE Finish
  <2> USE <1>6 DEF Finish
  <2>1. head + 1 \in Cell  BY <1>0
  <2>2. \A i \in Cell : cells'[i] = IF i = head + 1 THEN 0 ELSE cells[i]
    BY <1>0, <2>1
  <2>3. \A i \in DOMAIN executed : executed[i] >= 1  BY <1>0
  <2>4. UNCHANGED <<executed, made>> /\ worker = "running"  OBVIOUS
  <2> HIDE DEF Finish
  <2>5. \A i, j \in Cell : cells'[i] = cells'[j] /\ cells'[i] # Raw => i = j
    BY <2>2
  <2>6. \A i \in Cell : cells'[i] <= made'  BY <1>0, <2>2, <2>4
  <2>7. \A i \in DOMAIN executed' : executed'[i] <= made'  BY <2>4
  <2>8. \A i \in DOMAIN executed', j \in Cell : executed'[i] # cells'[j]
    <3>1. ASSUME NEW i \in DOMAIN executed, NEW j \in Cell, executed[i] = cells'[j]
          PROVE  FALSE
      <4>1. CASE j = head + 1
        <5>1. cells'[j] = 0  BY <2>2, <4>1
        <5>2. executed[i] >= 1  BY <2>3
        <5>3. QED  BY <3>1, <5>1, <5>2
      <4>2. CASE j # head + 1  BY <2>2, <3>1, <4>2
      <4>3. QED  BY <4>1, <4>2
    <3>2. QED  BY <2>4, <3>1
  <2>9. AtMostOnce'  BY <2>4
  <2> HIDE DEF AtMostOnce
  <2>10. QED  BY <2>5, <2>6, <2>7, <2>8, <2>9
<1>7. CASE Top \/ Evaluate \/ Block \/ Spurious \/ Destroy
  BY <1>1, <1>7 DEF Top, Evaluate, Block, Spurious, Destroy, Stop, NotifyAll,
                    Join, Woken
<1>8. CASE UNCHANGED vars  BY <1>1, <1>8 DEF vars
<1>9. QED
  BY <1>2, <1>3, <1>4, <1>5, <1>6, <1>7, <1>8 DEF Next, AddEvent, Run

\* No event is run twice before the deque is corrupt, for any callers: not by
\* calls that overlap within a node, which do lose events.  Two calls that meet
\* at the end of a node, or one that moves the map of the nodes while run()
\* takes an event out, may corrupt it, and nothing is said of what follows.
THEOREM NeverTwice == Spec => []AtMostOnce
<1>1. Init => OnceInv
  BY EventLoopAssumption DEF Init, OnceInv, AtMostOnce, Cell, Raw
<1>2. OnceInv => AtMostOnce  BY DEF OnceInv
<1>3. QED  BY <1>1, <1>2, OnceInvInductive, TypeInvariance, PTL DEF Spec

-----------------------------------------------------------------------------
(* Calls that do not overlap.                                              *)

\* The elements head+1 .. tail are the events of these numbers; the loop has
\* begun those before, and the one in front if it is running it; at most one
\* call is in progress and its element stands behind the last one.
SerialInv ==
  /\ \A t, u \in Callers : caller[t] # "idle" /\ caller[u] # "idle" => t = u
  /\ \A t \in Callers :
       caller[t] \in {"built", "moving"} =>
         cursor[t] = tail /\ made = tail + 1 /\ cells[tail + 1] = tail + 1
  /\ (\A t \in Callers : caller[t] \notin {"built", "moving"}) => made = tail
  /\ head <= tail
  /\ worker = "running" => head < tail
  /\ \A i \in head + 1..tail : cells[i] = i
  /\ Len(executed) = IF worker = "running" THEN head + 1 ELSE head
  /\ Fifo

LEMMA SerialInvInductive ==
  ASSUME Overlap = FALSE
  PROVE  TypeInv /\ SerialInv /\ [Next]_vars => SerialInv'
<1> SUFFICES ASSUME TypeInv, SerialInv, [Next]_vars PROVE SerialInv'
  OBVIOUS
<1> USE EventLoopAssumption DEF SerialInv, Fifo, Raw, queueVars, callVars
<1>0. /\ cells \in [1..MaxEvents + 1 -> 0..MaxEvents] /\ head \in Nat
      /\ tail \in 0..MaxEvents /\ made \in 0..MaxEvents
      /\ executed \in Seq(1..MaxEvents) /\ Len(executed) \in Nat
      /\ caller \in [Callers -> {"idle", "built", "moving", "pushed"}]
      /\ cursor \in [Callers -> 0..MaxEvents]
  BY DEF TypeInv, TypeOK
<1>1. ASSUME UNCHANGED <<queueVars, callVars, executed>>,
             worker = "running" <=> worker' = "running", worker' # "undefined"
      PROVE  SerialInv'
  BY <1>1
<1>2. ASSUME NEW t \in Callers, Construct(t) PROVE SerialInv'
  <2> USE <1>2 DEF Construct, MayCall
  <2>1. \A u \in Callers : caller[u] = "idle"  OBVIOUS
  <2>2. made = tail  BY <2>1
  <2>3. tail + 1 \in 1..MaxEvents + 1  BY <1>0
  <2>4. \A i \in 1..MaxEvents + 1 :
          cells'[i] = IF i = tail + 1 THEN tail + 1 ELSE cells[i]
    BY <1>0, <2>2, <2>3
  <2>5. /\ \A u \in Callers : u # t => caller'[u] = "idle"
        /\ caller'[t] \in {"built", "moving"}
        /\ cursor'[t] = tail
        /\ made' = tail + 1
        /\ UNCHANGED <<head, tail, worker, executed>>
    BY <1>0, <2>1, <2>2
  <2> HIDE DEF Construct, MayCall
  <2>6. \A u \in Callers :
          caller'[u] \in {"built", "moving"} =>
            /\ cursor'[u] = tail'
            /\ made' = tail' + 1
            /\ cells'[tail' + 1] = tail' + 1
    BY <2>3, <2>4, <2>5
  <2>7. \A i \in head' + 1..tail' : cells'[i] = i
    <3>1. ASSUME NEW i \in head + 1..tail PROVE cells'[i] = i
      <4>1. i \in 1..MaxEvents + 1 /\ i # tail + 1  BY <1>0
      <4>2. QED  BY <2>4, <4>1
    <3>2. QED  BY <2>5, <3>1
  <2>8. Fifo'  BY <2>5
  <2>9. caller'[t] \in {"built", "moving"}  BY <2>5
  <2> HIDE DEF Fifo
  <2>10. QED  BY <2>5, <2>6, <2>7, <2>8, <2>9
<1>3. ASSUME NEW t \in Callers, Advance(t) PROVE SerialInv'
  <2> USE <1>3 DEF Advance
  <2>1. tail' = tail + 1 /\ made = tail + 1 /\ cells[tail + 1] = tail + 1
    BY <1>0 DEF Crowded
  <2>2. \A u \in Callers : caller'[u] = IF u = t THEN "pushed" ELSE "idle"
    BY <1>0
  <2>3. UNCHANGED <<cells, head, worker, made, executed>>  BY DEF Crowded
  <2> HIDE DEF Advance
  <2>4. \A i \in head' + 1..tail' : cells'[i] = i
    <3>1. ASSUME NEW i \in head + 1..tail + 1 PROVE cells[i] = i
      <4>1. i \in head + 1..tail \/ i = tail + 1  BY <1>0
      <4>2. QED  BY <2>1, <4>1
    <3>2. QED  BY <2>1, <2>3, <3>1
  <2>5. Fifo'  BY <2>3
  <2>6. head' <= tail' /\ (worker' = "running" => head' < tail')
    BY <1>0, <2>1, <2>3
  <2> HIDE DEF Fifo
  <2>7. QED  BY <2>1, <2>2, <2>3, <2>4, <2>5, <2>6
<1>4. ASSUME NEW t \in Callers, NotifyOne(t) PROVE SerialInv'
  <2> USE <1>4 DEF NotifyOne, Woken
  <2>1. \A u \in Callers : caller'[u] = "idle" /\ caller[u] \notin {"built", "moving"}
    BY <1>0
  <2>2. UNCHANGED <<queueVars, made, executed>>  OBVIOUS
  <2>3. worker' # "undefined" /\ (worker = "running" <=> worker' = "running")
    OBVIOUS
  <2> HIDE DEF NotifyOne, Woken
  <2>4. QED  BY <1>0, <2>1, <2>2, <2>3
<1>5. CASE Take
  <2> USE <1>5 DEF Take
  <2>1. CASE worker' # "running"
    <3>1. worker' # "undefined" /\ UNCHANGED <<queueVars, callVars, executed>>
      <4>1. ASSUME ~Empty PROVE cells[head + 1] # Raw
        <5>1. head + 1 \in head + 1..tail  BY <1>0, <4>1 DEF Empty
        <5>2. cells[head + 1] = head + 1  BY <5>1
        <5>3. QED  BY <1>0, <5>2
      <4>2. QED  BY <2>1, <4>1
    <3>2. QED  BY <1>1, <2>1, <3>1
  <2>2. CASE worker' = "running"
    <3>0. ~Empty  BY <2>2
    <3>1. head < tail  BY <1>0, <3>0 DEF Empty
    <3>2. head + 1 \in head + 1..tail /\ cells[head + 1] = head + 1
      BY <1>0, <3>1
    <3>3. /\ executed' = Append(executed, head + 1) /\ worker' = "running"
          /\ worker = "take" /\ UNCHANGED <<queueVars, callVars>>
      BY <1>0, <2>2, <3>2
    <3>4. Len(executed) = head /\ DOMAIN executed = 1..head  BY <1>0, <3>3
    <3> HIDE DEF Take, SerialInv
    <3>5. /\ Len(executed') = head + 1 /\ DOMAIN executed' = 1..head + 1
          /\ \A i \in 1..head : executed'[i] = executed[i]
          /\ executed'[head + 1] = head + 1
      BY <1>0, <3>3, <3>4
    <3>6. \A i \in 1..head + 1 : executed'[i] = i
      <4>1. \A i \in 1..head + 1 : i \in 1..head \/ i = head + 1  BY <1>0
      <4>2. \A i \in 1..head : executed[i] = i  BY <3>4 DEF SerialInv
      <4>3. QED  BY <3>5, <4>1, <4>2
    <3>7. Fifo'  BY <3>3, <3>5, <3>6
    <3> HIDE DEF Fifo
    <3> USE DEF SerialInv
    <3>8. QED  BY <1>0, <3>1, <3>3, <3>5, <3>7
  <2>3. QED  BY <2>1, <2>2
<1>6. CASE Finish
  <2> USE <1>6 DEF Finish
  <2>1. head' = head + 1 /\ head < tail /\ worker' \in {"top", "corrupt"}
    OBVIOUS
  <2>2. \A i \in 1..MaxEvents + 1 : i # head + 1 => cells'[i] = cells[i]
    BY <1>0
  <2>3. UNCHANGED <<tail, callVars, executed>> /\ Len(executed) = head + 1
    OBVIOUS
  <2> HIDE DEF Finish
  <2>4. \A i \in head' + 1..tail' : cells'[i] = i
    <3>1. ASSUME NEW i \in head' + 1..tail' PROVE cells'[i] = i
      <4>1. i \in head + 1..tail /\ i \in 1..MaxEvents + 1 /\ i # head + 1
        <5> HIDE DEF SerialInv
        <5>1. QED  BY <1>0, <2>1, <2>3, <3>1
      <4>2. QED  BY <2>2, <4>1
    <3>2. QED  BY <3>1
  <2>5. ASSUME NEW u \in Callers, caller'[u] \in {"built", "moving"}
        PROVE  cursor'[u] = tail' /\ made' = tail' + 1 /\ cells'[tail' + 1] = tail' + 1
    <3>1. /\ cursor[u] = tail /\ made = tail + 1
          /\ cells[tail + 1] = tail + 1
      BY <2>3, <2>5
    <3>2. tail + 1 \in 1..MaxEvents + 1 /\ tail + 1 # head + 1  BY <1>0, <2>1
    <3>3. QED  BY <2>2, <2>3, <3>1, <3>2
  <2>6. Fifo'  BY <2>1, <2>3
  <2>7. head' <= tail'  BY <1>0, <2>1, <2>3
  <2>8. (\A u \in Callers : caller'[u] \notin {"built", "moving"}) => made' = tail'  BY <2>3
  <2>9. \A u, v \in Callers : caller'[u] # "idle" /\ caller'[v] # "idle" => u = v
    BY <2>3
  <2> HIDE DEF Fifo
  <2>10. QED  BY <2>1, <2>3, <2>4, <2>5, <2>6, <2>7, <2>8, <2>9
<1>7. CASE Top \/ Evaluate \/ Block \/ Spurious \/ Destroy
  BY <1>1, <1>7 DEF Top, Evaluate, Block, Spurious, Destroy, Stop, NotifyAll,
                    Join, Woken
<1>8. CASE UNCHANGED vars  BY <1>1, <1>8 DEF vars
<1>9. QED
  BY <1>2, <1>3, <1>4, <1>5, <1>6, <1>7, <1>8 DEF Next, AddEvent, Run

LEMMA SerialInvariance ==
  ASSUME Overlap = FALSE
  PROVE  Spec => []SerialInv
<1>1. Init => SerialInv
  BY EventLoopAssumption DEF Init, SerialInv, Fifo, Raw
<1>2. QED  BY <1>1, SerialInvInductive, TypeInvariance, PTL DEF Spec

\* When no two calls of addEvent overlap the events are run in the order they
\* were added, none lost and none invented, for any callers, any number of
\* events and any size of the nodes, until a push that moves the map of the
\* nodes meets run() taking an event out and corrupts the deque: a single
\* caller is enough for that.
THEOREM SerialFifo ==
  ASSUME Overlap = FALSE
  PROVE  Spec => []Fifo
<1>1. SerialInv => Fifo  BY DEF SerialInv
<1>2. QED  BY <1>1, SerialInvariance, PTL

-----------------------------------------------------------------------------
(* The loop implements the channel: advancing the end cursor accepts an    *)
(* event, taking the one in front delivers it, clearing _running closes.   *)

numbers(n) == [i \in 1..n |-> i]

LEMMA NextNumber ==
  ASSUME NEW n \in Nat
  PROVE  numbers(n + 1) = Append(numbers(n), n + 1)
<1>1. numbers(n) \in Seq(Nat) /\ Len(numbers(n)) = n  BY DEF numbers
<1>2. DOMAIN numbers(n + 1) = DOMAIN Append(numbers(n), n + 1)
  BY <1>1 DEF numbers
<1>3. \A i \in 1..n + 1 : numbers(n + 1)[i] = Append(numbers(n), n + 1)[i]
  BY <1>1 DEF numbers
<1>4. QED  BY <1>1, <1>2, <1>3 DEF numbers

LEMMA StepImplements ==
  ASSUME Overlap = FALSE, TypeInv, SerialInv, StopInv, [Next]_vars
  PROVE  [Channel!Next]_<<numbers(tail), executed, running, late = 0>>
<1> DEFINE stutter == UNCHANGED <<tail, executed, running, late>>
<1>0. /\ head \in Nat /\ tail \in Nat /\ executed \in Seq(1..MaxEvents)
      /\ Len(numbers(tail)) = tail
  BY EventLoopAssumption DEF TypeInv, TypeOK, numbers
<1>1. ASSUME NEW t \in Callers, Advance(t) PROVE Channel!Accept
  <2>1. /\ tail' = tail + 1 /\ tail + 1 \in 1..MaxEvents
        /\ UNCHANGED <<executed, running, late>>
    BY <1>0, <1>1, EventLoopAssumption
    DEF Advance, Crowded, SerialInv, TypeInv, TypeOK
  <2>2. numbers(tail') = Append(numbers(tail), tail + 1)
    BY <1>0, <2>1, NextNumber
  <2>3. tail + 1 \notin {numbers(tail)[i] : i \in DOMAIN numbers(tail)}
    BY <1>0 DEF numbers
  <2>4. QED  BY <2>1, <2>2, <2>3 DEF Channel!Accept, numbers
<1>2. CASE Take
  <2>1. CASE worker' # "running"
    BY <1>2, <2>1 DEF Take, queueVars
  <2>2. CASE worker' = "running"
    <3>1. /\ ~Empty /\ worker = "take" /\ UNCHANGED <<tail, running>>
          /\ executed' = Append(executed, cells[head + 1])
          /\ late' = IF running THEN late ELSE late + 1
      BY <1>2, <2>2 DEF Take, queueVars
    <3>2. head < tail /\ Len(executed) = head /\ cells[head + 1] = head + 1
      BY <1>0, <3>1 DEF Empty, SerialInv
    <3>3. numbers(tail)[head + 1] = head + 1  BY <1>0, <3>2 DEF numbers
    <3>4. late = 0 /\ (late' = 0 <=> running)  BY <3>1 DEF StopInv
    <3>5. (late = 0)' = running  BY <3>4 DEF StopInv
    <3>6. Len(executed) < Len(numbers(tail))  BY <1>0, <3>2
    <3>7. executed' = Append(executed, numbers(tail)[Len(executed) + 1])
      BY <3>1, <3>2, <3>3
    <3>8. numbers(tail)' = numbers(tail)  BY <3>1 DEF numbers
    <3>9. Channel!Deliver
      BY <3>1, <3>4, <3>5, <3>6, <3>7, <3>8 DEF Channel!Deliver, numbers
    <3>10. QED  BY <3>9 DEF Channel!Next
  <2>3. QED  BY <2>1, <2>2
<1>3. CASE Stop
  BY <1>3 DEF Stop, StopInv, queueVars, Channel!Next, Channel!Close
<1>4. CASE \E t \in Callers : Construct(t) \/ NotifyOne(t)
  <2>1. stutter  BY <1>4 DEF Construct, NotifyOne, queueVars
  <2>2. QED  BY <2>1
<1>5. CASE Top \/ Evaluate \/ Block \/ Finish \/ Spurious \/ NotifyAll \/ Join
  <2>1. stutter
    BY <1>5 DEF Top, Evaluate, Block, Finish, Spurious, NotifyAll, Join,
                queueVars
  <2>2. QED  BY <2>1
<1>6. CASE UNCHANGED vars
  <2>1. stutter  BY <1>6 DEF vars, queueVars
  <2>2. QED  BY <2>1
<1>7. QED
  BY <1>1, <1>2, <1>3, <1>4, <1>5, <1>6
  DEF Next, AddEvent, Run, Destroy, Channel!Next

\* br_threaded_object implements the channel for callers whose calls of
\* addEvent do not overlap, for any number of callers and events, up to the
\* step in which a push that moves the map of the deque's nodes corrupts what
\* run() takes out.
THEOREM ImplementsChannel ==
  ASSUME Overlap = FALSE
  PROVE  Spec => RefinesChannel
<1>1. Init => Channel!Init
  <2>1. SUFFICES ASSUME Init PROVE Channel!Init
    OBVIOUS
  <2>2. [i \in 1..tail |-> i] = <<>>  BY <2>1 DEF Init
  <2>3. QED  BY <2>1, <2>2 DEF Init, Channel!Init
<1>2. TypeInv /\ SerialInv /\ StopInv /\ [Next]_vars
        => [worker' # "corrupt" => Channel!Next]_(Channel!chanVars)
  BY StepImplements DEF Channel!chanVars, numbers
<1>3. Init => StopInv  BY DEF Init, StopInv
<1>4. Spec => []StopInv  BY <1>3, StopInvInductive, PTL DEF Spec
<1>5. QED
  BY <1>1, <1>2, <1>4, TypeInvariance, SerialInvariance, PTL
  DEF Spec, RefinesChannel, Channel!Spec

-----------------------------------------------------------------------------
(* The loop does not go to sleep past an event, nor past the stop          *)

\* What has been begun is what was taken out, and the event that runs.
CountInv ==
  worker # "corrupt" => Len(executed) = IF worker = "running" THEN head + 1 ELSE head

LEMMA CountInductive == TypeInv /\ CountInv /\ [Next]_vars => CountInv'
<1> SUFFICES ASSUME TypeInv, CountInv, [Next]_vars PROVE CountInv'
  OBVIOUS
<1> USE DEF CountInv
<1>0. head \in Nat /\ executed \in Seq(1..MaxEvents) /\ Len(executed) \in Nat
  BY DEF TypeInv, TypeOK
<1>1. CASE Take
  BY <1>0, <1>1 DEF Take, queueVars
<1>2. CASE Finish
  BY <1>0, <1>2 DEF Finish
<1>3. ASSUME NEW t \in Callers, AddEvent(t) PROVE CountInv'
  BY <1>3 DEF AddEvent, Construct, Advance, NotifyOne, Woken, queueVars
<1>4. CASE Top \/ Evaluate \/ Block \/ Spurious \/ Destroy
  BY <1>4 DEF Top, Evaluate, Block, Spurious, Destroy, Stop, NotifyAll, Join, Woken, queueVars
<1>5. CASE UNCHANGED vars
  BY <1>5 DEF vars, queueVars
<1>6. QED
  BY <1>1, <1>2, <1>3, <1>4, <1>5 DEF Next, Run

\* The loop only begins to sleep when everything in the queue has been begun;
\* a notification that is due wakes it.
LEMMA StaysRoused ==
  ASSUME TypeInv, CountInv, [Next]_vars, NEW n \in 1..MaxEvents, n <= tail, Roused
  PROVE  Roused' \/ n <= Len(executed') \/ ~running'
<1> USE DEF Roused
<1>0. head \in Nat /\ tail \in Nat /\ caller \in [Callers -> {"idle", "built", "moving", "pushed"}]
  BY EventLoopAssumption DEF TypeInv, TypeOK
<1>1. ASSUME NEW t \in Callers, AddEvent(t) PROVE Roused'
  <2>1. CASE Construct(t) \/ Advance(t)
    <3>1. /\ worker' \in {worker, "corrupt"} /\ caller[t] # "pushed"
          /\ \A u \in Callers : u # t => caller'[u] = caller[u]
      BY <1>0, <2>1 DEF Construct, Advance, MayCall
    <3>2. QED  BY <3>1
  <2>2. CASE NotifyOne(t)
    BY <2>2 DEF NotifyOne, Woken
  <2>3. QED  BY <1>1, <2>1, <2>2 DEF AddEvent
<1>2. CASE Evaluate
  <2>1. CASE ~Empty \/ ~running
    BY <1>2, <2>1 DEF Evaluate
  <2>2. CASE Empty
    <3>1. Len(executed) = tail /\ executed' = executed
      BY <1>2, <2>2 DEF Evaluate, Empty, CountInv
    <3>2. QED  BY <3>1
  <2>3. QED  BY <2>1, <2>2
<1>3. CASE Block
  BY <1>3 DEF Block
<1>4. CASE Top \/ Take \/ Finish \/ Spurious
  BY <1>4 DEF Top, Take, Finish, Spurious
<1>5. CASE Destroy
  BY <1>5 DEF Destroy, Stop, NotifyAll, Join, Woken, callVars
<1>6. CASE UNCHANGED vars
  BY <1>6 DEF vars, callVars
<1>7. QED
  BY <1>1, <1>2, <1>3, <1>4, <1>5, <1>6 DEF Next, Run

\* A loop that is awake, or still to be notified, after the stop stays so.
LEMMA StopStaysHeard ==
  ASSUME StopInv, [Next]_vars, StopIsHeard
  PROVE  StopIsHeard' \/ owner' = "destroyed"
<1> USE DEF StopIsHeard, StopInv
<1>1. ASSUME NEW t \in Callers, AddEvent(t) PROVE StopIsHeard'
  BY <1>1 DEF AddEvent, Construct, Advance, NotifyOne, Woken
<1>2. CASE Run
  BY <1>2 DEF Run, Top, Evaluate, Block, Take, Finish
<1>3. CASE Spurious
  BY <1>3 DEF Spurious
<1>4. CASE Destroy
  BY <1>4 DEF Destroy, Stop, NotifyAll, Join, Woken
<1>5. CASE UNCHANGED vars
  BY <1>5 DEF vars
<1>6. QED
  BY <1>1, <1>2, <1>3, <1>4, <1>5 DEF Next

\* While an event waits, an awake loop does not fall asleep, and one that is
\* about to be notified is woken; and a loop that will see _running cleared
\* does not miss it: for any callers, also when their calls overlap.  A loop
\* with a corrupt deque does not sleep either; it may do anything else.
THEOREM LoopStaysAwake == Spec => StaysAwake
<1>1. Init => CountInv /\ StopInv
  BY DEF Init, CountInv, StopInv
<1>2. TypeInv /\ CountInv /\ StopInv /\ [Next]_vars =>
        [/\ \A n \in 1..MaxEvents :
              n <= tail /\ Roused => Roused' \/ n <= Len(executed') \/ ~running'
         /\ StopIsHeard => StopIsHeard' \/ owner' = "destroyed"]_vars
  BY StaysRoused, StopStaysHeard
<1>3. Spec => [](CountInv /\ StopInv)
  BY <1>1, CountInductive, StopInvInductive, TypeInvariance, PTL DEF Spec
<1>4. QED
  BY <1>2, <1>3, TypeInvariance, PTL DEF Spec, StaysAwake
=============================================================================
