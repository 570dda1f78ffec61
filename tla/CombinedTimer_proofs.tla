------------------------ MODULE CombinedTimer_proofs ------------------------
(***************************************************************************)
(* For any range of ids, durations and number of timers: the map of timers *)
(* holds exactly those that are due, although ids wrap and are given again *)
(* and the thread works on a copy; no timer fires early, or once it was    *)
(* stopped, replaced or has expired.                                       *)
(***************************************************************************)
EXTENDS CombinedTimer, SequenceTheorems, WellFoundedInduction, TLAPS

-----------------------------------------------------------------------------
(* The inductive invariant                                                 *)

Fates == {"live", "stopped", "replaced", "expired"}
TimerType == [periodic : BOOLEAN, duration : Nat, left : Int]
At == {"idle", "notify", "join", "destroyed"}
ClientType ==
  [op : {"none", "stop", "destroy"}, id : Ids, at : At]
    \cup [op : {"add"}, id : Ids, at : At, timer : TimerType]

Typed ==
  /\ timers \in [Keys -> TimerType] /\ Keys \subseteq Ids
  /\ lastId \in Ids /\ stopped \in BOOLEAN
  /\ pc \in {"done", "top", "eval", "park", "blocked", "after", "emit", "stuck"}
  /\ cur \in [id : Ids, periodic : BOOLEAN, duration : Nat, left : Int]
  /\ client \in ClientType
  /\ added \in Seq([id : Ids, fate : Fates])

\* A timer that lives is the latest that was given its id.
LiveInv ==
  /\ MapIsLive
  /\ \A n \in Live : \A k \in n + 1..Len(added) : added[k].id # added[n].id

\* The thread's copy is that of a timer in the map, which only changes while
\* there is no thread, or by its own hand.
CopyInv ==
  /\ pc \notin {"done", "top"} =>
       /\ cur.id \in Keys /\ cur.left = timers[cur.id].left
       /\ cur.periodic = timers[cur.id].periodic /\ cur.duration = timers[cur.id].duration
  /\ pc = "after" => cur.left <= 0 \/ stopped
  /\ pc = "emit" => cur.left <= 0

\* What stopTimer has found was given out once.
CallInv ==
  client.op = "stop" => \E n \in DOMAIN added : added[n].id = client.id

Inv == Typed /\ LiveInv /\ CopyInv /\ CallInv

LEMMA ZeroIsId == 0 \in Ids /\ Ids \subseteq Int
BY CombinedTimerAssumption DEF Ids

LEMMA InitInv == Init => Inv
<1> SUFFICES ASSUME Init PROVE Inv
  OBVIOUS
<1> USE ZeroIsId DEF Init
<1>1. Keys = {} /\ DOMAIN added = {}  BY DEF Keys
<1>2. Typed  BY <1>1 DEF Typed, ClientType, Idle, At
<1>3. LiveInv  BY <1>1 DEF LiveInv, MapIsLive, Live
<1>4. CopyInv /\ CallInv  BY DEF CopyInv, CallInv, Idle
<1>5. QED  BY <1>2, <1>3, <1>4 DEF Inv

-----------------------------------------------------------------------------
(* The latest timer of an id                                               *)

\* Of the timers that were given an id one is the latest.
LEMMA LatestExists ==
  ASSUME Typed, NEW id, NEW m \in DOMAIN added, added[m].id = id
  PROVE  /\ Latest(id) \in DOMAIN added /\ added[Latest(id)].id = id
         /\ \A k \in Latest(id) + 1..Len(added) : added[k].id # id
<1> DEFINE Given == {n \in DOMAIN added : added[n].id = id}
           Behind == {Len(added) - n : n \in Given}
<1>0. DOMAIN added = 1..Len(added) /\ Len(added) \in Nat  BY DEF Typed
<1>1. PICK b \in Behind : \A k \in Behind : <<k, b>> \notin OpToRel(<, Nat)
  <2> DEFINE R == OpToRel(<, Nat)
  <2>1. IsWellFoundedOn(R, Nat)  BY NatLessThanWellFounded
  <2>2. Behind \subseteq Nat /\ Behind # {}  BY <1>0
  <2> HIDE DEF R, Behind
  <2>3. \E x \in Behind : \A y \in Behind : ~(<<y, x>> \in R)  BY <2>1, <2>2, WFMin
  <2>4. QED  BY <2>3 DEF R
<1>2. PICK n \in Given : b = Len(added) - n  OBVIOUS
<1>3. ASSUME NEW k \in n + 1..Len(added), added[k].id = id PROVE FALSE
  <2>1. k \in Given /\ Len(added) - k \in Behind  BY <1>0, <1>2, <1>3
  <2>2. Len(added) - k \in Nat /\ b \in Nat /\ Len(added) - k < b  BY <1>0, <1>2, <1>3
  <2>3. <<Len(added) - k, b>> \in OpToRel(<, Nat)  BY <2>2 DEF OpToRel
  <2>4. QED  BY <1>1, <2>1, <2>3, Zenon
<1>4. QED  BY <1>2, <1>3 DEF Latest

\* Of an id in the map it is the one that lives.
LEMMA LatestLives ==
  ASSUME Typed, LiveInv, NEW id \in Keys
  PROVE  /\ Latest(id) \in Live /\ added[Latest(id)].id = id
         /\ \A n \in Live : added[n].id = id => n = Latest(id)
<1>0. DOMAIN added = 1..Len(added) /\ Len(added) \in Nat  BY DEF Typed
<1>1. PICK n \in Live : added[n].id = id  BY DEF LiveInv, MapIsLive
<1>2. n \in DOMAIN added  BY DEF Live
<1>3. /\ Latest(id) \in DOMAIN added /\ added[Latest(id)].id = id
      /\ \A k \in Latest(id) + 1..Len(added) : added[k].id # id
  BY <1>1, <1>2, LatestExists
<1>4. \A k \in n + 1..Len(added) : added[k].id # id  BY <1>1 DEF LiveInv
<1>5. Latest(id) = n  BY <1>0, <1>1, <1>2, <1>3, <1>4
<1>6. QED  BY <1>1, <1>5 DEF LiveInv, MapIsLive

-----------------------------------------------------------------------------
(* The steps                                                               *)

\* Time lowers what is left of the timers and of the copy alike.
LEMMA TickKeeps == Inv /\ Tick => Inv'
<1> SUFFICES ASSUME Inv, Tick PROVE Inv'
  OBVIOUS
<1> USE DEF Tick
<1>0. MaxLate \in Nat /\ Keys' = Keys  BY CombinedTimerAssumption DEF Keys
<1>1. \A k \in Keys : /\ timers'[k].left = timers[k].left - 1
                      /\ timers'[k].periodic = timers[k].periodic
                      /\ timers'[k].duration = timers[k].duration
                      /\ timers'[k] \in TimerType
  BY DEF Inv, Typed, TimerType
<1>2. Typed'
  <2>1. timers' \in [Keys' -> TimerType]  BY <1>0, <1>1
  <2>2. cur' \in [id : Ids, periodic : BOOLEAN, duration : Nat, left : Int]
    BY <1>0 DEF Inv, Typed
  <2>3. QED  BY <1>0, <2>1, <2>2 DEF Inv, Typed
<1>3. LiveInv'  BY <1>0 DEF Inv, LiveInv, MapIsLive, Live
<1>4. CopyInv'
  <2>1. /\ cur'.id = cur.id /\ cur'.periodic = cur.periodic /\ cur'.duration = cur.duration
        /\ cur'.left = IF cur.left > -MaxLate THEN cur.left - 1 ELSE cur.left
        /\ cur.left \in Int
    BY DEF Inv, Typed
  <2>2. pc \notin {"done", "top"} => cur'.left = cur.left - 1
    BY <2>1 DEF Inv, CopyInv
  <2>3. cur.left <= 0 => cur'.left <= 0  BY <1>0, <2>1
  <2>4. QED  BY <1>0, <1>1, <2>1, <2>2, <2>3 DEF Inv, CopyInv
<1>5. CallInv'  BY DEF Inv, CallInv
<1>6. QED  BY <1>2, <1>3, <1>4, <1>5 DEF Inv

\* A call begins, and its notification.
LEMMA CallKeeps == Inv /\ (Call \/ Notify) => Inv'
<1> SUFFICES ASSUME Inv, Call \/ Notify PROVE Inv'
  OBVIOUS
<1>1. /\ UNCHANGED <<timers, lastId, cur, added, emitted>>
      /\ pc' = pc \/ (pc = "blocked" /\ pc' = "eval")
      /\ stopped' = TRUE \/ stopped' = stopped
  BY DEF Call, Notify, CallAdd, CallStop, CallDestroy
<1>2. /\ client' \in ClientType
      /\ client'.op = "stop" =>
           \/ client'.id \in Keys
           \/ client.op = "stop" /\ client'.id = client.id
  <2> USE DEF ClientType, At
  <2>1. ASSUME NEW d \in Durations, NEW periodic \in BOOLEAN, CallAdd(d, periodic)
        PROVE  client' \in ClientType /\ client'.op = "add"
    <3>1. d \in Nat  BY <2>1, CombinedTimerAssumption
    <3>2. [periodic |-> periodic, duration |-> d, left |-> d] \in TimerType
      BY <3>1 DEF TimerType
    <3>3. QED  BY <2>1, <3>2 DEF CallAdd, Inv, Typed
  <2>2. ASSUME NEW id \in Ids, CallStop(id)
        PROVE  client' \in ClientType /\ client'.id \in Keys
    BY <2>2 DEF CallStop
  <2>3. ASSUME CallDestroy PROVE client' \in ClientType /\ client'.op = "destroy"
    BY <2>3, ZeroIsId DEF CallDestroy
  <2>4. ASSUME Notify
        PROVE  client' \in ClientType /\ client'.op = client.op /\ client'.id = client.id
    <3>1. client \in ClientType /\ client' = [client EXCEPT !.at = "join"]
      BY <2>4 DEF Notify, Inv, Typed
    <3>2. CASE client.op = "add"  BY <3>1, <3>2
    <3>3. CASE client.op # "add"  BY <3>1, <3>3
    <3>4. QED  BY <3>2, <3>3
  <2>5. CASE Notify  BY <2>4, <2>5
  <2>6. CASE CallDestroy  BY <2>3, <2>6
  <2>7. CASE \E d \in Durations, periodic \in BOOLEAN : CallAdd(d, periodic)
    BY <2>1, <2>7
  <2>8. CASE \E id \in Ids : CallStop(id)  BY <2>2, <2>8
  <2>9. QED  BY <2>5, <2>6, <2>7, <2>8 DEF Call
<1>3. Keys' = Keys  BY <1>1 DEF Keys
<1>4. Typed'  BY <1>1, <1>2, <1>3 DEF Inv, Typed
<1>5. LiveInv'  BY <1>1, <1>3 DEF Inv, LiveInv, MapIsLive, Live
<1>6. CopyInv'
  <2>1. cur' = cur /\ timers' = timers  BY <1>1
  <2>2. CASE pc' = pc /\ stopped' = TRUE  BY <1>3, <2>1, <2>2 DEF Inv, CopyInv
  <2>3. CASE pc' = pc /\ stopped' = stopped  BY <1>3, <2>1, <2>3 DEF Inv, CopyInv
  <2>4. CASE pc = "blocked" /\ pc' = "eval"  BY <1>3, <2>1, <2>4 DEF Inv, CopyInv
  <2>5. QED  BY <1>1, <2>2, <2>3, <2>4
<1>7. CallInv'
  <2>1. ASSUME NEW id \in Keys PROVE \E n \in DOMAIN added : added[n].id = id
    BY LatestLives DEF Inv, Live
  <2>2. QED  BY <1>1, <1>2, <2>1 DEF Inv, CallInv
<1>8. QED  BY <1>4, <1>5, <1>6, <1>7 DEF Inv

\* addTimer takes the place of the timer that has its id, if there is one.
LEMMA AddKeeps == Inv /\ Add => Inv'
<1> SUFFICES ASSUME Inv, Add PROVE Inv'
  OBVIOUS
<1> DEFINE kept == [n \in DOMAIN added |->
                      IF lastId \in Keys /\ n = Latest(lastId)
                      THEN [added[n] EXCEPT !.fate = "replaced"] ELSE added[n]]
           new == [id |-> lastId, fate |-> "live"]
<1>1. /\ lastId' = NextId /\ timers' = With(lastId, client.timer)
      /\ added' = Append(kept, new)
      /\ stopped' = FALSE /\ pc' = "top" /\ client' = Idle /\ UNCHANGED <<cur, emitted>>
      /\ client.op = "add"
  BY DEF Add, Start
<1>2. lastId \in Ids /\ lastId' \in Ids
  BY <1>1, CombinedTimerAssumption DEF Inv, Typed, NextId, Ids
<1>3. client.timer \in TimerType  BY <1>1 DEF Inv, Typed, ClientType
<1>4. /\ DOMAIN added = 1..Len(added) /\ Len(added) \in Nat
      /\ kept \in Seq([id : Ids, fate : Fates]) /\ Len(kept) = Len(added)
  <2>1. /\ added \in Seq([id : Ids, fate : Fates])
        /\ DOMAIN added = 1..Len(added) /\ Len(added) \in Nat
    BY DEF Inv, Typed
  <2>2. ASSUME NEW n \in DOMAIN added PROVE kept[n] \in [id : Ids, fate : Fates]
    <3>1. added[n] \in [id : Ids, fate : Fates]  BY <2>1, LenProperties
    <3>2. [added[n] EXCEPT !.fate = "replaced"] \in [id : Ids, fate : Fates]
      BY <3>1 DEF Fates
    <3>3. kept[n] = [added[n] EXCEPT !.fate = "replaced"] \/ kept[n] = added[n]
      OBVIOUS
    <3> HIDE DEF kept
    <3>4. QED  BY <3>1, <3>2, <3>3
  <2>3. DOMAIN kept = DOMAIN added /\ kept = [n \in DOMAIN added |-> kept[n]]
    OBVIOUS
  <2> HIDE DEF kept
  <2>4. Len(kept) = Len(added)  BY <2>1, <2>3
  <2>5. \A n \in 1..Len(kept) : kept[n] \in [id : Ids, fate : Fates]
    BY <2>1, <2>2, <2>4
  <2>6. kept \in Seq([id : Ids, fate : Fates])  BY <2>1, <2>3, <2>4, <2>5
  <2>7. QED  BY <2>1, <2>4, <2>6
<1>5. \A n \in DOMAIN added :
        kept[n].id = added[n].id /\
        (kept[n].fate = "live" <=> n \in Live /\ ~(lastId \in Keys /\ n = Latest(lastId)))
  BY DEF Inv, Typed, Live, Fates
<1> HIDE DEF kept
<1>6. /\ added' \in Seq([id : Ids, fate : Fates])
      /\ DOMAIN added' = 1..Len(added) + 1 /\ Len(added') = Len(added) + 1
      /\ added'[Len(added) + 1] = new
      /\ \A n \in DOMAIN added : added'[n] = kept[n]
  BY <1>1, <1>2, <1>4 DEF Fates
<1>7. Live' = {n \in Live : added[n].id # lastId} \cup {Len(added) + 1}
  <2>1. \A n \in Live : added[n].id = lastId => lastId \in Keys /\ n = Latest(lastId)
    BY LatestLives DEF Inv, LiveInv, MapIsLive
  <2>2. lastId \in Keys => added[Latest(lastId)].id = lastId
    BY LatestLives DEF Inv
  <2>3. \A n \in DOMAIN added : n \in Live' <=> n \in Live /\ added[n].id # lastId
    BY <1>4, <1>5, <1>6, <2>1, <2>2 DEF Live
  <2>4. Len(added) + 1 \in Live'  BY <1>4, <1>6 DEF Live
  <2>5. Live' \subseteq 1..Len(added) + 1 /\ Live \subseteq DOMAIN added
    BY <1>6 DEF Live
  <2>6. Live' \subseteq {n \in Live : added[n].id # lastId} \cup {Len(added) + 1}
    BY <1>4, <2>3, <2>5
  <2>7. \A n \in Live : added[n].id # lastId => n \in Live'  BY <2>3, <2>5
  <2>8. QED  BY <2>4, <2>6, <2>7
<1>8. Keys' = Keys \cup {lastId} /\ timers' \in [Keys' -> TimerType]
  BY <1>1, <1>3 DEF Keys, With, Inv, Typed
<1>9. Typed'
  BY <1>1, <1>2, <1>6, <1>8, ZeroIsId DEF Inv, Typed, ClientType, Idle, At
<1>10. LiveInv'
  <2>1. \A n \in Live : n \in DOMAIN added /\ added'[n].id = added[n].id
    BY <1>5, <1>6 DEF Live
  <2>2. added'[Len(added) + 1].id = lastId  BY <1>6
  <2>3. Keys' = {added'[n].id : n \in Live'}
    BY <1>7, <1>8, <2>1, <2>2 DEF Inv, LiveInv, MapIsLive
  <2>4. \A m, n \in Live' : added'[m].id = added'[n].id => m = n
    BY <1>7, <2>1, <2>2 DEF Inv, LiveInv, MapIsLive
  <2>5. ASSUME NEW n \in Live', NEW k \in n + 1..Len(added')
        PROVE  added'[k].id # added'[n].id
    <3>1. CASE k = Len(added) + 1
      BY <1>4, <1>6, <1>7, <2>1, <2>2, <2>5, <3>1 DEF Live
    <3>2. CASE k # Len(added) + 1
      <4>1. n \in Live /\ k \in DOMAIN added /\ k \in n + 1..Len(added)
        BY <1>4, <1>6, <1>7, <2>5, <3>2 DEF Live
      <4>2. added'[k].id = added[k].id  BY <1>5, <1>6, <4>1
      <4>3. QED  BY <2>1, <4>1, <4>2 DEF Inv, LiveInv
    <3>3. QED  BY <3>1, <3>2
  <2>6. QED  BY <2>3, <2>4, <2>5 DEF LiveInv, MapIsLive
<1>11. CopyInv' /\ CallInv'  BY <1>1 DEF CopyInv, CallInv, Idle
<1>12. QED  BY <1>9, <1>10, <1>11 DEF Inv

\* A timer ends: the map loses its id, and the latest timer of the id, if it
\* still lived, lives no more.
LEMMA EndKeeps ==
  ASSUME Inv, NEW id, NEW m \in DOMAIN added, added[m].id = id,
         NEW f \in {"stopped", "expired"},
         timers' = Without(id),
         added' = [added EXCEPT ![Latest(id)].fate = IF @ = "live" THEN f ELSE @]
  PROVE  /\ timers' \in [Keys' -> TimerType] /\ Keys' = Keys \ {id}
         /\ added' \in Seq([id : Ids, fate : Fates]) /\ Len(added') = Len(added)
         /\ \A n \in DOMAIN added : added'[n].id = added[n].id
         /\ LiveInv'
<1> DEFINE l == Latest(id)
<1>1. l \in DOMAIN added /\ added[l].id = id  BY LatestExists DEF Inv
<1>2. /\ added \in Seq([id : Ids, fate : Fates])
      /\ DOMAIN added = 1..Len(added) /\ Len(added) \in Nat
  BY DEF Inv, Typed
<1>3. \A n \in Live : added[n].id = id => id \in Keys /\ n = l
  BY LatestLives DEF Inv, LiveInv, MapIsLive
<1> HIDE DEF l
<1>4. added[l] \in [id : Ids, fate : Fates]  BY <1>1, <1>2, LenProperties
<1>5. added' = [added EXCEPT ![l] = [added[l] EXCEPT !.fate =
                                       IF added[l].fate = "live" THEN f ELSE added[l].fate]]
  BY DEF l
<1>6. /\ [added[l] EXCEPT !.fate = IF added[l].fate = "live" THEN f ELSE added[l].fate]
           \in [id : Ids, fate : Fates]
      /\ added'[l].id = id /\ added'[l].fate # "live"
      /\ \A n \in DOMAIN added : n # l => added'[n] = added[n]
  BY <1>1, <1>4, <1>5 DEF Fates
<1>7. added' \in Seq([id : Ids, fate : Fates]) /\ Len(added') = Len(added)
  <2> DEFINE R == [id : Ids, fate : Fates]
             e == [added[l] EXCEPT !.fate =
                     IF added[l].fate = "live" THEN f ELSE added[l].fate]
  <2>1. added \in Seq(R) /\ l \in 1..Len(added) /\ e \in R  BY <1>1, <1>2, <1>6
  <2>2. added' = [added EXCEPT ![l] = e]  BY <1>5
  <2> HIDE DEF R, e
  <2>3. [added EXCEPT ![l] = e] \in Seq(R) /\ Len([added EXCEPT ![l] = e]) = Len(added)
    BY <2>1, ExceptSeq, Zenon
  <2>4. QED  BY <2>2, <2>3 DEF R
<1>8. /\ DOMAIN added' = DOMAIN added
      /\ \A n \in DOMAIN added : added'[n].id = added[n].id
  BY <1>1, <1>5, <1>6
<1>9. timers' \in [Keys' -> TimerType] /\ Keys' = Keys \ {id}
  BY DEF Keys, Without, Inv, Typed
<1>10. Live' = {n \in Live : added[n].id # id}
  BY <1>1, <1>3, <1>6, <1>8 DEF Live
<1>11. Live' \subseteq Live /\ Live \subseteq DOMAIN added  BY <1>10 DEF Live
<1>12. MapIsLive'
  <2>1. Keys' = {added'[n].id : n \in Live'}
    BY <1>8, <1>9, <1>10, <1>11 DEF Inv, LiveInv, MapIsLive
  <2>2. \A a, b \in Live' : added'[a].id = added'[b].id => a = b
    BY <1>8, <1>11 DEF Inv, LiveInv, MapIsLive
  <2>3. QED  BY <2>1, <2>2 DEF MapIsLive
<1>13. ASSUME NEW n \in Live', NEW k \in n + 1..Len(added')
       PROVE  added'[k].id # added'[n].id
  <2>1. n \in Live /\ n \in DOMAIN added /\ k \in n + 1..Len(added) /\ k \in DOMAIN added
    BY <1>2, <1>7, <1>11, <1>13
  <2>2. QED  BY <1>8, <2>1 DEF Inv, LiveInv
<1>14. QED  BY <1>7, <1>8, <1>9, <1>12, <1>13 DEF LiveInv

\* stopTimer, whether or not the timer has expired since it was found.
LEMMA StopTimerKeeps == Inv /\ StopTimer => Inv'
<1> SUFFICES ASSUME Inv, StopTimer PROVE Inv'
  OBVIOUS
<1>1. /\ client.op = "stop" /\ timers' = Without(client.id)
      /\ added' = [added EXCEPT ![Latest(client.id)].fate =
                                  IF @ = "live" THEN "stopped" ELSE @]
      /\ stopped' = FALSE /\ pc' = "top" /\ client' = Idle /\ UNCHANGED <<lastId, cur, emitted>>
  BY DEF StopTimer, Start
<1>2. PICK m \in DOMAIN added : added[m].id = client.id  BY <1>1 DEF Inv, CallInv
<1>3. /\ timers' \in [Keys' -> TimerType] /\ Keys' = Keys \ {client.id}
      /\ added' \in Seq([id : Ids, fate : Fates])
      /\ LiveInv'
  BY <1>1, <1>2, EndKeeps
<1>4. Typed'  BY <1>1, <1>3, ZeroIsId DEF Inv, Typed, ClientType, Idle, At
<1>5. CopyInv' /\ CallInv'  BY <1>1 DEF CopyInv, CallInv, Idle
<1>6. QED  BY <1>3, <1>4, <1>5 DEF Inv

\* The timer expires: it begins again, or ends.
LEMMA EmitKeeps == Inv /\ Emit => Inv'
<1> SUFFICES ASSUME Inv, Emit PROVE Inv'
  OBVIOUS
<1>1. /\ pc = "emit" /\ pc' = "top"
      /\ UNCHANGED <<lastId, stopped, cur, client>> /\ cur.id \in Keys
  BY DEF Emit, Inv, CopyInv
<1>2. /\ timers' \in [Keys' -> TimerType] /\ Keys' \subseteq Keys
      /\ added' \in Seq([id : Ids, fate : Fates]) /\ Len(added') = Len(added)
      /\ \A n \in DOMAIN added : added'[n].id = added[n].id
      /\ LiveInv'
  <2>1. CASE cur.periodic
    <3>1. /\ timers' = With(cur.id, [periodic |-> TRUE, duration |-> cur.duration,
                                     left |-> cur.duration])
          /\ added' = added
      BY <2>1 DEF Emit
    <3>2. [periodic |-> TRUE, duration |-> cur.duration, left |-> cur.duration] \in TimerType
      BY DEF Inv, Typed, TimerType
    <3>3. timers' \in [Keys' -> TimerType] /\ Keys' = Keys
      BY <1>1, <3>1, <3>2 DEF Keys, With, Inv, Typed
    <3>4. LiveInv'  BY <3>1, <3>3 DEF Inv, LiveInv, MapIsLive, Live
    <3>5. QED  BY <3>1, <3>3, <3>4 DEF Inv, Typed
  <2>2. CASE ~cur.periodic
    <3>1. /\ timers' = Without(cur.id)
          /\ added' = [added EXCEPT ![Latest(cur.id)].fate = "expired"]
      BY <2>2 DEF Emit
    <3>2. Latest(cur.id) \in Live /\ added[Latest(cur.id)].id = cur.id
      BY <1>1, LatestLives DEF Inv
    <3>3. Latest(cur.id) \in DOMAIN added /\ added[Latest(cur.id)].fate = "live"
      BY <3>2 DEF Live
    <3>4. added' = [added EXCEPT ![Latest(cur.id)].fate = IF @ = "live" THEN "expired" ELSE @]
      BY <3>1, <3>3
    <3>5. QED  BY <3>1, <3>2, <3>3, <3>4, EndKeeps
  <2>3. QED  BY <2>1, <2>2
<1>3. Typed'  BY <1>1, <1>2 DEF Inv, Typed
<1>4. CallInv'  BY <1>1, <1>2 DEF Inv, Typed, CallInv
<1>5. CopyInv'  BY <1>1 DEF CopyInv
<1>6. QED  BY <1>2, <1>3, <1>4, <1>5 DEF Inv

\* The other steps of the thread, and the destructor: only the copy changes.
LEMMA ThreadKeeps ==
  Inv /\ (Destroy \/ Top \/ Eval \/ Park \/ Spurious \/ Lapse \/ After \/ CallBack) => Inv'
<1> SUFFICES ASSUME Inv, Destroy \/ Top \/ Eval \/ Park \/ Spurious \/ Lapse \/ After \/ CallBack
             PROVE  Inv'
  OBVIOUS
<1>1. UNCHANGED <<timers, lastId, added>> /\ Keys' = Keys
  BY DEF Destroy, Top, Eval, Park, Spurious, Lapse, After, CallBack, Keys
<1>2. LiveInv'  BY <1>1 DEF Inv, LiveInv, MapIsLive, Live
<1>3. CallInv'
  BY <1>1 DEF Destroy, Top, Eval, Park, Spurious, Lapse, After, CallBack, Inv, CallInv, Typed,
              ClientType
<1>4. CASE Destroy
  <2>1. client \in ClientType /\ client' = [client EXCEPT !.at = "destroyed"]
        /\ client.op = "destroy"
    BY <1>4 DEF Destroy, Inv, Typed
  <2>2. client' \in ClientType  BY <2>1 DEF ClientType, At
  <2>3. Typed'  BY <1>1, <1>4, <2>2 DEF Destroy, Inv, Typed
  <2>4. CopyInv'  BY <1>1, <1>4 DEF Destroy, Inv, CopyInv
  <2>5. QED  BY <1>2, <1>3, <2>3, <2>4 DEF Inv
<1>5. CASE Top /\ pc' = "done"
  <2>1. UNCHANGED <<cur, client>> /\ stopped' \in BOOLEAN
    BY <1>5 DEF Top, Inv, Typed
  <2>2. Typed'  BY <1>1, <1>5, <2>1 DEF Inv, Typed
  <2>3. CopyInv'  BY <1>5 DEF CopyInv
  <2>4. QED  BY <1>2, <1>3, <2>2, <2>3 DEF Inv
<1>6. CASE Top /\ pc' # "done"
  <2>1. PICK id \in Ids :
          /\ IsClosest(id) /\ id # -1 /\ pc' = "eval"
          /\ cur' = [id |-> id, periodic |-> timers[id].periodic,
                     duration |-> timers[id].duration, left |-> timers[id].left]
          /\ UNCHANGED <<stopped, client>>
    BY <1>6 DEF Top
  <2>2. id \in Keys  BY <2>1 DEF IsClosest
  <2>3. timers[id] \in TimerType  BY <2>2 DEF Inv, Typed
  <2>4. Typed'  BY <1>1, <2>1, <2>3 DEF Inv, Typed, TimerType
  <2>5. CopyInv'  BY <1>1, <2>1, <2>2 DEF CopyInv
  <2>6. QED  BY <1>2, <1>3, <2>4, <2>5 DEF Inv
<1>7. CASE Eval \/ Park \/ Spurious \/ Lapse \/ After \/ CallBack
  <2>1. UNCHANGED <<stopped, cur, client>> /\ pc \notin {"done", "top"}
        /\ pc' \in {"top", "eval", "park", "blocked", "after", "emit", "stuck"}
    BY <1>7 DEF Eval, Park, Spurious, Lapse, After, CallBack
  <2>2. Typed'  BY <1>1, <2>1 DEF Inv, Typed
  <2>3. pc' = "after" => cur.left <= 0 \/ stopped
    <3>1. cur.left \in Int  BY DEF Inv, Typed
    <3>2. CASE Eval  BY <3>1, <3>2 DEF Eval
    <3>3. CASE ~Eval  BY <1>7, <3>3 DEF Park, Spurious, Lapse, After, CallBack
    <3>4. QED  BY <3>2, <3>3
  <2>4. pc' = "emit" => cur.left <= 0
    BY <1>7 DEF Eval, Park, Spurious, Lapse, After, CallBack, Inv, CopyInv
  <2>5. CopyInv'  BY <1>1, <2>1, <2>3, <2>4 DEF Inv, CopyInv
  <2>6. QED  BY <1>2, <1>3, <2>2, <2>5 DEF Inv
<1>8. QED  BY <1>4, <1>5, <1>6, <1>7

LEMMA StepInv == Inv /\ [Next]_vars => Inv'
<1> SUFFICES ASSUME Inv, [Next]_vars PROVE Inv'
  OBVIOUS
<1>1. CASE UNCHANGED vars
  BY <1>1 DEF vars, Inv, Typed, LiveInv, MapIsLive, Live, CopyInv, CallInv, Keys
<1>2. CASE Next
  BY <1>2, TickKeeps, CallKeeps, AddKeeps, StopTimerKeeps, EmitKeeps, ThreadKeeps
  DEF Next, Return, Run
<1>3. QED  BY <1>1, <1>2

LEMMA Invariance == Spec => []Inv
<1>1. QED  BY InitInv, StepInv, PTL DEF Spec

-----------------------------------------------------------------------------
(* What the invariant says of an emission                                  *)

\* timeout is only emitted for a timer that lives and is due.
LEMMA EmissionIsDue ==
  ASSUME Inv, [Next]_vars
  PROVE  \/ emitted' = emitted
         \/ emitted' = 0
         \/ /\ emitted' \in Live
            /\ timers[added[emitted'].id].left <= 0
<1>1. CASE Emit \/ CallBack
  <2>1. emitted' = Latest(cur.id) /\ pc = "emit"  BY <1>1 DEF Emit, CallBack
  <2>2. cur.id \in Keys /\ timers[cur.id].left <= 0  BY <2>1 DEF Inv, CopyInv
  <2>3. Latest(cur.id) \in Live /\ added[Latest(cur.id)].id = cur.id
    BY <2>2, LatestLives DEF Inv
  <2>4. QED  BY <2>1, <2>2, <2>3
<1>2. CASE ~(Emit \/ CallBack)
  BY <1>2 DEF Next, Tick, Call, Return, Run, Notify, Add, StopTimer, Destroy, Start, Top, Eval,
              Park, Lapse, After, Spurious, vars
<1>3. QED  BY <1>1, <1>2

\* Every timer in the map has a duration it was added with, and was begun with
\* it: what the bounds of the types, and a timer that begins again, need.
Bounds ==
  /\ \A k \in Keys : /\ timers[k].left \in -MaxLate..timers[k].duration
                     /\ timers[k].duration \in Durations
  /\ client.op = "add" =>
       client.timer.duration \in Durations /\ client.timer.left = client.timer.duration
  /\ emitted \in 0..Len(added)

LEMMA BoundsStep == Inv /\ Inv' /\ Bounds /\ [Next]_vars => Bounds'
<1> SUFFICES ASSUME Inv, Inv', Bounds, [Next]_vars PROVE Bounds'
  OBVIOUS
<1>0. /\ MaxLate \in Nat /\ timers \in [Keys -> TimerType] /\ client \in ClientType
      /\ \A k \in Keys : timers[k] \in TimerType
      /\ DOMAIN added = 1..Len(added) /\ Len(added) \in Nat /\ Len(added') \in Nat
  BY CombinedTimerAssumption DEF Inv, Typed
<1>1. emitted' \in 0..Len(added')
  <2>1. Len(added') >= Len(added)
    <3>1. CASE Add
      <4>1. \E f : added' = Append([n \in DOMAIN added |-> f[n]], [id |-> lastId, fate |-> "live"])
        BY <3>1 DEF Add
      <4>2. QED  BY <1>0, <4>1
    <3>2. CASE ~Add
      BY <1>0, <3>2
      DEF Next, Tick, Call, Return, Run, CallBack, Notify, StopTimer, Destroy, Start, Top,
          Eval, Park, Lapse, After, Emit, Spurious, vars
    <3>3. QED  BY <3>1, <3>2
  <2>2. Live \subseteq 1..Len(added)  BY <1>0 DEF Live
  <2>3. emitted' = emitted \/ emitted' = 0 \/ emitted' \in Live  BY EmissionIsDue
  <2>4. emitted \in 0..Len(added)  BY DEF Bounds
  <2>5. emitted' \in Live => emitted' \in 0..Len(added)
    <3> HIDE DEF Live
    <3>1. \A n \in 1..Len(added) : n \in 0..Len(added)  BY <1>0
    <3>2. QED  BY <2>2, <3>1, Zenon
  <2>6. emitted' \in 0..Len(added)  BY <1>0, <2>3, <2>4, <2>5
  <2>7. QED  BY <1>0, <2>1, <2>6
<1>2. client'.op = "add" =>
        client'.timer.duration \in Durations /\ client'.timer.left = client'.timer.duration
  <2>1. CASE Call
    <3>1. CASE \E d \in Durations, periodic \in BOOLEAN : CallAdd(d, periodic)
      BY <3>1 DEF CallAdd
    <3>2. CASE \E id \in Ids : CallStop(id)  BY <3>2 DEF CallStop
    <3>3. CASE CallDestroy  BY <3>3 DEF CallDestroy
    <3>4. QED  BY <2>1, <3>1, <3>2, <3>3 DEF Call
  <2>2. CASE Add \/ StopTimer  BY <2>2 DEF Add, StopTimer, Start, Idle
  <2>3. CASE Notify \/ Destroy
    <3>1. client' = [client EXCEPT !.at = client'.at]  BY <1>0, <2>3 DEF Notify, Destroy, ClientType
    <3>2. QED  BY <1>0, <2>3, <3>1 DEF Bounds, ClientType
  <2>4. CASE UNCHANGED client  BY <2>4 DEF Bounds
  <2>5. QED
    BY <2>1, <2>2, <2>3, <2>4
    DEF Next, Tick, Return, Run, CallBack, Top, Eval, Park, Lapse, After, Emit, Spurious, vars
<1>3. \A k \in Keys' : /\ timers'[k].left \in -MaxLate..timers'[k].duration
                      /\ timers'[k].duration \in Durations
  <2>1. CASE Tick
    <3>1. ASSUME NEW k \in Keys
          PROVE  /\ timers'[k].left \in -MaxLate..timers'[k].duration
                 /\ timers'[k].duration \in Durations
      <4>1. /\ timers[k].left \in Int /\ timers[k].duration \in Nat
            /\ timers[k].left > -MaxLate /\ timers[k].left <= timers[k].duration
            /\ timers'[k] = [timers[k] EXCEPT !.left = @ - 1]
        BY <1>0, <2>1 DEF Tick, TimerType, Bounds
      <4>2. /\ timers'[k].left = timers[k].left - 1
            /\ timers'[k].duration = timers[k].duration
        BY <1>0, <4>1 DEF TimerType
      <4>3. QED  BY <1>0, <4>1, <4>2 DEF Bounds
    <3>2. Keys' = Keys  BY <2>1 DEF Tick, Keys
    <3>3. QED  BY <3>1, <3>2
  <2>2. ASSUME NEW id, NEW tm \in TimerType, tm.left = tm.duration, tm.duration \in Durations,
               timers' = With(id, tm)
        PROVE  \A k \in Keys' : /\ timers'[k].left \in -MaxLate..timers'[k].duration
                                /\ timers'[k].duration \in Durations
    <3>1. tm.left \in -MaxLate..tm.duration  BY <1>0, <2>2 DEF TimerType
    <3>2. QED  BY <2>2, <3>1 DEF With, Keys, Bounds
  <2>3. CASE Add
    <3>1. /\ client.timer \in TimerType /\ client.timer.left = client.timer.duration
          /\ client.timer.duration \in Durations
      BY <1>0, <2>3 DEF Add, ClientType, Bounds
    <3>2. QED  BY <2>2, <2>3, <3>1 DEF Add
  <2>4. CASE Emit /\ cur.periodic
    <3>1. cur.duration \in Nat /\ cur.duration \in Durations
      BY <2>4 DEF Emit, Inv, Typed, CopyInv, Bounds
    <3>2. [periodic |-> TRUE, duration |-> cur.duration, left |-> cur.duration] \in TimerType
      BY <3>1 DEF TimerType
    <3>3. QED  BY <2>2, <2>4, <3>1, <3>2 DEF Emit
  <2>5. CASE StopTimer \/ (Emit /\ ~cur.periodic)
    <3>1. PICK id : timers' = Without(id)  BY <2>5 DEF StopTimer, Emit
    <3>2. QED  BY <3>1 DEF Without, Keys, Bounds
  <2>6. CASE UNCHANGED timers  BY <2>6 DEF Bounds, Keys
  <2>7. QED
    BY <2>1, <2>3, <2>4, <2>5, <2>6
    DEF Next, Call, Return, Run, CallBack, Notify, Destroy, Top, Eval, Park, Lapse, After,
        Spurious, vars
<1>4. QED  BY <1>1, <1>2, <1>3 DEF Bounds

-----------------------------------------------------------------------------
(* The theorems                                                            *)

\* Every id in use is one of int16_t's, and no timer is later than the
\* thread may be.
THEOREM TimersTypeCorrect == Spec => []TypeOK
<1>1. Init => Bounds
  <2>1. Init => Keys = {} /\ added = <<>> /\ emitted = 0 /\ client = Idle  BY DEF Init, Keys
  <2>2. QED  BY <2>1 DEF Bounds, Idle
<1>2. Inv /\ Bounds => TypeOK
  BY DEF Inv, Typed, Bounds, TypeOK, ClientType, At
<1>3. QED  BY Invariance, BoundsStep, <1>1, <1>2, PTL DEF Spec

\* The map holds exactly the timers that live, whatever addTimer, stopTimer
\* and the thread did to it and however often the ids wrapped.
THEOREM TimersMapIsLive == Spec => []MapIsLive
<1>1. Inv => MapIsLive  BY DEF Inv, LiveInv
<1>2. QED  BY Invariance, <1>1, PTL

\* A timer that was stopped, was replaced or has expired does not fire.
THEOREM TimersStoppedIsSilent == Spec => StoppedIsSilent
<1>1. Inv /\ [Next]_vars =>
        [\A n \in DOMAIN added : added[n].fate # "live" => emitted' # n \/ emitted = n]_vars
  <2> SUFFICES ASSUME Inv, [Next]_vars, NEW n \in DOMAIN added,
                      added[n].fate # "live", emitted' = n, emitted # n
               PROVE  FALSE
    BY Zenon
  <2>1. n \in 1..Len(added) /\ Len(added) \in Nat  BY DEF Inv, Typed
  <2>2. n \notin Live /\ n # 0  BY <2>1 DEF Live
  <2>3. QED  BY <2>2, EmissionIsDue
<1>2. QED  BY Invariance, <1>1, PTL DEF Spec, StoppedIsSilent

\* No timer fires before its expiration date.
THEOREM TimersNeverEarly == Spec => NeverEarly
<1>1. Inv /\ [Next]_vars =>
        [emitted' \notin {0, emitted} => timers[added[emitted'].id].left <= 0]_vars
  BY EmissionIsDue
<1>2. QED  BY Invariance, <1>1, PTL DEF Spec, NeverEarly

-----------------------------------------------------------------------------
(* The thread sleeps through nothing                                       *)

\* Whoever joined the thread starts it again; while it has a copy, that is of
\* the timer that expires first.
ServedInv ==
  /\ client.at = "idle" /\ pc = "done" => Keys = {} \/ Silenced
  /\ client.at = "idle" /\ stopped => pc = "done"
  /\ pc \notin {"done", "top"} => \A k \in Keys : cur.left <= timers[k].left

LEMMA ServedStep == Inv /\ Inv' /\ ServedInv /\ [Next]_vars => ServedInv'
<1> SUFFICES ASSUME Inv, Inv', ServedInv, [Next]_vars PROVE ServedInv'
  OBVIOUS
<1>0. /\ timers \in [Keys -> TimerType] /\ client \in ClientType /\ MaxLate \in Nat
      /\ \A k \in Keys : timers[k].left \in Int
  BY CombinedTimerAssumption DEF Inv, Typed, TimerType
<1>1. CASE Tick
  <2>1. Keys' = Keys /\ UNCHANGED <<stopped, pc, client>>  BY <1>1 DEF Tick, Keys
  <2>2. Silenced' <=> Silenced  BY <2>1 DEF Silenced
  <2>3. pc \notin {"done", "top"} =>
          \A k \in Keys : cur'.left <= timers'[k].left
    <3> SUFFICES ASSUME pc \notin {"done", "top"}, NEW k \in Keys
                 PROVE  cur'.left <= timers'[k].left
      OBVIOUS
    <3>1. timers'[k].left = timers[k].left - 1
      BY <1>0, <1>1 DEF Tick, TimerType
    <3>2. cur.left > -MaxLate  BY <1>1 DEF Tick, Inv, CopyInv
    <3>3. cur'.left = cur.left - 1 /\ cur.left \in Int
      BY <1>1, <3>2 DEF Tick, Inv, Typed
    <3>4. cur.left <= timers[k].left  BY DEF ServedInv
    <3>5. QED  BY <1>0, <3>1, <3>3, <3>4
  <2>4. QED  BY <2>1, <2>2, <2>3 DEF ServedInv
<1>2. CASE Call \/ Notify \/ Destroy
  <2>1. client'.at # "idle"
    <3>1. CASE Call
      <4>1. CASE \E d \in Durations, periodic \in BOOLEAN : CallAdd(d, periodic)
        BY <4>1 DEF CallAdd
      <4>2. CASE \E id \in Ids : CallStop(id)  BY <4>2 DEF CallStop
      <4>3. CASE CallDestroy  BY <4>3 DEF CallDestroy
      <4>4. QED  BY <3>1, <4>1, <4>2, <4>3 DEF Call
    <3>2. CASE Notify \/ Destroy
      <4>1. PICK where \in {"join", "destroyed"} : client' = [client EXCEPT !.at = where]
        BY <3>2 DEF Notify, Destroy
      <4>2. client'.at = where  BY <1>0, <4>1 DEF ClientType
      <4>3. QED  BY <4>1, <4>2
    <3>3. QED  BY <1>2, <3>1, <3>2
  <2>2. /\ UNCHANGED <<timers, cur>> /\ Keys' = Keys
        /\ pc' = pc \/ (pc = "blocked" /\ pc' = "eval")
    BY <1>2 DEF Call, Notify, Destroy, Keys
  <2>3. QED  BY <2>1, <2>2 DEF ServedInv
<1>3. CASE Add \/ StopTimer
  BY <1>3 DEF Add, StopTimer, Start, Idle, ServedInv
<1>4. CASE Emit
  <2>1. pc = "emit" /\ pc' = "top" /\ UNCHANGED <<stopped, client>>  BY <1>4 DEF Emit
  <2>2. QED  BY <2>1 DEF ServedInv
<1>5. CASE Top
  <2>1. UNCHANGED <<timers, client>> /\ Keys' = Keys /\ pc = "top"
    BY <1>5 DEF Top, Keys
  <2>2. CASE stopped
    <3>1. client'.at # "idle" /\ pc' = "done"  BY <1>5, <2>1, <2>2 DEF Top, ServedInv
    <3>2. QED  BY <3>1 DEF ServedInv
  <2>3. CASE ~stopped
    <3>1. PICK id \in Ids :
            /\ IsClosest(id)
            /\ IF id = -1
               THEN stopped' = TRUE /\ pc' = "done" /\ UNCHANGED cur
               ELSE /\ cur' = [id |-> id, periodic |-> timers[id].periodic,
                               duration |-> timers[id].duration, left |-> timers[id].left]
                    /\ pc' = "eval"
                    /\ UNCHANGED stopped
      BY <1>5, <2>3 DEF Top
    <3>2. CASE id = -1
      <4>1. Keys' = {} \/ Silenced'  BY <2>1, <3>1, <3>2 DEF IsClosest, Silenced
      <4>2. QED  BY <3>1, <3>2, <4>1 DEF ServedInv
    <3>3. CASE id # -1
      <4>1. \A k \in Keys : timers[id].left <= timers[k].left
        BY <3>1, <3>3 DEF IsClosest
      <4>2. cur'.left = timers[id].left  BY <3>1, <3>3
      <4>3. QED  BY <2>1, <2>3, <3>1, <3>3, <4>1, <4>2 DEF ServedInv
    <3>4. QED  BY <3>2, <3>3
  <2>4. QED  BY <2>2, <2>3
<1>6. CASE Eval \/ Park \/ Spurious \/ Lapse \/ After \/ CallBack
  <2>1. /\ UNCHANGED <<timers, stopped, cur, client>> /\ Keys' = Keys
        /\ pc \notin {"done", "top"} /\ pc' # "done"
    BY <1>6 DEF Eval, Park, Spurious, Lapse, After, CallBack, Keys
  <2>2. QED  BY <2>1 DEF ServedInv
<1>7. CASE UNCHANGED vars
  BY <1>7 DEF vars, ServedInv, Silenced, Keys
<1>8. QED
  BY <1>1, <1>2, <1>3, <1>4, <1>5, <1>6, <1>7 DEF Next, Return, Run

\* No due timer is slept over: between two calls the thread has not ended
\* while there are timers, unless -1 is one of them, and it never waits beyond
\* the closest of them.
THEOREM TimersNeverOversleep == Spec => []NeverOversleeps
<1>1. Init => ServedInv
  <2>1. Init => Keys = {} /\ pc = "done"  BY DEF Init, Keys
  <2>2. QED  BY <2>1 DEF ServedInv
<1>2. Inv /\ ServedInv => NeverOversleeps
  BY DEF Inv, CopyInv, ServedInv, NeverOversleeps
<1>3. QED  BY Invariance, ServedStep, <1>1, <1>2, PTL DEF Spec

-----------------------------------------------------------------------------
(* A timer service                                                         *)

\* What the program sees of timers that live and of those that do not.
Serving(t) ==
  [state |-> "running", left |-> t.left, period |-> IF t.periodic THEN t.duration ELSE -1]
Ended(fate) ==
  [state |-> IF fate = "expired" THEN "expired" ELSE "stopped", left |-> 0, period |-> -1]

LEMMA ServedIs ==
  /\ DOMAIN served = DOMAIN added
  /\ \A n \in DOMAIN added :
       served[n] = IF n \in Live THEN Serving(timers[added[n].id]) ELSE Ended(added[n].fate)
  /\ Service!Running = Live
<1>1. /\ DOMAIN served = DOMAIN added
      /\ \A n \in DOMAIN added :
           served[n] = IF n \in Live THEN Serving(timers[added[n].id]) ELSE Ended(added[n].fate)
  BY DEF served, Serving, Ended, Live
<1>2. \A n \in DOMAIN added : served[n].state = "running" <=> n \in Live
  BY <1>1 DEF Serving, Ended
<1>3. Service!Running = Live  BY <1>1, <1>2 DEF Service!Running, Live
<1>4. QED  BY <1>1, <1>3

\* A step that touches one timer and leaves the others in the map alone.
LEMMA OneServed ==
  ASSUME Inv, NEW l \in Live,
         DOMAIN added' = DOMAIN added,
         \A n \in DOMAIN added : n # l => added'[n] = added[n],
         \A k \in Keys \ {added[l].id} : timers'[k] = timers[k]
  PROVE  served' = [served EXCEPT ![l] = served'[l]]
<1>1. ASSUME NEW n \in DOMAIN added, n # l PROVE served'[n] = served[n]
  <2>1. n \in Live => added[n].id \in Keys \ {added[l].id}
    BY <1>1 DEF Inv, LiveInv, MapIsLive
  <2>2. QED  BY <1>1, <2>1 DEF served, Live
<1>2. DOMAIN served' = DOMAIN served /\ DOMAIN served = DOMAIN added  BY DEF served
<1>3. served' = [n \in DOMAIN served |-> served'[n]]  BY <1>2 DEF served
<1>4. QED  BY <1>1, <1>2, <1>3

\* Appending to a sequence that is given as a function.
LEMMA AppendIs ==
  ASSUME NEW k \in Nat, NEW s, s = [i \in 1..k |-> s[i]], NEW x
  PROVE  Append(s, x) = [i \in 1..k + 1 |-> IF i = k + 1 THEN x ELSE s[i]]
<1>1. s \in Seq({s[i] : i \in 1..k}) /\ Len(s) = k  OBVIOUS
<1>2. QED  BY <1>1

LEMMA TickServes == Inv /\ Tick => Service!Tick
<1> SUFFICES ASSUME Inv, Tick PROVE Service!Tick
  OBVIOUS
<1>1. added' = added /\ Live' = Live  BY DEF Tick, Live
<1>2. ASSUME NEW n \in DOMAIN added
      PROVE  served'[n] = IF n \in Live THEN [served[n] EXCEPT !.left = @ - 1] ELSE served[n]
  <2>1. CASE n \in Live
    <3>1. added[n].id \in Keys  BY <2>1 DEF Inv, LiveInv, MapIsLive
    <3>2. timers[added[n].id] \in TimerType  BY <3>1 DEF Inv, Typed
    <3>3. timers'[added[n].id] = [timers[added[n].id] EXCEPT !.left = @ - 1]
      BY <3>1 DEF Tick
    <3>4. served'[n] = Serving(timers'[added[n].id]) /\ served[n] = Serving(timers[added[n].id])
      BY <1>1, <2>1 DEF served, Serving, Live
    <3>5. QED  BY <2>1, <3>2, <3>3, <3>4 DEF Serving, TimerType
  <2>2. CASE n \notin Live  BY <1>1, <2>2 DEF served, Live
  <2>3. QED  BY <2>1, <2>2
<1>3. served' = [n \in DOMAIN added |-> served'[n]]  BY <1>1 DEF served
<1>4. QED  BY <1>2, <1>3, ServedIs DEF Service!Tick

\* addTimer begins a timer, or puts it in the place of the one that has its id.
LEMMA AddServes == Inv /\ Bounds /\ Add => Service!Begin \/ Service!Replace
<1> SUFFICES ASSUME Inv, Bounds, Add PROVE Service!Begin \/ Service!Replace
  OBVIOUS
<1> DEFINE kept == [n \in DOMAIN added |->
                      IF lastId \in Keys /\ n = Latest(lastId)
                      THEN [added[n] EXCEPT !.fate = "replaced"] ELSE added[n]]
           new == [id |-> lastId, fate |-> "live"]
           order == [left |-> client.timer.left,
                     period |-> IF client.timer.periodic THEN client.timer.duration ELSE -1]
           old == [n \in DOMAIN added |->
                     IF lastId \in Keys /\ n = Latest(lastId)
                     THEN Ended("replaced") ELSE served[n]]
           Orders == {[left |-> d, period |-> IF p THEN d ELSE -1] : d \in Durations, p \in BOOLEAN}
<1>1. /\ timers' = With(lastId, client.timer) /\ added' = Append(kept, new)
      /\ client.op = "add" /\ client.timer \in TimerType
      /\ added \in Seq([id : Ids, fate : Fates])
      /\ DOMAIN added = 1..Len(added) /\ Len(added) \in Nat
  BY DEF Add, Inv, Typed, ClientType
<1>2. order \in Orders  BY <1>1 DEF Bounds, TimerType
<1>3. added' = [i \in 1..Len(added) + 1 |-> IF i = Len(added) + 1 THEN new ELSE kept[i]]
  <2>1. kept = [i \in 1..Len(added) |-> kept[i]]  BY <1>1
  <2> HIDE DEF kept, new
  <2>2. QED  BY <1>1, <2>1, AppendIs
<1>4. ASSUME NEW n \in DOMAIN added PROVE served'[n] = old[n]
  <2>0. n \in 1..Len(added) + 1 /\ n # Len(added) + 1  BY <1>1
  <2>1. added'[n] = kept[n] /\ n \in DOMAIN added'  BY <1>3, <2>0
  <2>2. CASE lastId \in Keys /\ n = Latest(lastId)
    <3>1. added'[n] = [added[n] EXCEPT !.fate = "replaced"]  BY <2>1, <2>2
    <3>2. added[n] \in [id : Ids, fate : Fates]  BY <1>1, LenProperties
    <3>3. added'[n].fate = "replaced"  BY <3>1, <3>2
    <3>4. QED  BY <2>1, <2>2, <3>3 DEF served, Ended
  <2>3. CASE ~(lastId \in Keys /\ n = Latest(lastId))
    <3>1. added'[n] = added[n]  BY <2>1, <2>3
    <3>2. n \in Live => added[n].id \in Keys \ {lastId}
      BY <2>3, LatestLives DEF Inv, LiveInv, MapIsLive
    <3>3. n \in Live => timers'[added[n].id] = timers[added[n].id]
      BY <1>1, <3>2 DEF With
    <3>4. QED  BY <2>1, <2>3, <3>1, <3>3 DEF served, Live
  <2>4. QED  BY <2>2, <2>3
<1>5. served'[Len(added) + 1] = Service!Set(order) /\ DOMAIN served' = 1..Len(added) + 1
  <2>1. added'[Len(added) + 1] = new /\ DOMAIN added' = 1..Len(added) + 1
    BY <1>1, <1>3
  <2>2. timers'[lastId] = client.timer  BY <1>1 DEF With
  <2>3. Len(added) + 1 \in DOMAIN added'  BY <1>1, <2>1
  <2>4. QED  BY <2>1, <2>2, <2>3 DEF served, Service!Set
<1>6. served' = Append(old, Service!Set(order))
  <2>1. served' = [n \in 1..Len(added) + 1 |-> served'[n]]  BY <1>5 DEF served
  <2>2. \A n \in 1..Len(added) + 1 : n = Len(added) + 1 \/ n \in DOMAIN added  BY <1>1
  <2>3. old = [n \in 1..Len(added) |-> old[n]]  BY <1>1
  <2> HIDE DEF old, order
  <2>4. Append(old, Service!Set(order)) =
          [i \in 1..Len(added) + 1 |->
             IF i = Len(added) + 1 THEN Service!Set(order) ELSE old[i]]
    BY <1>1, <2>3, AppendIs
  <2>5. \A n \in 1..Len(added) + 1 :
          served'[n] = IF n = Len(added) + 1 THEN Service!Set(order) ELSE old[n]
    BY <1>4, <1>5, <2>2
  <2>6. QED  BY <2>1, <2>4, <2>5
<1>7. CASE lastId \in Keys
  <2>1. Latest(lastId) \in Service!Running  BY <1>7, LatestLives, ServedIs DEF Inv
  <2>2. old = [served EXCEPT ![Latest(lastId)] = Service!Over("stopped")]
    <3>1. DOMAIN served = DOMAIN added  BY ServedIs
    <3>2. served = [n \in DOMAIN added |-> served[n]]  BY DEF served
    <3>3. Service!Over("stopped") = Ended("replaced")  BY DEF Service!Over, Service!Once, Ended
    <3>4. QED  BY <1>7, <3>1, <3>2, <3>3
  <2> HIDE DEF old, order, Orders
  <2>3. Service!Replace  BY <1>2, <1>6, <2>1, <2>2 DEF Service!Replace, Orders
  <2>4. QED  BY <2>3
<1>8. CASE lastId \notin Keys
  <2>1. old = served  BY <1>8 DEF served
  <2> HIDE DEF old, order, Orders
  <2>2. Service!Begin  BY <1>2, <1>6, <2>1 DEF Service!Begin, Orders
  <2>3. QED  BY <2>2
<1>9. QED  BY <1>7, <1>8

\* stopTimer stops a timer that lives; one that expired meanwhile stays as it
\* is, and the map with it.
LEMMA StopTimerServes == Inv /\ StopTimer => Service!Stop \/ UNCHANGED served
<1> SUFFICES ASSUME Inv, StopTimer PROVE Service!Stop \/ UNCHANGED served
  OBVIOUS
<1> DEFINE l == Latest(client.id)
<1>1. /\ timers' = Without(client.id)
      /\ added' = [added EXCEPT ![l].fate = IF @ = "live" THEN "stopped" ELSE @]
      /\ client.op = "stop" /\ added \in Seq([id : Ids, fate : Fates])
      /\ \A k \in Keys \ {client.id} : timers'[k] = timers[k]
  BY DEF StopTimer, Inv, Typed, Without
<1>2. l \in DOMAIN added /\ added[l].id = client.id
  BY <1>1, LatestExists DEF Inv, CallInv
<1>3. added[l] \in [id : Ids, fate : Fates]  BY <1>1, <1>2, LenProperties
<1> HIDE DEF l
<1>4. CASE l \in Live
  <2>1. /\ DOMAIN added' = DOMAIN added /\ \A n \in DOMAIN added : n # l => added'[n] = added[n]
        /\ added'[l] = [added[l] EXCEPT !.fate = "stopped"]
    BY <1>1, <1>2, <1>4 DEF Live
  <2>2. added'[l].fate = "stopped"  BY <1>3, <2>1
  <2>3. served'[l] = Ended("stopped")  BY <1>2, <2>1, <2>2 DEF served, Ended
  <2>4. served' = [served EXCEPT ![l] = served'[l]]
    BY <1>1, <1>2, <1>4, <2>1, OneServed
  <2>5. Ended("stopped") = Service!Over("stopped")  BY DEF Ended, Service!Over, Service!Once
  <2>6. served' = [served EXCEPT ![l] = Service!Over("stopped")]  BY <2>3, <2>4, <2>5
  <2>7. QED  BY <1>4, <2>6, ServedIs DEF Service!Stop
<1>5. CASE l \notin Live
  <2>1. client.id \notin Keys
    BY <1>5, LatestLives DEF Inv, l
  <2>2. timers' = timers  BY <1>1, <2>1 DEF Without, Keys, Inv, Typed
  <2>3. added' = added  BY <1>1, <1>2, <1>3, <1>5 DEF Live
  <2>4. QED  BY <2>2, <2>3 DEF served
<1>6. QED  BY <1>4, <1>5

\* timeout is emitted for a timer whose time has passed; it is over, or begins
\* again.
LEMMA EmitServes == Inv /\ Bounds /\ Emit => Service!Expire
<1> SUFFICES ASSUME Inv, Bounds, Emit PROVE Service!Expire
  OBVIOUS
<1> DEFINE l == Latest(cur.id)
           t == timers[cur.id]
<1>1. /\ cur.id \in Keys /\ t.left <= 0 /\ cur.periodic = t.periodic /\ cur.duration = t.duration
      /\ t \in TimerType /\ t.duration # Service!Once
  BY DEF Emit, Inv, CopyInv, Typed, TimerType, Service!Once
<1>2. l \in Live /\ added[l].id = cur.id  BY <1>1, LatestLives DEF Inv
<1>3. l \in DOMAIN added /\ added[l] \in [id : Ids, fate : Fates]
  <2>1. added \in Seq([id : Ids, fate : Fates])  BY DEF Inv, Typed
  <2>2. l \in DOMAIN added  BY <1>2 DEF Live
  <2> HIDE DEF l
  <2>3. QED  BY <2>1, <2>2, LenProperties
<1>4. served[l] = Serving(t)  BY <1>2, <1>3, ServedIs
<1>5. l \in Service!Running /\ served[l].left <= 0 /\ l \in DOMAIN served
  BY <1>1, <1>2, <1>3, <1>4, ServedIs DEF Serving
<1> HIDE DEF l
<1>6. CASE cur.periodic
  <2> DEFINE again == [periodic |-> TRUE, duration |-> cur.duration, left |-> cur.duration]
  <2>1. timers' = With(cur.id, again) /\ added' = added
    BY <1>6 DEF Emit
  <2>2. timers'[cur.id] = again /\ \A k \in Keys \ {cur.id} : timers'[k] = timers[k]
    BY <2>1 DEF With
  <2>3. served'[l] = Serving(again)  BY <1>2, <1>3, <2>1, <2>2 DEF served, Serving, Live
  <2>4. served[l].period = t.duration  BY <1>1, <1>4, <1>6 DEF Serving
  <2>5. served'[l] = [served[l] EXCEPT !.left = served[l].period]
    BY <1>1, <1>4, <1>6, <2>3, <2>4 DEF Serving
  <2>6. served' = [served EXCEPT ![l] = served'[l]]  BY <1>2, <2>1, <2>2, OneServed
  <2>7. QED  BY <1>1, <1>5, <2>4, <2>5, <2>6 DEF Service!Expire
<1>7. CASE ~cur.periodic
  <2>1. /\ timers' = Without(cur.id) /\ added' = [added EXCEPT ![l].fate = "expired"]
        /\ \A k \in Keys \ {cur.id} : timers'[k] = timers[k]
    BY <1>7 DEF Emit, Without, l
  <2>2. /\ DOMAIN added' = DOMAIN added /\ \A n \in DOMAIN added : n # l => added'[n] = added[n]
        /\ added'[l].fate = "expired"
    BY <1>3, <2>1
  <2>3. served'[l] = Ended("expired")  BY <1>3, <2>2 DEF served, Ended
  <2>4. served' = [served EXCEPT ![l] = served'[l]]  BY <1>2, <2>1, <2>2, OneServed
  <2>5. Ended("expired") = Service!Over("expired") /\ served[l].period = Service!Once
    BY <1>1, <1>4, <1>7 DEF Ended, Service!Over, Service!Once, Serving
  <2>6. served' = [served EXCEPT ![l] = IF @.period = Service!Once THEN Service!Over("expired")
                                       ELSE [@ EXCEPT !.left = served[l].period]]
    BY <1>5, <2>3, <2>4, <2>5
  <2>7. QED  BY <1>5, <2>6 DEF Service!Expire
<1>8. QED  BY <1>6, <1>7

\* Every step is one of the service's, or leaves what the program sees alone.
LEMMA StepServes == Inv /\ Bounds /\ [Next]_vars => [Service!Next]_served
<1> SUFFICES ASSUME Inv, Bounds, [Next]_vars PROVE [Service!Next]_served
  OBVIOUS
<1>1. CASE Tick  BY <1>1, TickServes DEF Service!Next
<1>2. CASE Add  BY <1>2, AddServes DEF Service!Next
<1>3. CASE StopTimer  BY <1>3, StopTimerServes DEF Service!Next
<1>4. CASE Emit  BY <1>4, EmitServes DEF Service!Next
<1>5. CASE UNCHANGED <<timers, added>>  BY <1>5 DEF served
<1>6. QED
  BY <1>1, <1>2, <1>3, <1>4, <1>5
  DEF Next, Call, Return, Run, CallBack, Notify, Destroy, Top, Eval, Park, Lapse, After,
      Spurious, vars

\* For any range of ids and any durations combined_timer is a timer service:
\* a periodic timer begins again with its own duration, one that is replaced
\* or stopped ends as such, and no call or expiration touches another timer.
THEOREM TimersImplementService == Spec => RefinesService
<1>1. Init => Bounds
  <2>1. Init => Keys = {} /\ added = <<>> /\ emitted = 0 /\ client = Idle  BY DEF Init, Keys
  <2>2. QED  BY <2>1 DEF Bounds, Idle
<1>2. Init => Service!Init  BY DEF Init, served, Service!Init
<1>3. QED
  BY <1>1, <1>2, Invariance, BoundsStep, StepServes, PTL
  DEF Spec, RefinesService, Service!Spec
=============================================================================
