--------------------------- MODULE QueuePC_proofs ---------------------------
(***************************************************************************)
(* For one consumer and any number of items: queue_pc implements the       *)
(* ordered channel of EventChannel, although pop and stop take no lock,    *)
(* until the deque below the queue is corrupt.                             *)
(***************************************************************************)
EXTENDS QueuePC, TLAPS

numbers(n) == [i \in 1..n |-> i]

-----------------------------------------------------------------------------
(* What the one consumer relies on between waitPop and the end of pop:     *)
(* nobody else moves the begin cursor, so the item it was promised is      *)
(* there, and the one it has read is still the first when it advances.     *)
(* A push that moves the map has the mutex, so no consumer begins a wait.  *)

States == {"idle", "woken", "park", "blocked", "ready", "front", "refused", "corrupt"}

PopInv ==
  /\ head \in Nat /\ tail \in Nat /\ head <= tail /\ tail <= MaxItems
  /\ nodes \in {"steady", "moving"}
  /\ pc \in [Consumers -> States]
  /\ item \in [Consumers -> [value : 0..MaxItems, at : Nat]]
  /\ taken = numbers(head)
  /\ \A c \in Consumers :
       /\ nodes = "moving" => pc[c] # "park"
       /\ pc[c] \in {"ready", "front"} => head < tail
       /\ pc[c] = "front" => item[c] = [value |-> head + 1, at |-> head]

\* A late item was promised before the stop; after it waitPop refuses.
CloseInv ==
  /\ stopped \in BOOLEAN
  /\ stopped <=> closing # "open"
  /\ late \in {0, 1}
  /\ ~stopped => late = 0
  /\ late = 1 => \A c \in Consumers : pc[c] \in {"idle", "refused"}

QueueInv == PopInv /\ CloseInv

LEMMA NumbersSeq ==
  ASSUME NEW n \in Nat
  PROVE  numbers(n) \in Seq(Nat) /\ Len(numbers(n)) = n
BY DEF numbers

LEMMA NextNumber ==
  ASSUME NEW n \in Nat
  PROVE  numbers(n + 1) = Append(numbers(n), n + 1)
<1>1. numbers(n) \in Seq(Nat) /\ Len(numbers(n)) = n  BY NumbersSeq
<1>2. DOMAIN numbers(n + 1) = DOMAIN Append(numbers(n), n + 1)
  BY <1>1 DEF numbers
<1>3. \A i \in 1..n + 1 : numbers(n + 1)[i] = Append(numbers(n), n + 1)[i]
  BY <1>1 DEF numbers
<1>4. QED  BY <1>1, <1>2, <1>3 DEF numbers

\* notify_one: at most a blocked consumer is woken.
LEMMA NotifyWakes ==
  ASSUME pc \in [Consumers -> States], NotifyOne
  PROVE  /\ pc' \in [Consumers -> States]
         /\ \A c \in Consumers : pc'[c] = pc[c] \/ (pc[c] = "blocked" /\ pc'[c] = "woken")
BY DEF NotifyOne, Sleepers, States

LEMMA InitInv == Init => QueueInv
<1> SUFFICES ASSUME Init PROVE QueueInv
  OBVIOUS
<1>1. numbers(0) = <<>>  BY DEF numbers
<1>2. PopInv
  BY <1>1, QueueAssumption DEF Init, PopInv, States, Junk
<1>3. CloseInv  BY DEF Init, CloseInv
<1>4. QED  BY <1>2, <1>3 DEF QueueInv

\* A step of a consumer, when there is no other one.
LEMMA ConsumerKeeps ==
  ASSUME NEW c, Consumers = {c}, QueueInv, Consume(c) \/ Spurious(c)
  PROVE  QueueInv'
<1> USE QueueAssumption DEF QueueInv, PopInv, CloseInv, States
<1>1. CASE WaitPop(c)  BY <1>1 DEF WaitPop, Unlocked
<1>2. CASE Block(c)  BY <1>2 DEF Block
<1>3. CASE Spurious(c)  BY <1>3 DEF Spurious
<1>4. CASE pc[c] = "ready" /\ ReadFront(c)
  <2>1. /\ pc[c] = "ready" /\ head < tail /\ head + 1 \in 0..MaxItems
        /\ item' = [item EXCEPT ![c] = [value |-> head + 1, at |-> head]]
        /\ pc' = [pc EXCEPT ![c] = "front"]
        /\ UNCHANGED <<head, tail, nodes, stopped, taken, late, closing>>
    BY <1>4 DEF ReadFront
  <2>2. item' \in [Consumers -> [value : 0..MaxItems, at : Nat]]  BY <2>1
  <2>3. PopInv'  BY <2>1, <2>2
  <2>4. CloseInv'  BY <2>1
  <2>5. QED  BY <2>3, <2>4
<1>5. CASE pc[c] = "front" /\ AdvanceFront(c)
  <2>1. /\ pc[c] = "front" /\ head < tail /\ head' = head + 1
        /\ taken' = Append(taken, head + 1)
    BY <1>5 DEF AdvanceFront
  <2>2. taken' = numbers(head')  BY <2>1, NextNumber
  <2>3. PopInv'  BY <1>5, <2>1, <2>2 DEF AdvanceFront
  <2>4. late = 0  BY <2>1
  <2>5. CloseInv'  BY <1>5, <2>4 DEF AdvanceFront
  <2>6. QED  BY <2>3, <2>5
<1>6. CASE pc[c] \in {"ready", "front"} /\ Corrupt(c)  BY <1>6 DEF Corrupt
<1>7. QED  BY <1>1, <1>2, <1>3, <1>4, <1>5, <1>6 DEF Consume, Front, Pop

LEMMA StepInv ==
  ASSUME NEW c, Consumers = {c}, QueueInv, [Next]_vars
  PROVE  QueueInv'
<1> USE QueueAssumption DEF QueueInv, PopInv, CloseInv
<1>1. CASE Push
  <2>1. /\ pc' \in [Consumers -> States]
        /\ \A d \in Consumers : pc'[d] = pc[d] \/ (pc[d] = "blocked" /\ pc'[d] = "woken")
    BY <1>1, NotifyWakes DEF Push
  <2>2. QED  BY <1>1, <2>1 DEF Push
<1>2. CASE Stop  BY <1>2 DEF Stop
<1>3. CASE NotifyStop
  <2>1. /\ pc' \in [Consumers -> States]
        /\ \A d \in Consumers : pc'[d] = pc[d] \/ (pc[d] = "blocked" /\ pc'[d] = "woken")
    BY <1>3, NotifyWakes DEF NotifyStop
  <2>2. QED  BY <1>3, <2>1 DEF NotifyStop
<1>4. CASE Consume(c) \/ Spurious(c)  BY <1>4, ConsumerKeeps
<1>5. CASE Extend  BY <1>5 DEF Extend, Unlocked
<1>6. CASE UNCHANGED vars  BY <1>6 DEF vars
<1>7. QED  BY <1>1, <1>2, <1>3, <1>4, <1>5, <1>6 DEF Next

LEMMA Invariance ==
  ASSUME NEW c, Consumers = {c}
  PROVE  Spec => []QueueInv
BY InitInv, StepInv, PTL DEF Spec

-----------------------------------------------------------------------------
(* Pushing accepts an item, popping delivers the first, stop() closes.     *)

LEMMA StepImplements ==
  ASSUME NEW c, Consumers = {c}, QueueInv, [Next]_vars
  PROVE  [Channel!Next]_<<numbers(tail), taken, ~stopped, late = 0>>
<1> DEFINE stutter == UNCHANGED <<tail, taken, stopped, late>>
<1>0. /\ head \in Nat /\ tail \in Nat /\ taken = numbers(head)
      /\ Len(numbers(tail)) = tail /\ Len(numbers(head)) = head
  BY NumbersSeq DEF QueueInv, PopInv
<1>1. CASE Push
  <2>1. /\ tail' = tail + 1 /\ tail + 1 \in 1..MaxItems
        /\ UNCHANGED <<taken, stopped, late>>
    BY <1>0, <1>1, QueueAssumption DEF Push
  <2>2. numbers(tail') = Append(numbers(tail), tail + 1)  BY <1>0, <2>1, NextNumber
  <2>3. tail + 1 \notin {numbers(tail)[i] : i \in DOMAIN numbers(tail)}
    BY <1>0 DEF numbers
  <2>4. Channel!Accept  BY <2>1, <2>2, <2>3 DEF Channel!Accept, numbers
  <2>5. QED  BY <2>4 DEF Channel!Next
<1>2. CASE pc[c] = "front" /\ AdvanceFront(c)
  <2>1. /\ head < tail /\ taken' = Append(taken, head + 1)
        /\ late = 0 /\ late' = IF stopped THEN late + 1 ELSE late
        /\ UNCHANGED <<tail, stopped>> /\ stopped \in BOOLEAN
    BY <1>2 DEF AdvanceFront, QueueInv, PopInv, CloseInv
  <2>2. numbers(tail)[head + 1] = head + 1  BY <1>0, <2>1 DEF numbers
  <2>3. (late = 0)' = ~stopped  BY <2>1
  <2>4. Len(taken) < Len(numbers(tail))  BY <1>0, <2>1
  <2>5. taken' = Append(taken, numbers(tail)[Len(taken) + 1])
    BY <1>0, <2>1, <2>2
  <2>6. Channel!Deliver  BY <2>1, <2>3, <2>4, <2>5 DEF Channel!Deliver, numbers
  <2>7. QED  BY <2>6 DEF Channel!Next
<1>3. CASE Stop
  BY <1>3 DEF Stop, QueueInv, CloseInv, Channel!Next, Channel!Close
<1>4. CASE WaitPop(c) \/ Block(c) \/ Spurious(c) \/ ReadFront(c) \/ Corrupt(c)
  <2>1. stutter  BY <1>4 DEF WaitPop, Block, Spurious, ReadFront, Corrupt
  <2>2. QED  BY <2>1
<1>5. CASE Extend \/ NotifyStop \/ UNCHANGED vars
  <2>1. stutter  BY <1>5 DEF Extend, NotifyStop, vars
  <2>2. QED  BY <2>1
<1>6. QED  BY <1>1, <1>2, <1>3, <1>4, <1>5 DEF Next, Consume, Front, Pop

\* With one consumer queue_pc is an ordered channel for any number of items:
\* pop hands out each item once, in the order of push, and at most one after
\* stop(), without taking the mutex, for any size of the deque's nodes.  It is one
\* up to the step in which pop uses the begin cursor while a push moves the map
\* of the nodes, which corrupts the deque.
THEOREM QueueImplementsChannel ==
  ASSUME NEW c, Consumers = {c}
  PROVE  Spec => RefinesChannel
<1>1. Init => Channel!Init
  <2>1. SUFFICES ASSUME Init PROVE Channel!Init
    OBVIOUS
  <2>2. [i \in 1..tail |-> i] = <<>>  BY <2>1 DEF Init
  <2>3. QED  BY <2>1, <2>2 DEF Init, Channel!Init
<1>2. QueueInv /\ [Next]_vars => [Sound' => Channel!Next]_(Channel!chanVars)
  BY StepImplements DEF Channel!chanVars, numbers
<1>3. QED
  BY <1>1, <1>2, Invariance, PTL DEF Spec, RefinesChannel, Channel!Spec

-----------------------------------------------------------------------------
(* The consumer's sleep                                                    *)

\* Nobody sleeps, or is about to, while an item waits: waitPop looks at the
\* queue and begins its wait under the mutex that push holds, so no push falls
\* between the two, and the one that comes later wakes it.
NoneSleepsOver ==
  \A c \in Consumers : pc[c] \in {"park", "blocked"} => head = tail

LEMMA SleepStep ==
  ASSUME NEW c, Consumers = {c}, QueueInv, NoneSleepsOver, [Next]_vars
  PROVE  NoneSleepsOver'
<1>0. pc \in [Consumers -> States]  BY DEF QueueInv, PopInv
<1>1. CASE Push
  <2>1. pc[c] # "park" /\ NotifyOne
    BY <1>1 DEF Push, Unlocked, QueueInv, PopInv
  <2>2. pc'[c] # "blocked" /\ pc'[c] # "park"
    BY <1>0, <2>1 DEF NotifyOne, Sleepers, States
  <2>3. QED  BY <2>2 DEF NoneSleepsOver
<1>2. CASE NotifyStop
  <2>1. pc'[c] = pc[c] \/ pc'[c] = "woken"
    BY <1>0, <1>2, NotifyWakes DEF NotifyStop
  <2>2. UNCHANGED <<head, tail>>  BY <1>2 DEF NotifyStop
  <2>3. QED  BY <2>1, <2>2 DEF NoneSleepsOver
<1>3. CASE Consume(c) \/ Spurious(c)
  BY <1>0, <1>3
  DEF Consume, WaitPop, Block, Front, Pop, ReadFront, AdvanceFront, Corrupt,
      Spurious, NoneSleepsOver, States
<1>4. CASE Stop \/ Extend \/ UNCHANGED vars
  BY <1>4 DEF Stop, Extend, vars, NoneSleepsOver
<1>5. QED  BY <1>1, <1>2, <1>3, <1>4 DEF Next

\* The safety half of EveryItemTaken: no notification of push is lost on the
\* one consumer, for any number of items.
THEOREM QueueNoneSleepsOver ==
  ASSUME NEW c, Consumers = {c}
  PROVE  Spec => []NoneSleepsOver
<1>1. Init => NoneSleepsOver  BY DEF Init, NoneSleepsOver
<1>2. QueueInv /\ NoneSleepsOver /\ [Next]_vars => NoneSleepsOver'  BY SleepStep
<1>3. QED  BY Invariance, <1>1, <1>2, PTL DEF Spec

\* The variables keep their types and the cursors never cross: pop is only called
\* for an item that is there, although it takes no lock.  What pop reads from a
\* deque it has met in the middle of a push is not part of it (corrupt).
THEOREM QueueTypeCorrect ==
  ASSUME NEW c, Consumers = {c}
  PROVE  Spec => []TypeOK
<1>1. QueueInv => TypeOK
  <2> SUFFICES ASSUME QueueInv PROVE TypeOK
    OBVIOUS
  <2>1. tail \in 0..MaxItems /\ head \in 0..tail
    BY QueueAssumption DEF QueueInv, PopInv
  <2>2. \A d \in Consumers : item[d].value \in 0..MaxItems /\ item[d].at \in Nat
    BY DEF QueueInv, PopInv
  <2>3. QED  BY <2>1, <2>2 DEF QueueInv, PopInv, CloseInv, TypeOK, States
<1>2. QED  BY Invariance, <1>1, PTL

-----------------------------------------------------------------------------
(* The consumer and the stop                                               *)

\* What StopReleases starts from: the consumer will learn of the stop.  Before
\* the notification is sent that excludes a consumer about to sleep, after it
\* one that sleeps as well.
Hears(c) ==
  \/ closing = "notify" /\ pc[c] # "park"
  \/ closing = "closed" /\ pc[c] \notin {"park", "blocked"}

Hearing == {c \in Consumers : Hears(c)}

HearingStays == [][Hearing \subseteq Hearing']_vars

LEMMA HearingStep ==
  ASSUME NEW c, Consumers = {c}, QueueInv, [Next]_vars, Hears(c)
  PROVE  Hears(c)'
<1>0. pc \in [Consumers -> States] /\ stopped
  BY DEF QueueInv, PopInv, CloseInv, Hears
<1>1. CASE Push
  <2>1. pc'[c] = pc[c] \/ (pc[c] = "blocked" /\ pc'[c] = "woken")
    BY <1>0, <1>1, NotifyWakes DEF Push
  <2>2. QED  BY <1>1, <2>1 DEF Push, Hears
<1>2. CASE NotifyStop
  <2>1. closing = "notify" /\ closing' = "closed" /\ NotifyOne /\ pc[c] # "park"
    BY <1>2 DEF NotifyStop, Hears
  <2>2. pc'[c] \notin {"park", "blocked"}
    BY <1>0, <2>1 DEF NotifyOne, Sleepers
  <2>3. QED  BY <2>1, <2>2 DEF Hears
<1>3. CASE WaitPop(c)
  <2>1. pc'[c] = "refused" /\ closing' = closing  BY <1>0, <1>3 DEF WaitPop
  <2>2. QED  BY <2>1 DEF Hears
<1>4. CASE Block(c)  BY <1>4 DEF Block, Hears
<1>5. CASE Front(c) \/ Pop(c) \/ Spurious(c)
  <2>1. pc'[c] \in {"front", "idle", "woken", "corrupt"} /\ closing' = closing
    BY <1>0, <1>5 DEF Front, Pop, ReadFront, AdvanceFront, Corrupt, Spurious
  <2>2. QED  BY <2>1 DEF Hears
<1>6. CASE Stop \/ Extend \/ UNCHANGED vars  BY <1>6 DEF Stop, Extend, vars, Hears
<1>7. QED  BY <1>1, <1>2, <1>3, <1>4, <1>5, <1>6 DEF Next, Consume

\* The safety half of StopReleases: although stop() takes no lock, a consumer
\* that is not just about to sleep when the notification is sent never becomes
\* deaf to it: it cannot go to sleep again, for any number of items.
THEOREM QueueHearingStays ==
  ASSUME NEW c, Consumers = {c}
  PROVE  Spec => HearingStays
<1>1. QueueInv /\ [Next]_vars => [Hearing \subseteq Hearing']_vars
  <2>1. SUFFICES ASSUME QueueInv, [Next]_vars, NEW d \in Consumers, Hears(d) PROVE Hears(d)'
    BY DEF Hearing
  <2>2. QED  BY <2>1, HearingStep
<1>2. QED  BY Invariance, <1>1, PTL DEF Spec, HearingStays
=============================================================================
