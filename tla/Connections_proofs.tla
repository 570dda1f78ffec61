------------------------- MODULE Connections_proofs -------------------------
(***************************************************************************)
(* For every set of signals and slots, every assignment of threads and any *)
(* number of connections: both sides of a connection agree, and no list    *)
(* mentions an object that was destroyed.                                  *)
(***************************************************************************)
EXTENDS Connections, TLAPS

\* The two facts hold together: that a list is free of a destroyed object
\* rests on both sides having agreed when it was destroyed.
ConnInv == TypeOK /\ Mutual /\ NoDangling

LEMMA WithoutFacts ==
  ASSUME NEW k \in Nat, NEW n \in Nat
  PROVE  /\ Without(k, n) \in Nat /\ Without(k, n) <= k
         /\ n >= k => Without(k, n) = 0
         /\ n <= k => Without(k, n) = k - n
         /\ AtMost(k, n) \in Nat /\ AtMost(k, n) <= k
BY DEF Without, AtMost

LEMMA ConnectPreserves ==
  ASSUME ConnInv, NEW s \in Signals, NEW l \in Slots, NEW type, NEW t,
         Connect(s, l, type, t)
  PROVE  ConnInv'
<1> DEFINE p0 == <<s, l>>
<1>1. p0 \in Pairs /\ MaxConn \in Nat /\ p0[1] = s /\ p0[2] = l
  BY ConnectionsAssumption DEF Pairs
<1>2. /\ direct \in [Pairs -> 0..MaxConn] /\ queued \in [Pairs -> 0..MaxConn]
      /\ back \in [Pairs -> Nat] /\ alive \subseteq Objects
  BY DEF ConnInv, TypeOK
<1>3. alive' = alive /\ {s, l} \subseteq alive  BY DEF Connect
<1>4. PICK d \in {0, 1} :
        /\ direct' = IF d = 1 THEN [direct EXCEPT ![p0] = @ + 1] ELSE direct
        /\ queued' = IF d = 1 THEN queued ELSE [queued EXCEPT ![p0] = @ + 1]
        /\ d = 1 => direct[p0] < MaxConn
        /\ d = 0 => queued[p0] < MaxConn
  <2>1. CASE /\ direct[p0] < MaxConn /\ queued' = queued
             /\ direct' = [direct EXCEPT ![p0] = @ + 1]
    BY <2>1
  <2>2. CASE /\ queued[p0] < MaxConn /\ direct' = direct
             /\ queued' = [queued EXCEPT ![p0] = @ + 1]
    BY <2>2
  <2>3. QED  BY <2>1, <2>2 DEF Connect
<1>5. back' = [back EXCEPT ![p0] = @ + 1]  BY DEF Connect
<1> HIDE DEF p0
<1>6. TypeOK'  BY <1>1, <1>2, <1>3, <1>4, <1>5 DEF TypeOK
<1>7. ASSUME NEW p \in Pairs
      PROVE  /\ direct'[p] = direct[p] + (IF p = p0 THEN d ELSE 0)
             /\ queued'[p] = queued[p] + (IF p = p0 THEN 1 - d ELSE 0)
             /\ back'[p] = back[p] + (IF p = p0 THEN 1 ELSE 0)
             /\ direct[p] \in Nat /\ queued[p] \in Nat /\ back[p] \in Nat
             /\ back[p] = direct[p] + queued[p]
  <2>1. back[p] = direct[p] + queued[p]  BY DEF ConnInv, Mutual
  <2>2. direct[p] \in Nat /\ queued[p] \in Nat /\ back[p] \in Nat
    BY <1>1, <1>2
  <2>3. QED  BY <1>1, <1>2, <1>4, <1>5, <2>1, <2>2
<1>8. Mutual'
  <2>1. ASSUME NEW p \in Pairs PROVE back'[p] = direct'[p] + queued'[p]
    <3>1. CASE p = p0  BY <1>4, <1>7, <3>1
    <3>2. CASE p # p0  BY <1>7, <3>2
    <3>3. QED  BY <3>1, <3>2
  <2>2. QED  BY <2>1 DEF Mutual
<1>9. NoDangling'
  <2>1. ASSUME NEW p \in Pairs, direct'[p] + queued'[p] + back'[p] > 0
        PROVE  {p[1], p[2]} \subseteq alive
    <3>1. CASE p = p0  BY <1>1, <1>3, <3>1
    <3>2. CASE p # p0
      <4>1. direct[p] + queued[p] + back[p] > 0  BY <1>7, <2>1, <3>2
      <4>2. QED  BY <4>1 DEF ConnInv, NoDangling
    <3>3. QED  BY <3>1, <3>2
  <2>2. QED  BY <1>3, <2>1 DEF NoDangling
<1>10. QED  BY <1>6, <1>8, <1>9 DEF ConnInv

\* Clearing a signal's lists leaves no trace of it anywhere.
LEMMA ClearForgets ==
  ASSUME ConnInv, NEW s \in Signals, Clear(s)
  PROVE  /\ direct' \in [Pairs -> 0..MaxConn]
         /\ queued' \in [Pairs -> 0..MaxConn]
         /\ back' \in [Pairs -> Nat]
         /\ Mutual'
         /\ \A p \in Pairs : direct'[p] + queued'[p] + back'[p] > 0 =>
              p[1] # s /\ direct[p] + queued[p] + back[p] > 0
<1> USE DEF ConnInv, TypeOK
<1>0. MaxConn \in Nat  BY ConnectionsAssumption
<1>1. ASSUME NEW p \in Pairs
      PROVE  /\ direct'[p] = IF p[1] = s THEN 0 ELSE direct[p]
             /\ queued'[p] = IF p[1] = s THEN 0 ELSE queued[p]
             /\ back'[p] = IF p[1] = s THEN 0 ELSE back[p]
  <2>1. direct[p] \in Nat /\ queued[p] \in Nat /\ back[p] = direct[p] + queued[p]
    BY DEF Mutual
  <2>2. Without(back[p], direct[p] + queued[p]) = 0  BY <2>1, WithoutFacts
  <2>3. QED  BY <2>2 DEF Clear
<1>2. /\ direct' \in [Pairs -> 0..MaxConn]
      /\ queued' \in [Pairs -> 0..MaxConn]
  BY <1>0, <1>1 DEF Clear
<1>3. back' \in [Pairs -> Nat]  BY <1>1 DEF Clear
<1>4. Mutual'  BY <1>1 DEF Mutual
<1>5. \A p \in Pairs : direct'[p] + queued'[p] + back'[p] > 0 =>
        p[1] # s /\ direct[p] + queued[p] + back[p] > 0
  BY <1>1
<1>6. QED  BY <1>2, <1>3, <1>4, <1>5

LEMMA DisconnectPreserves ==
  ASSUME ConnInv, NEW s \in Signals, Disconnect(s)
  PROVE  ConnInv'
BY ClearForgets DEF Disconnect, ConnInv, TypeOK, NoDangling

LEMMA DestroySignalPreserves ==
  ASSUME ConnInv, NEW s \in Signals, DestroySignal(s)
  PROVE  ConnInv'
<1> USE DEF DestroySignal
<1>1. NoDangling'
  <2>1. ASSUME NEW p \in Pairs, direct'[p] + queued'[p] + back'[p] > 0
        PROVE  {p[1], p[2]} \subseteq alive'
    <3>1. p[1] # s /\ {p[1], p[2]} \subseteq alive
      BY <2>1, ClearForgets DEF ConnInv, NoDangling
    <3>2. p[2] # s  BY ConnectionsAssumption DEF Pairs
    <3>3. QED  BY <3>1, <3>2
  <2>2. QED  BY <2>1 DEF NoDangling
<1>2. QED  BY <1>1, ClearForgets DEF ConnInv, TypeOK

LEMMA DisconnectSlotPreserves ==
  ASSUME ConnInv, NEW s \in Signals, NEW l \in Slots, DisconnectSlot(s, l)
  PROVE  ConnInv'
<1> DEFINE p0 == <<s, l>>
           d == AtMost(direct[p0], 1)
           q == AtMost(queued[p0], 1)
<1>1. p0 \in Pairs /\ MaxConn \in Nat
  BY ConnectionsAssumption DEF Pairs
<1>2. /\ direct[p0] \in 0..MaxConn /\ queued[p0] \in 0..MaxConn
      /\ back[p0] = direct[p0] + queued[p0]
  BY <1>1 DEF ConnInv, TypeOK, Mutual
<1>3. /\ d \in Nat /\ q \in Nat /\ d <= direct[p0] /\ q <= queued[p0]
      /\ d + q \in Nat /\ back[p0] \in Nat /\ d + q <= back[p0]
  <2>1. direct[p0] \in Nat /\ queued[p0] \in Nat  BY <1>1, <1>2
  <2>2. d \in Nat /\ d <= direct[p0]  BY <2>1, WithoutFacts
  <2>3. q \in Nat /\ q <= queued[p0]  BY <2>1, WithoutFacts
  <2> HIDE DEF d, q
  <2>4. QED  BY <1>2, <2>1, <2>2, <2>3
<1>4. Without(back[p0], d + q) = back[p0] - (d + q)
  <2> HIDE DEF d, q
  <2>1. QED  BY <1>3, WithoutFacts
<1>5. /\ direct' = [direct EXCEPT ![p0] = @ - d]
      /\ queued' = [queued EXCEPT ![p0] = @ - q]
      /\ back' = [back EXCEPT ![p0] = @ - (d + q)]
      /\ alive' = alive /\ {s, l} \subseteq alive
  BY <1>4 DEF DisconnectSlot
<1> HIDE DEF d, q
<1>6. TypeOK'
  BY <1>1, <1>2, <1>3, <1>5 DEF ConnInv, TypeOK
<1> HIDE DEF p0
<1>10. ASSUME NEW p \in Pairs
       PROVE  /\ p # p0 => /\ direct'[p] = direct[p] /\ queued'[p] = queued[p]
                           /\ back'[p] = back[p]
              /\ p = p0 => /\ direct'[p] = direct[p] - d
                           /\ queued'[p] = queued[p] - q
                           /\ back'[p] = back[p] - (d + q)
              /\ back[p] = direct[p] + queued[p]
  BY <1>1, <1>5 DEF ConnInv, TypeOK, Mutual
<1>7. Mutual'
  <2>1. ASSUME NEW p \in Pairs PROVE back'[p] = direct'[p] + queued'[p]
    <3>1. CASE p = p0  BY <1>1, <1>2, <1>3, <1>10, <3>1
    <3>2. CASE p # p0  BY <1>10, <3>2
    <3>3. QED  BY <3>1, <3>2
  <2>2. QED  BY <2>1 DEF Mutual
<1>8. NoDangling'
  <2>1. ASSUME NEW p \in Pairs, direct'[p] + queued'[p] + back'[p] > 0
        PROVE  {p[1], p[2]} \subseteq alive
    <3>1. CASE p = p0  BY <1>5, <3>1 DEF p0
    <3>2. CASE p # p0  BY <1>10, <2>1, <3>2 DEF ConnInv, NoDangling
    <3>3. QED  BY <3>1, <3>2
  <2>2. QED  BY <1>5, <2>1 DEF NoDangling
<1>9. QED  BY <1>6, <1>7, <1>8 DEF ConnInv

LEMMA DestroySlotPreserves ==
  ASSUME ConnInv, NEW l \in Slots, DestroySlot(l)
  PROVE  ConnInv'
<1> USE DEF ConnInv, TypeOK
<1>0. MaxConn \in Nat  BY ConnectionsAssumption
<1>1. ASSUME NEW p \in Pairs
      PROVE  /\ direct'[p] = IF p[2] = l THEN 0 ELSE direct[p]
             /\ queued'[p] = IF p[2] = l THEN 0 ELSE queued[p]
             /\ back'[p] = IF p[2] = l THEN 0 ELSE back[p]
  <2>1. /\ direct[p] \in Nat /\ queued[p] \in Nat /\ back[p] \in Nat
        /\ direct[p] <= back[p] /\ queued[p] <= back[p]
    BY DEF Mutual
  <2>2. Without(direct[p], back[p]) = 0 /\ Without(queued[p], back[p]) = 0
    BY <2>1, WithoutFacts
  <2>3. QED  BY <2>2 DEF DestroySlot
<1>2. /\ direct' \in [Pairs -> 0..MaxConn]
      /\ queued' \in [Pairs -> 0..MaxConn]
      /\ back' \in [Pairs -> Nat]
  BY <1>0, <1>1 DEF DestroySlot
<1>3. Mutual'  BY <1>1 DEF Mutual
<1>4. NoDangling'
  <2>1. ASSUME NEW p \in Pairs, direct'[p] + queued'[p] + back'[p] > 0
        PROVE  {p[1], p[2]} \subseteq alive'
    <3>1. p[2] # l /\ {p[1], p[2]} \subseteq alive
      BY <1>1, <2>1 DEF NoDangling
    <3>2. p[1] # l  BY ConnectionsAssumption DEF Pairs
    <3>3. QED  BY <3>1, <3>2 DEF DestroySlot
  <2>2. QED  BY <2>1 DEF NoDangling
<1>5. alive' \subseteq Objects  BY DEF DestroySlot
<1>6. QED  BY <1>2, <1>3, <1>4, <1>5

LEMMA ConnInvariance == Spec => []ConnInv
<1>1. Init => ConnInv
  BY ConnectionsAssumption
  DEF Init, ConnInv, TypeOK, Mutual, NoDangling, Objects
<1>2. ConnInv /\ [Next]_connVars => ConnInv'
  <2> SUFFICES ASSUME ConnInv, [Next]_connVars PROVE ConnInv'
    OBVIOUS
  <2>1. CASE UNCHANGED connVars
    BY <2>1 DEF connVars, ConnInv, TypeOK, Mutual, NoDangling
  <2>2. QED
    BY <2>1, ConnectPreserves, DisconnectSlotPreserves, DisconnectPreserves,
       DestroySignalPreserves, DestroySlotPreserves DEF Next
<1>3. QED  BY <1>1, <1>2, PTL DEF Spec

\* The lists hold counts within their bounds.
THEOREM ConnectionsTyped == Spec => []TypeOK
<1>1. ConnInv => TypeOK  BY DEF ConnInv
<1>2. QED  BY <1>1, ConnInvariance, PTL

\* A signal and a slot always agree on how often they are connected.
THEOREM ConnectionsMutual == Spec => []Mutual
<1>1. ConnInv => Mutual  BY DEF ConnInv
<1>2. QED  BY <1>1, ConnInvariance, PTL

\* No signal or slot keeps a pointer to one that was destroyed.
THEOREM ConnectionsSafe == Spec => []NoDangling
<1>1. ConnInv => NoDangling  BY DEF ConnInv
<1>2. QED  BY <1>1, ConnInvariance, PTL
=============================================================================
