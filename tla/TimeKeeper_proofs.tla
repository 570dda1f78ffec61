-------------------------- MODULE TimeKeeper_proofs --------------------------
(***************************************************************************)
(* For any number of ids, records and any clock: the book holds exactly    *)
(* the records that live, although ids wrap and one record may be copied   *)
(* over another, and until an id comes back each record has one fate.      *)
(***************************************************************************)
EXTENDS TimeKeeper, SequenceTheorems, WellFoundedInduction, TLAPS

-----------------------------------------------------------------------------
(* The inductive invariant                                                 *)

Times == 0..MaxTime
Record == [id : Ids, end : Times, of : Nat]
Fates == {"live", "cancelled", "fired", "again", "lost"}
Entry == [id : Ids, end : Times, fate : Fates]

Typed ==
  /\ book \in [Keys -> Record]
  /\ rec \in Record
  /\ log \in Seq(Entry)
  /\ reused \in BOOLEAN

\* A record that lives is the latest that was given its id.
LiveInv ==
  /\ IdsUnique
  /\ \A n \in Live : \A k \in n + 1..Len(log) : log[k].id # log[n].id

\* What stands in the book, under whichever key, or was copied from it, is a
\* record as it was handed out.
Genuine(r) == r.of \in DOMAIN log /\ log[r.of].id = r.id /\ log[r.of].end = r.end

Copied == {"evalTimed", "parkTimed", "blockedTimed", "wokenTimed", "lapsed", "after", "stuck"}

CopyInv ==
  /\ \A k \in Keys : Genuine(book[k])
  /\ pc \in Copied => Genuine(rec)

\* Until an id comes back, an id means one record.
OnceInv == ~reused => \A m, n \in DOMAIN log : log[m].id = log[n].id => m = n

Inv == TypeOK /\ Typed /\ LiveInv /\ CopyInv /\ OnceInv /\ NoneMistaken

LEMMA Constants == IdMod \in Nat /\ IdMod > 1 /\ MaxTime \in Nat /\ 0 \in Ids /\ Ids \subseteq Nat
BY TimeKeeperAssumption DEF Ids

LEMMA InitInv == Init => Inv
<1> SUFFICES ASSUME Init PROVE Inv
  OBVIOUS
<1> USE Constants DEF Init
<1>1. Keys = {} /\ DOMAIN log = {}  BY DEF Keys
<1>2. TypeOK  BY <1>1 DEF TypeOK
<1>3. Typed
  <2>1. book \in [Keys -> Record]  BY <1>1
  <2>2. rec \in Record  BY DEF Record, Times
  <2>3. log \in Seq(Entry)  OBVIOUS
  <2>4. reused \in BOOLEAN  OBVIOUS
  <2>5. QED  BY <2>1, <2>2, <2>3, <2>4 DEF Typed
<1>4. LiveInv  BY <1>1 DEF LiveInv, IdsUnique, Live
<1>5. CopyInv  BY <1>1 DEF CopyInv, Copied
<1>6. OnceInv /\ NoneMistaken  BY <1>1 DEF OnceInv, NoneMistaken
<1>7. QED  BY <1>2, <1>3, <1>4, <1>5, <1>6 DEF Inv

-----------------------------------------------------------------------------
(* The latest record of an id, and the next id                             *)

\* A set of natural numbers that is not empty has a least element.
LEMMA LeastExists ==
  ASSUME NEW S, S \subseteq Nat, S # {}
  PROVE  \E b \in S : \A k \in S : b <= k
<1> DEFINE R == OpToRel(<, Nat)
<1>1. IsWellFoundedOn(R, Nat)  BY NatLessThanWellFounded
<1> HIDE DEF R
<1>2. PICK b \in S : \A y \in S : ~(<<y, b>> \in R)  BY <1>1, WFMin
<1>3. ASSUME NEW k \in S PROVE b <= k
  <2>1. <<k, b>> \notin OpToRel(<, Nat)  BY <1>2, <1>3 DEF R
  <2>2. ~(k < b)  BY <2>1 DEF OpToRel
  <2>3. QED  BY <2>2
<1>4. QED  BY <1>3

\* Of the records that were given an id one is the latest.
LEMMA LatestExists ==
  ASSUME Typed, NEW id, NEW m \in DOMAIN log, log[m].id = id
  PROVE  /\ Latest(id) \in DOMAIN log /\ log[Latest(id)].id = id
         /\ \A k \in Latest(id) + 1..Len(log) : log[k].id # id
<1> DEFINE Given == {n \in DOMAIN log : log[n].id = id}
           Behind == {Len(log) - n : n \in Given}
<1>0. DOMAIN log = 1..Len(log) /\ Len(log) \in Nat  BY DEF Typed
<1>1. Behind \subseteq Nat /\ Behind # {}  BY <1>0
<1>2. PICK n \in Given : \A k \in Given : Len(log) - n <= Len(log) - k
  <2>1. \E b \in Behind : \A k \in Behind : b <= k
    <3> HIDE DEF Behind
    <3>1. QED  BY <1>1, LeastExists
  <2>2. QED  BY <2>1
<1>3. ASSUME NEW k \in n + 1..Len(log), log[k].id = id PROVE FALSE
  <2>1. k \in Given /\ k > n /\ n \in Nat /\ k \in Nat  BY <1>0, <1>2, <1>3
  <2>2. Len(log) - n <= Len(log) - k  BY <1>2, <2>1
  <2>3. QED  BY <1>0, <2>1, <2>2
<1>4. QED  BY <1>2, <1>3 DEF Latest, Superseded

\* Of an id in the book it is the one that lives.
LEMMA LatestLives ==
  ASSUME Typed, LiveInv, NEW id \in Keys
  PROVE  /\ Latest(id) \in Live /\ log[Latest(id)].id = id
         /\ \A n \in Live : log[n].id = id => n = Latest(id)
<1>0. DOMAIN log = 1..Len(log) /\ Len(log) \in Nat  BY DEF Typed
<1>1. PICK n \in Live : log[n].id = id  BY DEF LiveInv, IdsUnique
<1>2. n \in DOMAIN log  BY DEF Live
<1>3. /\ Latest(id) \in DOMAIN log /\ log[Latest(id)].id = id
      /\ \A k \in Latest(id) + 1..Len(log) : log[k].id # id
  BY <1>1, <1>2, LatestExists
<1>4. \A k \in n + 1..Len(log) : log[k].id # id  BY <1>1 DEF LiveInv
<1>5. Latest(id) = n  BY <1>0, <1>1, <1>2, <1>3, <1>4
<1>6. QED  BY <1>1, <1>5 DEF LiveInv, IdsUnique

\* The search for an id ends at a free one when there is one.
LEMMA NewIdIsFree ==
  ASSUME lastId \in Ids, NEW i \in Ids, i \notin Keys
  PROVE  NewId \in Ids /\ NewId \notin Keys
<1> DEFINE id(k) == (lastId + k) % IdMod
           Free(k) == id(k) \notin Keys
           Ks == {k \in 0..IdMod - 1 : Free(k)}
           IsFirst(k) == Free(k) /\ \A j \in 0..k - 1 : ~Free(j)
<1>1. \E k \in 0..IdMod - 1 : id(k) = i
  <2>1. lastId \in 0..IdMod - 1 /\ i \in 0..IdMod - 1 /\ IdMod \in Nat /\ IdMod > 1
    BY Constants DEF Ids
  <2>2. CASE i >= lastId
    <3>1. lastId + (i - lastId) = i /\ i - lastId \in 0..IdMod - 1  BY <2>1, <2>2
    <3>2. i % IdMod = i  BY <2>1
    <3>3. QED  BY <3>1, <3>2
  <2>3. CASE i < lastId
    <3>1. lastId + (i - lastId + IdMod) = i + IdMod /\ i - lastId + IdMod \in 0..IdMod - 1
      BY <2>1, <2>3
    <3>2. (i + IdMod) % IdMod = i  BY <2>1
    <3>3. QED  BY <3>1, <3>2
  <2>4. QED  BY <2>1, <2>2, <2>3
<1>2. Ks \subseteq Nat /\ Ks # {}
  <2>1. Ks \subseteq 0..IdMod - 1 /\ 0..IdMod - 1 \subseteq Nat  BY Constants
  <2>2. PICK k \in 0..IdMod - 1 : id(k) = i  BY <1>1
  <2>3. Free(k)  BY <2>2
  <2> HIDE DEF Free
  <2>4. QED  BY <2>1, <2>2, <2>3
<1>3. \E b \in Ks : \A k \in Ks : b <= k
  <2> HIDE DEF Ks
  <2>1. QED  BY <1>2, LeastExists
<1>4. \E b \in 0..IdMod - 1 : IsFirst(b)
  <2>1. PICK b \in Ks : \A k \in Ks : b <= k  BY <1>3
  <2>2. b \in 0..IdMod - 1 /\ Free(b)  BY <2>1
  <2>3. ASSUME NEW j \in 0..b - 1, Free(j) PROVE FALSE
    <3>1. j \in 0..IdMod - 1 /\ j < b  BY <2>2, <2>3, Constants
    <3>2. j \in Ks  BY <2>3, <3>1
    <3>3. b <= j  BY <2>1, <3>2
    <3>4. QED  BY <2>2, <3>1, <3>3, Constants
  <2>4. QED  BY <2>2, <2>3
<1>5. IsFirst(CHOOSE k \in 0..IdMod - 1 : IsFirst(k))
      /\ (CHOOSE k \in 0..IdMod - 1 : IsFirst(k)) \in 0..IdMod - 1
  <2> HIDE DEF IsFirst
  <2>1. QED  BY <1>4
<1>6. NewId = id(CHOOSE k \in 0..IdMod - 1 : IsFirst(k))  BY DEF NewId
<1>7. NewId \notin Keys  BY <1>5, <1>6
<1>8. \A k \in 0..IdMod - 1 : id(k) \in Ids  BY Constants DEF Ids
<1>9. QED
  <2> HIDE DEF id, IsFirst
  <2>1. QED  BY <1>5, <1>6, <1>7, <1>8

-----------------------------------------------------------------------------
(* The steps                                                               *)

Holding == {"evalEmpty", "evalTimed", "parkEmpty", "parkTimed", "after", "stuck"}

\* Steps that leave the book, the records and the copy alone.
Aside ==
  \/ Tick \/ Top \/ EvalEmpty \/ EvalTimed \/ Park \/ Lapse \/ Relock \/ CallBack \/ Spurious
  \/ Stop \/ NotifyStop \/ Join
  \/ \E d \in Durations : AddRecordFor(d)

LEMMA AsideKeeps == Inv /\ Aside => Inv'
<1> SUFFICES ASSUME Inv, Aside PROVE Inv'
  OBVIOUS
<1>1. UNCHANGED <<book, lastId, log, reused, rec>>
  BY DEF Aside, Tick, Top, EvalEmpty, EvalTimed, Park, Lapse, Relock, CallBack, Spurious, Stop,
         NotifyStop, Join, AddRecordFor, clientVars
<1>2. Keys' = Keys /\ Live' = Live  BY <1>1 DEF Keys, Live
<1>3. Typed' /\ LiveInv' /\ OnceInv' /\ NoneMistaken'
  BY <1>1, <1>2 DEF Inv, Typed, LiveInv, IdsUnique, OnceInv, NoneMistaken
<1>4. now' \in 0..MaxTime
  <2>1. CASE Tick  BY <2>1, Constants DEF Tick, Inv, TypeOK
  <2>2. CASE ~Tick
    BY <2>2
    DEF Aside, Top, EvalEmpty, EvalTimed, Park, Lapse, Relock, CallBack, Spurious, Stop,
        NotifyStop, Join, AddRecordFor, Inv, TypeOK
  <2>3. QED  BY <2>1, <2>2
<1>5. /\ mutex' \in {"free", "run", "stuck"}
      /\ (mutex' = "run") <=> (pc' \in Holding)
      /\ pc' \in Copied => pc \in Copied
  <2>1. mutex \in {"free", "run", "stuck"} /\ ((mutex = "run") <=> (pc \in Holding))
    BY DEF Inv, TypeOK, Holding
  <2>2. CASE EvalEmpty \/ EvalTimed \/ Park \/ CallBack
    BY <2>1, <2>2 DEF EvalEmpty, EvalTimed, Park, CallBack, Holding, Copied
  <2>3. CASE Top \/ Lapse \/ Relock
    BY <2>1, <2>3 DEF Top, Lapse, Relock, Holding, Copied
  <2>4. CASE Spurious \/ NotifyStop
    BY <2>1, <2>4 DEF Spurious, NotifyStop, Woken, Holding, Copied
  <2>5. CASE Tick \/ Stop \/ Join \/ (\E d \in Durations : AddRecordFor(d))
    BY <2>1, <2>5 DEF Tick, Stop, Join, AddRecordFor, MayCall
  <2>6. QED  BY <2>2, <2>3, <2>4, <2>5 DEF Aside
<1>6. TypeOK'  BY <1>1, <1>2, <1>4, <1>5 DEF Inv, TypeOK, Holding
<1>7. CopyInv'  BY <1>1, <1>2, <1>5 DEF Inv, CopyInv, Genuine
<1>8. QED  BY <1>3, <1>6, <1>7 DEF Inv

\* The closest record is copied, perhaps over another one.
LEMMA LookKeeps == Inv /\ Look => Inv'
<1> SUFFICES ASSUME Inv, Look PROVE Inv'
  OBVIOUS
<1>1. /\ UNCHANGED <<now, lastId, log, reused>> /\ mutex' = "run"
      /\ pc' \in {"evalEmpty", "evalTimed"}
  BY DEF Look
<1>2. /\ Keys' = Keys /\ rec' \in Record /\ \A k \in Keys : book'[k] \in Record
      /\ pc' = "evalTimed" => \E k \in Keys : rec' = book[k]
      /\ \A k \in Keys : \E j \in Keys : book'[k] = book[j]
      /\ book' \in [Keys' -> Record]
  <2>1. CASE pc' = "evalEmpty"
    <3>1. UNCHANGED <<book, rec>> /\ Keys = {}  BY <2>1 DEF Look
    <3>2. QED  BY <2>1, <3>1 DEF Inv, Typed, Keys
  <2>2. CASE pc' = "evalTimed"
    <3>1. PICK b \in Keys, c \in Keys :
            rec' = Closest(b, c) /\ book' = [book EXCEPT ![b] = Closest(b, c)]
      BY <2>2 DEF Look
    <3>2. Closest(b, c) = book[b] \/ Closest(b, c) = book[c]  BY DEF Closest
    <3>3. book \in [Keys -> Record]  BY DEF Inv, Typed
    <3>4. Keys' = Keys  BY <3>1 DEF Keys
    <3>5. \A k \in Keys : book'[k] = IF k = b THEN Closest(b, c) ELSE book[k]
      BY <3>1, <3>3
    <3>6. QED  BY <2>2, <3>1, <3>2, <3>3, <3>4, <3>5
  <2>3. QED  BY <1>1, <2>1, <2>2
<1>3. Typed' /\ LiveInv' /\ OnceInv' /\ NoneMistaken'
  BY <1>1, <1>2 DEF Inv, Typed, LiveInv, IdsUnique, Live, OnceInv, NoneMistaken
<1>4. TypeOK'
  <2>1. \A k \in Keys' : book'[k].id \in Ids /\ book'[k].end \in 0..MaxTime
    BY <1>2 DEF Record, Times
  <2>2. rec'.id \in Ids  BY <1>2 DEF Record
  <2>3. QED  BY <1>1, <1>2, <2>1, <2>2 DEF Inv, TypeOK
<1>5. CopyInv'
  <2>1. \A k \in Keys : Genuine(book[k])  BY DEF Inv, CopyInv
  <2>2. \A k \in Keys' : Genuine(book[k])'  BY <1>1, <1>2, <2>1 DEF Genuine
  <2>3. pc' \in Copied => Genuine(rec)'  BY <1>1, <1>2, <2>1 DEF Genuine, Copied
  <2>4. QED  BY <2>2, <2>3 DEF CopyInv
<1>6. QED  BY <1>3, <1>4, <1>5 DEF Inv

\* AddRecord hands out an id that is free.
LEMMA AddRecordKeeps == Inv /\ (\E end \in 0..MaxTime - 1 : AddRecord(end)) => Inv'
<1> SUFFICES ASSUME Inv, NEW end \in 0..MaxTime - 1, AddRecord(end) PROVE Inv'
  OBVIOUS
<1> DEFINE id == NewId
           r == [id |-> id, end |-> end, of |-> Len(log) + 1]
           entry == [id |-> id, end |-> end, fate |-> "live"]
<1>0. /\ DOMAIN log = 1..Len(log) /\ Len(log) \in Nat /\ log \in Seq(Entry)
      /\ end \in Times /\ Keys \subseteq Ids
  BY Constants DEF Inv, Typed, TypeOK, Times
<1>1. id \in Ids /\ id \notin Keys
  BY NewIdIsFree DEF AddRecord, Inv, TypeOK
<1>2. /\ book' = [i \in Keys \cup {id} |-> IF i = id THEN r ELSE book[i]]
      /\ log' = Append(log, entry)
      /\ reused' = (reused \/ \E n \in DOMAIN log : log[n].id = id)
      /\ lastId' = (lastId + 1) % IdMod
      /\ pc' = Woken(pc) /\ UNCHANGED <<now, mutex, rec>>
  BY DEF AddRecord
<1> HIDE DEF id
<1>3. r \in Record /\ entry \in Entry  BY <1>0, <1>1 DEF Record, Entry, Fates
<1>4. Keys' = Keys \cup {id} /\ book' \in [Keys' -> Record]
  BY <1>2, <1>3 DEF Keys, Inv, Typed
<1> HIDE DEF r
<1>5. /\ log' \in Seq(Entry) /\ Len(log') = Len(log) + 1
      /\ DOMAIN log' = 1..Len(log) + 1
      /\ log'[Len(log) + 1] = entry
      /\ \A n \in DOMAIN log : log'[n] = log[n]
  BY <1>0, <1>2, <1>3
<1>6. Live' = Live \cup {Len(log) + 1}
  <2>1. \A n \in DOMAIN log : n \in Live' <=> n \in Live  BY <1>0, <1>5 DEF Live
  <2>2. Len(log) + 1 \in Live'  BY <1>0, <1>5 DEF Live
  <2>3. Live' \subseteq 1..Len(log) + 1 /\ Live \subseteq DOMAIN log  BY <1>5 DEF Live
  <2>4. Live' \subseteq Live \cup {Len(log) + 1}  BY <1>0, <2>1, <2>3
  <2>5. Live \subseteq Live'  BY <2>1, <2>3
  <2>6. QED  BY <2>2, <2>4, <2>5
<1>7. \A n \in Live : n \in DOMAIN log /\ log[n].id \in Keys /\ log[n].id # id
  BY <1>1 DEF Inv, LiveInv, IdsUnique, Live
<1>8. LiveInv'
  <2>1. Keys' = {log'[n].id : n \in Live'}
    BY <1>4, <1>5, <1>6, <1>7 DEF Inv, LiveInv, IdsUnique
  <2>2. \A m, n \in Live' : log'[m].id = log'[n].id => m = n
    BY <1>5, <1>6, <1>7 DEF Inv, LiveInv, IdsUnique
  <2>3. ASSUME NEW n \in Live', NEW k \in n + 1..Len(log') PROVE log'[k].id # log'[n].id
    <3>1. n \in Live /\ n \in DOMAIN log /\ log'[n].id = log[n].id /\ log[n].id # id
      BY <1>0, <1>5, <1>6, <1>7, <2>3
    <3>2. CASE k = Len(log) + 1  BY <1>5, <3>1, <3>2
    <3>3. CASE k # Len(log) + 1
      <4>1. k \in DOMAIN log /\ k \in n + 1..Len(log)  BY <1>0, <1>5, <2>3, <3>1, <3>3
      <4>2. QED  BY <1>5, <3>1, <4>1 DEF Inv, LiveInv
    <3>4. QED  BY <3>2, <3>3
  <2>4. QED  BY <2>1, <2>2, <2>3 DEF LiveInv, IdsUnique
<1>9. Typed'
  <2>1. reused' \in BOOLEAN  BY <1>2
  <2>2. QED  BY <1>2, <1>4, <1>5, <2>1 DEF Inv, Typed
<1>10. (pc' \in Copied => pc \in Copied) /\ (pc' \in Holding <=> pc \in Holding)
  BY <1>2 DEF Woken, Copied, Holding
<1>11. TypeOK'
  <2>1. lastId' \in Ids  BY <1>2, Constants DEF Inv, TypeOK, Ids
  <2>2. \A n \in DOMAIN log' : log'[n] \in Entry  BY <1>0, <1>3, <1>5, LenProperties
  <2>3. \A k \in Keys' : book'[k].id \in Ids /\ book'[k].end \in 0..MaxTime
    BY <1>4 DEF Record, Times
  <2>4. \A n \in DOMAIN log' : log'[n].fate \in Fates  BY <2>2 DEF Entry
  <2>5. Keys' \subseteq Ids  BY <1>0, <1>1, <1>4
  <2>6. QED  BY <1>2, <1>10, <2>1, <2>3, <2>4, <2>5 DEF Inv, TypeOK, Holding, Fates
<1>12. OnceInv'
  <2>1. CASE reused'  BY <2>1 DEF OnceInv
  <2>2. CASE ~reused'
    <3>1. ~reused /\ \A n \in DOMAIN log : log[n].id # id  BY <1>2, <2>2
    <3>2. QED  BY <1>0, <1>5, <3>1 DEF Inv, OnceInv
  <2>3. QED  BY <2>1, <2>2
<1>13. NoneMistaken'
  <2>1. reused => reused'  BY <1>2
  <2>2. \A n \in DOMAIN log' : n = Len(log) + 1 \/ n \in DOMAIN log  BY <1>0, <1>5
  <2>3. QED  BY <1>5, <2>1, <2>2 DEF Inv, NoneMistaken
<1>14. CopyInv'
  <2>1. \A n \in DOMAIN log : n \in DOMAIN log' /\ log'[n] = log[n]  BY <1>0, <1>5
  <2>2. ASSUME NEW k \in Keys' PROVE Genuine(book[k])'
    <3>1. CASE k = id
      <4>1. book'[k] = r  BY <1>2, <1>4, <3>1
      <4>2. r.of = Len(log) + 1 /\ r.id = id /\ r.end = end  BY DEF r
      <4>3. Len(log) + 1 \in DOMAIN log'  BY <1>0, <1>5
      <4>4. QED  BY <1>5, <4>1, <4>2, <4>3 DEF Genuine
    <3>2. CASE k # id
      <4>1. k \in Keys /\ book'[k] = book[k]  BY <1>2, <1>4, <2>2, <3>2
      <4>2. QED  BY <2>1, <4>1 DEF Inv, CopyInv, Genuine
    <3>3. QED  BY <3>1, <3>2
  <2>3. pc' \in Copied => Genuine(rec)'
    BY <1>2, <1>10, <2>1 DEF Inv, CopyInv, Genuine
  <2>4. QED  BY <2>2, <2>3 DEF CopyInv
<1>15. QED  BY <1>8, <1>9, <1>11, <1>12, <1>13, <1>14 DEF Inv

\* A record leaves the book: of the records that live only the one with its id
\* changes, and of all of them only what became of them.
Leaves(id, fate) ==
  /\ id \in Keys
  /\ book' = Without(id)
  /\ log' = WithFates(fate)
  /\ lastId' = lastId /\ reused' = reused /\ rec' = rec
  /\ \A n \in DOMAIN log : fate[n] \in Fates
  /\ fate[Latest(id)] # "live"
  /\ \A n \in DOMAIN log :
       n # Latest(id) => fate[n] = log[n].fate \/ (n \notin Live /\ fate[n] # "live")

LEMMA EndKeeps ==
  ASSUME Inv, NEW id, NEW fate, Leaves(id, fate)
  PROVE  /\ Typed' /\ LiveInv' /\ Keys' = Keys \ {id} /\ (\A k \in Keys' : book'[k] = book[k])
         /\ DOMAIN log' = DOMAIN log
         /\ \A n \in DOMAIN log : /\ log'[n].id = log[n].id /\ log'[n].end = log[n].end
                                  /\ log'[n].fate = fate[n]
         /\ Latest(id) \in Live /\ log[Latest(id)].id = id
<1> DEFINE l == Latest(id)
<1>0. id \in Keys /\ book' = Without(id) /\ reused' = reused /\ rec' = rec
  BY DEF Leaves
<1>1. l \in Live /\ log[l].id = id /\ \A n \in Live : log[n].id = id => n = l
  BY <1>0, LatestLives DEF Inv
<1>2. /\ log \in Seq(Entry)
      /\ DOMAIN log = 1..Len(log) /\ Len(log) \in Nat
      /\ Live \subseteq DOMAIN log
  BY DEF Inv, Typed, Live
<1>3. /\ log' = [n \in DOMAIN log |-> [log[n] EXCEPT !.fate = fate[n]]]
      /\ \A n \in DOMAIN log : fate[n] \in Fates
      /\ fate[l] # "live"
      /\ \A n \in DOMAIN log :
           n # l => fate[n] = log[n].fate \/ (n \notin Live /\ fate[n] # "live")
  BY DEF Leaves, WithFates
<1> HIDE DEF l
<1>4. ASSUME NEW n \in DOMAIN log
      PROVE  /\ log'[n] \in Entry /\ log'[n].id = log[n].id /\ log'[n].end = log[n].end
             /\ log'[n].fate = fate[n]
  <2>1. log[n] \in Entry /\ fate[n] \in Fates  BY <1>2, <1>3, LenProperties
  <2>2. log'[n] = [log[n] EXCEPT !.fate = fate[n]]  BY <1>3
  <2>3. QED  BY <2>1, <2>2 DEF Entry
<1>5. log' \in Seq(Entry) /\ DOMAIN log' = DOMAIN log /\ Len(log') = Len(log)
  <2>1. DOMAIN log' = 1..Len(log) /\ log' = [n \in 1..Len(log) |-> log'[n]]
    BY <1>2, <1>3
  <2>2. \A n \in 1..Len(log) : log'[n] \in Entry  BY <1>2, <1>4
  <2>3. log' \in [1..Len(log) -> Entry]  BY <2>1, <2>2
  <2>4. log' \in Seq(Entry)  BY <1>2, <2>3
  <2>5. QED  BY <1>2, <2>1, <2>4
<1>6. \A n \in DOMAIN log : log'[n].id = log[n].id  BY <1>4
<1>8. /\ Keys' = Keys \ {id} /\ book' \in [Keys' -> Record]
      /\ \A k \in Keys' : book'[k] = book[k]
  BY <1>0 DEF Keys, Without, Inv, Typed
<1>9. Live' = {n \in Live : log[n].id # id}
  <2>1. ASSUME NEW n \in DOMAIN log PROVE n \in Live' <=> n \in Live /\ log[n].id # id
    BY <1>1, <1>3, <1>4, <1>5 DEF Live
  <2>2. QED  BY <1>2, <1>5, <2>1 DEF Live
<1>10. Live' \subseteq Live  BY <1>9
<1>11. IdsUnique'
  <2>1. Keys' = {log'[n].id : n \in Live'}
    BY <1>2, <1>6, <1>8, <1>9, <1>10 DEF Inv, LiveInv, IdsUnique
  <2>2. \A a, b \in Live' : log'[a].id = log'[b].id => a = b
    BY <1>2, <1>6, <1>10 DEF Inv, LiveInv, IdsUnique
  <2>3. QED  BY <2>1, <2>2 DEF IdsUnique
<1>12. ASSUME NEW n \in Live', NEW k \in n + 1..Len(log') PROVE log'[k].id # log'[n].id
  <2>1. n \in Live /\ n \in DOMAIN log /\ k \in n + 1..Len(log) /\ k \in DOMAIN log
    BY <1>2, <1>5, <1>10, <1>12
  <2>2. QED  BY <1>4, <2>1 DEF Inv, LiveInv
<1>13. LiveInv'  BY <1>11, <1>12 DEF LiveInv
<1>14. Typed'  BY <1>0, <1>5, <1>8 DEF Inv, Typed
<1>16. Latest(id) \in Live /\ log[Latest(id)].id = id  BY <1>1 DEF l
<1>17. QED  BY <1>4, <1>5, <1>8, <1>13, <1>14, <1>16

\* What a record's end leaves of the rest of the invariant.
LEMMA EndRest ==
  ASSUME Inv, NEW id, NEW fate, Leaves(id, fate), now' = now,
         mutex' = "free", pc' \notin Holding, pc' \in Copied => pc \in Copied,
         ~reused => \A n \in DOMAIN log : fate[n] \notin {"again", "lost"}
  PROVE  Inv'
<1>1. /\ Typed' /\ LiveInv' /\ Keys' = Keys \ {id} /\ (\A k \in Keys' : book'[k] = book[k])
      /\ DOMAIN log' = DOMAIN log
      /\ \A n \in DOMAIN log : /\ log'[n].id = log[n].id /\ log'[n].end = log[n].end
                               /\ log'[n].fate = fate[n]
  BY EndKeeps
<1>2. lastId' = lastId /\ reused' = reused /\ rec' = rec /\ \A n \in DOMAIN log : fate[n] \in Fates
  BY DEF Leaves
<1>3. TypeOK'  BY <1>1, <1>2 DEF Inv, TypeOK, Holding, Fates
<1>4. OnceInv'  BY <1>1, <1>2 DEF Inv, OnceInv
<1>5. CopyInv'  BY <1>1, <1>2 DEF Inv, CopyInv, Genuine
<1>6. NoneMistaken'  BY <1>1, <1>2 DEF Inv, NoneMistaken
<1>7. QED  BY <1>1, <1>3, <1>4, <1>5, <1>6 DEF Inv

\* The two ways of leaving it.
LEMMA CancelLeaves ==
  ASSUME Inv, NEW id \in Ids, CancelRecord(id)
  PROVE  \E fate : /\ Leaves(id, fate)
                   /\ fate = [n \in DOMAIN log |->
                                IF n = Latest(id) THEN "cancelled" ELSE log[n].fate]
<1>1. /\ id \in Keys /\ book' = Without(id)
      /\ log' = WithFates([n \in DOMAIN log |->
                             IF n = Latest(id) THEN "cancelled" ELSE log[n].fate])
      /\ UNCHANGED <<lastId, reused, rec>>
  BY DEF CancelRecord
<1>2. Latest(id) \in DOMAIN log  BY <1>1, LatestLives DEF Inv, Live
<1>3. \A n \in DOMAIN log : log[n].fate \in Fates  BY DEF Inv, TypeOK, Fates
<1>4. QED  BY <1>1, <1>2, <1>3 DEF Leaves, Fates

\* The record that is emitted is the one that leaves, if it lives.
LEMMA AfterLeaves ==
  ASSUME Inv, After, ~UNCHANGED log
  PROVE  /\ Leaves(rec.id, Fired) /\ now > rec.end /\ Genuine(rec)
         /\ log[rec.of].fate = "live" => rec.of = Latest(rec.id)
<1>1. /\ rec.id \in Keys /\ book' = Without(rec.id) /\ log' = WithFates(Fired)
      /\ now > rec.end /\ pc = "after"
      /\ UNCHANGED <<lastId, reused, rec>>
  BY DEF After
<1>2. Genuine(rec)  BY <1>1 DEF Inv, CopyInv, Copied
<1>3. /\ Latest(rec.id) \in Live /\ Latest(rec.id) \in DOMAIN log
      /\ \A n \in Live : log[n].id = rec.id => n = Latest(rec.id)
  BY <1>1, LatestLives DEF Inv, Live
<1>4. log[rec.of].fate = "live" => rec.of = Latest(rec.id)
  BY <1>2, <1>3 DEF Genuine, Live
<1>5. \A n \in DOMAIN log : log[n].fate \in Fates  BY DEF Inv, TypeOK, Fates
<1>6. \A n \in DOMAIN log : Fired[n] \in Fates  BY <1>5 DEF Fired, Fates
<1>7. Fired[Latest(rec.id)] # "live"  BY <1>1, <1>3 DEF Fired
<1>8. \A n \in DOMAIN log :
        n # Latest(rec.id) => Fired[n] = log[n].fate \/ (n \notin Live /\ Fired[n] # "live")
  BY <1>4 DEF Fired, Live
<1>9. QED  BY <1>1, <1>2, <1>4, <1>6, <1>7, <1>8 DEF Leaves

\* While no id came back it is the record that was copied before the wait.
LEMMA FiredOnce ==
  ASSUME Inv, After, ~UNCHANGED log, ~reused
  PROVE  Fired = [n \in DOMAIN log |-> IF n = Latest(rec.id) THEN "fired" ELSE log[n].fate]
<1>1. Leaves(rec.id, Fired) /\ Genuine(rec)  BY AfterLeaves
<1>2. Latest(rec.id) \in Live /\ Latest(rec.id) \in DOMAIN log /\ log[Latest(rec.id)].id = rec.id
  BY <1>1, EndKeeps DEF Live
<1>3. rec.of = Latest(rec.id)  BY <1>1, <1>2 DEF Inv, OnceInv, Genuine
<1>4. log[rec.of].fate = "live"  BY <1>2, <1>3 DEF Live
<1>5. QED  BY <1>3, <1>4 DEF Fired

LEMMA CancelRecordKeeps == Inv /\ (\E id \in Ids : CancelRecord(id)) => Inv'
<1> SUFFICES ASSUME Inv, NEW id \in Ids, CancelRecord(id) PROVE Inv'
  OBVIOUS
<1>1. now' = now /\ mutex = "free" /\ mutex' = "free" /\ pc' = Woken(pc)
  BY DEF CancelRecord, MayCall
<1>2. pc \notin Holding  BY <1>1 DEF Inv, TypeOK, Holding
<1>3. pc' \notin Holding /\ (pc' \in Copied => pc \in Copied)
  BY <1>1, <1>2 DEF Woken, Holding, Copied
<1>4. PICK fate : /\ Leaves(id, fate)
                  /\ fate = [n \in DOMAIN log |->
                               IF n = Latest(id) THEN "cancelled" ELSE log[n].fate]
  BY CancelLeaves
<1>5. ~reused => \A n \in DOMAIN log : fate[n] \notin {"again", "lost"}
  BY <1>4 DEF Inv, NoneMistaken
<1>6. QED  BY <1>1, <1>3, <1>4, <1>5, EndRest

\* timeout is emitted.
LEMMA AfterKeeps == Inv /\ After => Inv'
<1> SUFFICES ASSUME Inv, After PROVE Inv'
  OBVIOUS
<1>1. /\ pc = "after" /\ pc' = "top" /\ mutex' = "free"
      /\ UNCHANGED <<now, lastId, reused, rec>>
  BY DEF After
<1>2. CASE UNCHANGED <<book, log>>
  <2>1. Keys' = Keys /\ Live' = Live  BY <1>2 DEF Keys, Live
  <2>2. TypeOK'  BY <1>1, <1>2, <2>1 DEF Inv, TypeOK
  <2>3. Typed' /\ LiveInv' /\ OnceInv' /\ NoneMistaken'
    BY <1>1, <1>2, <2>1 DEF Inv, Typed, LiveInv, IdsUnique, OnceInv, NoneMistaken
  <2>4. CopyInv'  BY <1>1, <1>2, <2>1 DEF Inv, CopyInv, Genuine, Copied
  <2>5. QED  BY <2>2, <2>3, <2>4 DEF Inv
<1>3. CASE ~UNCHANGED <<book, log>>
  <2>1. rec.id \in Keys /\ log' = WithFates(Fired)  BY <1>3 DEF After
  <2>2. ~UNCHANGED log
    <3>1. Latest(rec.id) \in Live /\ Latest(rec.id) \in DOMAIN log
      BY <2>1, LatestLives DEF Inv, Live
    <3>2. log[Latest(rec.id)] \in Entry  BY <3>1, LenProperties DEF Inv, Typed
    <3>3. Fired[Latest(rec.id)] # "live"  BY <2>1, <3>1 DEF Fired
    <3>4. log'[Latest(rec.id)].fate # "live"
      BY <2>1, <3>1, <3>2, <3>3 DEF WithFates, Entry
    <3>5. QED  BY <3>1, <3>4 DEF Live
  <2>3. Leaves(rec.id, Fired)  BY <2>2, AfterLeaves
  <2>4. ~reused => \A n \in DOMAIN log : Fired[n] \notin {"again", "lost"}
    BY <2>2, FiredOnce DEF Inv, NoneMistaken
  <2>5. pc' \notin Holding /\ (pc' \in Copied => pc \in Copied)
    BY <1>1 DEF Holding, Copied
  <2>6. QED  BY <1>1, <2>3, <2>4, <2>5, EndRest
<1>4. QED  BY <1>2, <1>3

LEMMA StepInv == Inv /\ [Next]_vars => Inv'
<1> SUFFICES ASSUME Inv, [Next]_vars PROVE Inv'
  OBVIOUS
<1>1. CASE UNCHANGED vars
  <2>1. /\ UNCHANGED <<now, book, lastId, log, reused, mutex, pc, rec>>
        /\ Keys' = Keys /\ Live' = Live
    BY <1>1 DEF vars, clientVars, Keys, Live
  <2>2. TypeOK'  BY <2>1 DEF Inv, TypeOK
  <2>3. Typed' /\ LiveInv' /\ OnceInv' /\ NoneMistaken'
    BY <2>1 DEF Inv, Typed, LiveInv, IdsUnique, OnceInv, NoneMistaken
  <2>4. CopyInv'  BY <2>1 DEF Inv, CopyInv, Genuine
  <2>5. QED  BY <2>2, <2>3, <2>4 DEF Inv
<1>2. CASE Next
  <2>1. CASE Aside  BY <2>1, AsideKeeps
  <2>2. CASE Look  BY <2>2, LookKeeps
  <2>3. CASE After  BY <2>3, AfterKeeps
  <2>4. CASE \E end \in 0..MaxTime - 1 : AddRecord(end)  BY <2>4, AddRecordKeeps
  <2>5. CASE \E id \in Ids : CancelRecord(id)  BY <2>5, CancelRecordKeeps
  <2>6. QED  BY <1>2, <2>1, <2>2, <2>3, <2>4, <2>5 DEF Next, Client, Run, Aside
<1>3. QED  BY <1>1, <1>2

LEMMA Invariance == Spec => []Inv
<1>1. QED  BY InitInv, StepInv, PTL DEF Spec

-----------------------------------------------------------------------------
(* The theorems                                                            *)

\* The thread holds the mutex exactly where run() has it locked, and every
\* record has one of the program's ids and times.
THEOREM KeeperTypeCorrect == Spec => []TypeOK
<1>1. Inv => TypeOK  BY DEF Inv
<1>2. QED  BY Invariance, <1>1, PTL

\* No two records that wait for their time share an id, however often the
\* counter of ids has wrapped, and the book holds exactly their ids.
THEOREM KeeperIdsUnique == Spec => []IdsUnique
<1>1. Inv => IdsUnique  BY DEF Inv, LiveInv
<1>2. QED  BY Invariance, <1>1, PTL

\* getClosestRecord and run() work on copies: while no id was handed out twice
\* none of them is taken for another record's.
THEOREM KeeperNoneMistaken == Spec => []NoneMistaken
<1>1. Inv => NoneMistaken  BY DEF Inv
<1>2. QED  BY Invariance, <1>1, PTL

\* A record that is over does not time out (again), although the thread may
\* hold a copy of it, until its id is handed out again.
THEOREM KeeperFateIsFinal == Spec => FateIsFinal
<1>1. ASSUME Inv, [Next]_vars, NEW n \in DOMAIN log, log[n].fate # "live", ~Superseded(n)
      PROVE  log'[n].fate = log[n].fate
  <2>0. DOMAIN log = 1..Len(log) /\ Len(log) \in Nat  BY <1>1 DEF Inv, Typed
  <2>1. ASSUME NEW id \in Keys PROVE n # Latest(id)
    BY <1>1, <2>1, LatestLives DEF Inv, Live
  <2>2. CASE \E id \in Ids : CancelRecord(id)
    <3>1. PICK id \in Ids : CancelRecord(id)  BY <2>2
    <3>2. PICK fate : /\ Leaves(id, fate)
                      /\ fate = [k \in DOMAIN log |->
                                   IF k = Latest(id) THEN "cancelled" ELSE log[k].fate]
      BY <1>1, <3>1, CancelLeaves
    <3>3. log'[n].fate = fate[n]  BY <1>1, <3>2, EndKeeps
    <3>4. n # Latest(id)  BY <2>1, <3>1 DEF CancelRecord
    <3>5. QED  BY <3>2, <3>3, <3>4
  <2>3. CASE After
    <3>1. CASE UNCHANGED log  BY <3>1
    <3>2. CASE ~UNCHANGED log
      <4>1. Leaves(rec.id, Fired) /\ Genuine(rec)  BY <1>1, <2>3, <3>2, AfterLeaves
      <4>2. /\ log'[n].fate = Fired[n] /\ n # Latest(rec.id)
            /\ Latest(rec.id) \in Live /\ log[Latest(rec.id)].id = rec.id
        BY <1>1, <2>1, <4>1, EndKeeps DEF Leaves
      <4>3. n # rec.of
        <5> SUFFICES ASSUME n = rec.of PROVE FALSE
          OBVIOUS
        <5> DEFINE l == Latest(rec.id)
        <5>1. l \in DOMAIN log /\ log[l].id = log[n].id /\ l # n
          BY <4>1, <4>2 DEF Genuine, Live
        <5>2. \A k \in l + 1..Len(log) : log[k].id # log[l].id
          BY <1>1, <4>2 DEF Inv, LiveInv
        <5> HIDE DEF l
        <5>3. l \in n + 1..Len(log) \/ n \in l + 1..Len(log)  BY <1>1, <2>0, <5>1
        <5>4. QED  BY <1>1, <5>1, <5>2, <5>3 DEF Superseded
      <4>4. QED  BY <4>2, <4>3 DEF Fired
    <3>3. QED  BY <3>1, <3>2
  <2>4. CASE \E end \in 0..MaxTime - 1 : AddRecord(end)
    <3>1. PICK e : log' = Append(log, e)  BY <2>4 DEF AddRecord
    <3>2. log'[n] = log[n]  BY <1>1, <2>0, <3>1
    <3>3. QED  BY <3>2
  <2>5. CASE UNCHANGED log  BY <2>5
  <2>6. QED
    BY <1>1, <2>2, <2>3, <2>4, <2>5
    DEF Next, Client, Run, Tick, Top, Look, EvalEmpty, EvalTimed, Park, Lapse, Relock, CallBack,
        Spurious, Stop, NotifyStop, Join, AddRecordFor, vars, clientVars
<1>2. Inv /\ [Next]_vars =>
        [\A n \in DOMAIN log :
           log[n].fate # "live" /\ ~Superseded(n) => log'[n].fate = log[n].fate]_vars
  BY <1>1
<1>3. QED  BY Invariance, <1>2, PTL DEF Spec, FateIsFinal

-----------------------------------------------------------------------------
(* Sleep.  Where the mutex is free, whoever changes the book sets           *)
(* _notification, and wakes the thread if it is blocked.                    *)

SleepInv ==
  /\ pc \in {"parkEmpty", "blockedEmpty", "parkTimed", "blockedTimed"} => ~notification
  /\ pc \in {"evalEmpty", "parkEmpty", "blockedEmpty", "wokenEmpty"} /\ ~notification
       => Keys = {}
  /\ pc \in {"evalTimed", "parkTimed", "blockedTimed", "wokenTimed"} /\ ~notification
       => \A k \in Keys : rec.end <= book[k].end

\* getClosestRecord returns a record that ends first, and leaves none in the
\* book that ends earlier, also where it overwrites one.
LEMMA LookFindsFirst ==
  ASSUME Inv, Look, pc' = "evalTimed"
  PROVE  \A k \in Keys' : rec'.end <= book'[k].end
<1>1. PICK b \in Keys, c \in Keys :
        /\ \A k \in Keys : book[c].end <= book[k].end
        /\ rec' = Closest(b, c) /\ book' = [book EXCEPT ![b] = Closest(b, c)]
  BY DEF Look
<1>2. \A k \in Keys : book[k].end \in Nat
  BY Constants DEF Inv, TypeOK
<1>3. book \in [Keys -> Record] /\ Keys' = Keys
  BY <1>1 DEF Inv, Typed, Keys
<1>4. \A k \in Keys : Closest(b, c).end <= book[k].end
  BY <1>1, <1>2 DEF Closest
<1>5. Closest(b, c).end \in Nat  BY <1>1, <1>2 DEF Closest
<1>6. ASSUME NEW k \in Keys PROVE rec'.end <= book'[k].end
  <2>1. book'[k] = IF k = b THEN Closest(b, c) ELSE book[k]  BY <1>1, <1>3
  <2>2. QED  BY <1>1, <1>4, <1>5, <2>1
<1>7. QED  BY <1>3, <1>6

LEMMA SleepStep == Inv /\ SleepInv /\ [Next]_vars => SleepInv'
<1> SUFFICES ASSUME Inv, SleepInv, [Next]_vars PROVE SleepInv'
  OBVIOUS
<1>0. (mutex = "run") <=> (pc \in Holding)  BY DEF Inv, TypeOK, Holding
<1>1. CASE Tick \/ Stop \/ Join \/ (\E d \in Durations : AddRecordFor(d)) \/ UNCHANGED vars
  <2>1. UNCHANGED <<book, rec, pc, notification>>
    BY <1>1 DEF Tick, Stop, Join, AddRecordFor, vars, clientVars
  <2>2. QED  BY <2>1 DEF SleepInv, Keys
<1>2. CASE \/ \E end \in 0..MaxTime - 1 : AddRecord(end)
           \/ \E id \in Ids : CancelRecord(id)
  <2>1. pc \notin Holding /\ pc' = Woken(pc) /\ notification' = TRUE
    BY <1>0, <1>2 DEF AddRecord, CancelRecord, MayCall
  <2>2. pc' \notin {"parkEmpty", "blockedEmpty", "parkTimed", "blockedTimed"}
    BY <2>1 DEF Woken, Holding
  <2>3. QED  BY <2>1, <2>2 DEF SleepInv
<1>3. CASE Look
  <2>1. pc = "lock" /\ pc' \in {"evalEmpty", "evalTimed"} /\ notification' = notification
    BY <1>3 DEF Look
  <2>2. pc' = "evalEmpty" => Keys' = {}  BY <1>3 DEF Look, Keys
  <2>3. QED  BY <1>3, <2>1, <2>2, LookFindsFirst DEF SleepInv
<1>4. CASE Top \/ EvalEmpty \/ EvalTimed \/ Park \/ Lapse \/ Relock
  <2>1. UNCHANGED <<book, rec>>
    BY <1>4 DEF Top, EvalEmpty, EvalTimed, Park, Lapse, Relock, clientVars
  <2>2. CASE Top \/ EvalEmpty \/ EvalTimed
    BY <2>1, <2>2 DEF Top, EvalEmpty, EvalTimed, SleepInv, Keys
  <2>3. CASE Park \/ Lapse \/ Relock
    BY <2>1, <2>3 DEF Park, Lapse, Relock, SleepInv, Keys
  <2>4. QED  BY <1>4, <2>2, <2>3
<1>5. CASE Spurious \/ NotifyStop
  <2>1. UNCHANGED <<book, rec, notification>> /\ pc' = Woken(pc)
    BY <1>5 DEF Spurious, NotifyStop, clientVars
  <2>2. QED  BY <2>1 DEF Woken, SleepInv, Keys
<1>6. CASE After \/ CallBack
  BY <1>6 DEF After, CallBack, SleepInv
<1>7. QED  BY <1>1, <1>2, <1>3, <1>4, <1>5, <1>6 DEF Next, Client, Run

\* wait and wait_until in run() against addRecord and cancelRecord: the thread
\* never waits longer than to the first end in the book.
THEOREM KeeperNeverOversleeps == Spec => []NeverOversleeps
<1>1. Init => SleepInv  BY DEF Init, SleepInv
<1>2. SleepInv => NeverOversleeps  BY DEF SleepInv, NeverOversleeps
<1>3. QED  BY <1>1, <1>2, Invariance, SleepStep, PTL DEF Spec

-----------------------------------------------------------------------------
(* A timer service                                                         *)

\* What the program sees of records that live and of those that do not.
Serving(e) == [state |-> "running", left |-> e.end - now, period |-> -1]
Ended(fate) ==
  [state |-> IF fate = "cancelled" THEN "stopped" ELSE "expired", left |-> 0, period |-> -1]

LEMMA ServedIs ==
  /\ DOMAIN served = DOMAIN log
  /\ \A n \in DOMAIN log :
       served[n] = IF n \in Live THEN Serving(log[n]) ELSE Ended(log[n].fate)
  /\ Service!Running = Live
<1>1. /\ DOMAIN served = DOMAIN log
      /\ \A n \in DOMAIN log :
           served[n] = IF n \in Live THEN Serving(log[n]) ELSE Ended(log[n].fate)
  BY DEF served, Serving, Ended, Live
<1>2. \A n \in DOMAIN log : served[n].state = "running" <=> n \in Live
  BY <1>1 DEF Serving, Ended
<1>3. Service!Running = Live  BY <1>1, <1>2 DEF Service!Running, Live
<1>4. QED  BY <1>1, <1>3

\* The end of a record, seen from outside.
LEMMA EndServes ==
  ASSUME Inv, NEW id, NEW f \in {"cancelled", "fired"}, NEW fate, Leaves(id, fate), now' = now,
         fate = [n \in DOMAIN log |-> IF n = Latest(id) THEN f ELSE log[n].fate]
  PROVE  /\ Latest(id) \in Service!Running
         /\ served' = [served EXCEPT ![Latest(id)] =
                         Service!Over(IF f = "cancelled" THEN "stopped" ELSE "expired")]
<1> DEFINE l == Latest(id)
<1>1. /\ DOMAIN log' = DOMAIN log
      /\ \A n \in DOMAIN log : log'[n].end = log[n].end /\ log'[n].fate = fate[n]
      /\ l \in Live
  BY EndKeeps
<1>2. l \in DOMAIN log /\ fate = [n \in DOMAIN log |-> IF n = l THEN f ELSE log[n].fate]
  BY <1>1 DEF Live
<1> HIDE DEF l
<1>3. log'[l].fate = f /\ \A n \in DOMAIN log : n # l => log'[n].fate = log[n].fate
  BY <1>1, <1>2
<1>4. \A n \in DOMAIN log : n # l => served'[n] = served[n]  BY <1>1, <1>3 DEF served
<1>5. served'[l] = Service!Over(IF f = "cancelled" THEN "stopped" ELSE "expired")
  BY <1>1, <1>2, <1>3 DEF served, Service!Over, Service!Once
<1>6. served' = [n \in DOMAIN served |-> served'[n]] /\ DOMAIN served = DOMAIN log
  BY <1>1 DEF served
<1>7. served' = [served EXCEPT ![l] =
                   Service!Over(IF f = "cancelled" THEN "stopped" ELSE "expired")]
  BY <1>4, <1>5, <1>6
<1>8. QED  BY <1>1, <1>7, ServedIs DEF l

\* Appending to a sequence that is given as a function.
LEMMA AppendIs ==
  ASSUME NEW k \in Nat, NEW s, s = [i \in 1..k |-> s[i]], NEW x
  PROVE  Append(s, x) = [i \in 1..k + 1 |-> IF i = k + 1 THEN x ELSE s[i]]
<1>1. s \in Seq({s[i] : i \in 1..k}) /\ Len(s) = k  OBVIOUS
<1>2. QED  BY <1>1

LEMMA TickServes == Inv /\ Tick => Service!Tick
<1> SUFFICES ASSUME Inv, Tick PROVE Service!Tick
  OBVIOUS
<1>1. log' = log /\ now' = now + 1 /\ now \in Int
  BY Constants DEF Tick, clientVars, Inv, TypeOK
<1>2. ASSUME NEW n \in DOMAIN log
      PROVE  served'[n] = IF n \in Live THEN [served[n] EXCEPT !.left = @ - 1] ELSE served[n]
  <2>1. log \in Seq(Entry)  BY DEF Inv, Typed
  <2>2. log[n] \in Entry  BY <2>1, LenProperties
  <2>3. log[n].end \in Int  BY <2>2, Constants DEF Entry, Times
  <2>4. CASE n \in Live
    <3>1. /\ served'[n] = [state |-> "running", left |-> log[n].end - (now + 1), period |-> -1]
          /\ served[n] = [state |-> "running", left |-> log[n].end - now, period |-> -1]
      BY <1>1, <2>4 DEF served, Live
    <3>2. log[n].end - (now + 1) = (log[n].end - now) - 1  BY <1>1, <2>3
    <3>3. QED  BY <2>4, <3>1, <3>2
  <2>5. CASE n \notin Live  BY <1>1, <2>5 DEF served, Live
  <2>6. QED  BY <2>4, <2>5
<1>3. served' = [n \in DOMAIN log |-> served'[n]]  BY <1>1 DEF served
<1>4. QED  BY <1>2, <1>3, ServedIs DEF Service!Tick

LEMMA AddRecordServes == Inv /\ (\E end \in 0..MaxTime - 1 : AddRecord(end)) => Service!Begin
<1> SUFFICES ASSUME Inv, NEW end \in 0..MaxTime - 1, AddRecord(end) PROVE Service!Begin
  OBVIOUS
<1> DEFINE entry == [id |-> NewId, end |-> end, fate |-> "live"]
           order == [left |-> end - now, period |-> -1]
<1>1. log' = Append(log, entry) /\ now' = now /\ end >= now
  BY DEF AddRecord
<1>2. /\ log \in Seq(Entry) /\ DOMAIN log = 1..Len(log) /\ Len(log) \in Nat
      /\ now \in 0..MaxTime /\ MaxTime \in Nat
  BY Constants DEF Inv, Typed, TypeOK
<1>3. order \in [left : 0..MaxTime, period : {-1}]
  <2>1. end - now \in 0..MaxTime  BY <1>1, <1>2
  <2>2. QED  BY <2>1
<1>4. /\ DOMAIN log' = 1..Len(log) + 1 /\ log'[Len(log) + 1] = entry
      /\ \A n \in DOMAIN log : log'[n] = log[n]
  <2> HIDE DEF entry
  <2>1. QED  BY <1>1, <1>2
<1>5. \A n \in DOMAIN log : served'[n] = served[n] /\ n \in DOMAIN log'
  BY <1>1, <1>2, <1>4 DEF served
<1>6. served'[Len(log) + 1] = Service!Set(order)
  BY <1>1, <1>2, <1>4 DEF served, Service!Set
<1>7. DOMAIN served' = 1..Len(log) + 1 /\ served' = [n \in 1..Len(log) + 1 |-> served'[n]]
  BY <1>4 DEF served
<1>8. served = [n \in 1..Len(log) |-> served[n]]  BY <1>2 DEF served
<1>9. served' = Append(served, Service!Set(order))
  <2> HIDE DEF order
  <2>1. Append(served, Service!Set(order)) =
          [n \in 1..Len(log) + 1 |->
             IF n = Len(log) + 1 THEN Service!Set(order) ELSE served[n]]
    BY <1>2, <1>8, AppendIs
  <2>2. \A n \in 1..Len(log) + 1 : n = Len(log) + 1 \/ n \in DOMAIN log  BY <1>2
  <2>3. QED  BY <1>5, <1>6, <1>7, <2>1, <2>2
<1> HIDE DEF order
<1>10. QED  BY <1>3, <1>9 DEF Service!Begin

\* The thread emits timeout for a record that lives and whose time has
\* passed, as long as no id came back.
LEMMA AfterServes == Inv /\ After /\ ~reused' => Service!Expire \/ UNCHANGED served
<1> SUFFICES ASSUME Inv, After, ~reused' PROVE Service!Expire \/ UNCHANGED served
  OBVIOUS
<1>1. CASE UNCHANGED log
  BY <1>1 DEF After, served
<1>2. CASE ~UNCHANGED log
  <2> DEFINE l == Latest(rec.id)
  <2>1. now' = now /\ reused' = reused  BY DEF After
  <2>2. Leaves(rec.id, Fired) /\ now > rec.end /\ Genuine(rec)  BY <1>2, AfterLeaves
  <2>3. Fired = [n \in DOMAIN log |-> IF n = Latest(rec.id) THEN "fired" ELSE log[n].fate]
    BY <1>2, <2>1, FiredOnce
  <2>4. l \in Service!Running /\ served' = [served EXCEPT ![l] = Service!Over("expired")]
    BY <2>1, <2>2, <2>3, EndServes
  <2>5. l \in Live /\ l \in DOMAIN log /\ log[l].id = rec.id
    BY <2>2, EndKeeps DEF Live
  <2>6. rec.of = l  BY <2>1, <2>2, <2>5 DEF Inv, OnceInv, Genuine
  <2>7. now > log[l].end  BY <2>2, <2>6 DEF Genuine
  <2>8. served[l].left <= 0 /\ served[l].period = Service!Once
    <3>1. log[l] \in Entry  BY <2>5, LenProperties DEF Inv, Typed
    <3>2. now \in Int /\ log[l].end \in Int
      BY <3>1, Constants DEF Inv, TypeOK, Entry, Times
    <3>3. served[l] = Serving(log[l])  BY <2>5, ServedIs
    <3> HIDE DEF l
    <3>4. QED  BY <2>7, <3>2, <3>3 DEF Serving, Service!Once
  <2> HIDE DEF l
  <2>9. QED  BY <2>4, <2>8 DEF Service!Expire
<1>3. QED  BY <1>1, <1>2

\* Every step is one of the service's, or leaves what the program sees alone.
LEMMA StepServes == Inv /\ [Next]_vars => [~reused' => Service!Next]_served
<1> SUFFICES ASSUME Inv, [Next]_vars, ~reused' PROVE Service!Next \/ UNCHANGED served
  OBVIOUS
<1>1. CASE Tick  BY <1>1, TickServes DEF Service!Next
<1>2. CASE \E end \in 0..MaxTime - 1 : AddRecord(end)
  BY <1>2, AddRecordServes DEF Service!Next
<1>3. CASE \E id \in Ids : CancelRecord(id)
  <2>1. PICK id \in Ids : CancelRecord(id)  BY <1>3
  <2>2. PICK fate : /\ Leaves(id, fate)
                    /\ fate = [n \in DOMAIN log |->
                                 IF n = Latest(id) THEN "cancelled" ELSE log[n].fate]
    BY <2>1, CancelLeaves
  <2>3. now' = now  BY <2>1 DEF CancelRecord
  <2>4. /\ Latest(id) \in Service!Running
        /\ served' = [served EXCEPT ![Latest(id)] = Service!Over("stopped")]
    BY <2>2, <2>3, EndServes
  <2>5. QED  BY <2>4 DEF Service!Next, Service!Stop
<1>4. CASE After  BY <1>4, AfterServes DEF Service!Next
<1>5. CASE UNCHANGED <<now, log>>  BY <1>5 DEF served
<1>6. QED
  BY <1>1, <1>2, <1>3, <1>4, <1>5
  DEF Next, Client, Run, Top, Look, EvalEmpty, EvalTimed, Park, Lapse, Relock, CallBack,
      Spurious, Stop, NotifyStop, Join, AddRecordFor, vars, clientVars

\* For any number of ids and records and any clock TimeKeeper is a timer
\* service as long as no id comes back: each record waits for its own time,
\* and ends as timed out or as cancelled for a reason of its own.
THEOREM KeeperImplementsService == Spec => RefinesService
<1>1. Init => Service!Init  BY DEF Init, served, Service!Init
<1>2. QED
  BY <1>1, Invariance, StepServes, PTL DEF Spec, RefinesService

-----------------------------------------------------------------------------
(* The destructor                                                          *)

\* What StopReturns starts from: the thread will see that _running was
\* cleared.  A wait with a time limit ends of itself; one without does so only
\* if the notification of stop() is still to come, and finds it waiting.
Hears ==
  \/ owner = "notify" /\ pc # "parkEmpty"
  \/ owner = "join" /\ pc \notin {"parkEmpty", "blockedEmpty"}

HearingStays == [][Hears => Hears' \/ owner' = "destroyed"]_vars

StopInv == owner # "alive" => ~running

LEMMA StopStep == StopInv /\ [Next]_vars => StopInv'
BY DEF StopInv, Next, Client, Run, Tick, AddRecord, AddRecordFor, CancelRecord, Top, Look,
       EvalEmpty, EvalTimed, Park, Lapse, Relock, After, CallBack, Spurious, Stop, NotifyStop,
       Join, vars, clientVars

LEMMA HearingStep == StopInv /\ [Next]_vars /\ Hears => Hears' \/ owner' = "destroyed"
<1> SUFFICES ASSUME StopInv, [Next]_vars, Hears PROVE Hears' \/ owner' = "destroyed"
  OBVIOUS
<1>0. owner \in {"notify", "join"} /\ ~running  BY DEF Hears, StopInv
<1>1. CASE NotifyStop  BY <1>1 DEF NotifyStop, Woken, Hears
<1>2. CASE Join  BY <1>2 DEF Join
<1>3. CASE Top \/ Look \/ EvalEmpty \/ EvalTimed
  <2>1. pc' \notin {"parkEmpty", "blockedEmpty"} /\ owner' = owner
    BY <1>0, <1>3 DEF Top, Look, EvalEmpty, EvalTimed
  <2>2. QED  BY <1>0, <2>1 DEF Hears
<1>4. CASE Park  BY <1>4 DEF Park, Hears
<1>5. CASE Lapse \/ Relock \/ After \/ CallBack
  BY <1>0, <1>5 DEF Lapse, Relock, After, CallBack, Hears
<1>6. CASE Spurious  BY <1>6 DEF Spurious, Woken, Hears
<1>7. CASE Tick \/ UNCHANGED vars  BY <1>7 DEF Tick, vars, Hears
<1>8. QED
  BY <1>0, <1>1, <1>2, <1>3, <1>4, <1>5, <1>6, <1>7
  DEF Next, Client, Run, Stop, AddRecord, AddRecordFor, CancelRecord, MayCall

\* The safety half of StopReturns: a thread that is to hear of stop() never
\* goes back to a wait without limit, although stop() takes no lock.
THEOREM KeeperHearingStays == Spec => HearingStays
<1>1. Init => StopInv  BY DEF Init, StopInv
<1>2. StopInv /\ [Next]_vars => [Hears => Hears' \/ owner' = "destroyed"]_vars
  BY HearingStep
<1>3. QED  BY <1>1, <1>2, StopStep, PTL DEF Spec, HearingStays
=============================================================================
