----------------------------- MODULE TimeKeeper -----------------------------
(***************************************************************************)
(* TimeKeeper (timers/TimeKeeper.h, .cpp): records with an end time, and a *)
(* thread that sleeps until the closest one ends and emits timeout for it. *)
(*                                                                         *)
(* AddRecord and CancelRecord run under _mutex from beginning to end and   *)
(* are single steps.  The thread holds the mutex except while it waits,    *)
(* and the destructor's stop() does not take it, so the thread's steps     *)
(* follow the condition variable: evaluate the predicate, begin to wait.   *)
(* Calls that throw change nothing and are left out.                       *)
(***************************************************************************)
EXTENDS Integers, Sequences

CONSTANTS
  IdMod,        \* number of record ids: 2^16 in the code
  Durations,    \* the durations the program passes to AddRecord(duration)
  MaxRecords,   \* bound: number of records added
  MaxTime       \* bound: time at which the clock stops

ASSUME TimeKeeperAssumption ==
  /\ IdMod \in Nat /\ IdMod > 1
  /\ Durations \subseteq Nat
  /\ MaxRecords \in Nat /\ MaxTime \in Nat

Ids == 0..IdMod - 1

VARIABLES
  now,          \* system_clock::now()
  book,         \* _recordBook: a record [id, end] for some of the ids, and
                \* which of the records handed out it is a copy of
  lastId,       \* _lastRecordId
  notification, \* _notification
  running,      \* _running
  mutex,        \* who holds _mutex: nobody, the thread, or a stuck caller
  pc,           \* where run() stands
  rec,          \* its local copy of the closest record
  owner,        \* where the destructor stands
  log,          \* the records handed out: id, end, and what became of them
  reused        \* whether an id was handed out a second time

clientVars == <<book, lastId, log, reused>>
vars == <<now, clientVars, notification, running, mutex, pc, rec, owner>>

Keys == DOMAIN book
Without(k) == [i \in Keys \ {k} |-> book[i]]

Init ==
  /\ now = 0
  /\ book = [i \in {} |-> 0]
  /\ lastId = 0
  /\ notification = FALSE
  /\ running = TRUE
  /\ mutex = "free"
  /\ pc = "top"
  /\ rec = [id |-> 0, end |-> 0, of |-> 0]
  /\ owner = "alive"
  /\ log = <<>>
  /\ reused = FALSE

Tick ==
  /\ now < MaxTime
  /\ now' = now + 1
  /\ UNCHANGED <<clientVars, notification, running, mutex, pc, rec, owner>>

-----------------------------------------------------------------------------
(* AddRecord and CancelRecord                                              *)

\* Mutant: adding and cancelling do not notify.
NeverWoken(p) == p

\* notify_one reaches the thread only if it is blocked by now.
Woken(p) == CASE p = "blockedEmpty" -> "wokenEmpty"
              [] p = "blockedTimed" -> "wokenTimed"
              [] OTHER -> p

MayCall == mutex = "free" /\ owner = "alive"

\* Mutant: the search for a free id is left out.
LastId == lastId

\* The last id handed out, or the first free one behind it.
NewId ==
  LET id(k) == (lastId + k) % IdMod
      Free(k) == id(k) \notin Keys
  IN id(CHOOSE k \in 0..IdMod - 1 : Free(k) /\ \A j \in 0..k - 1 : ~Free(j))

\* AddRecord(time_point)
AddRecord(end) ==
  /\ MayCall
  /\ Len(log) < MaxRecords
  /\ end >= now
  /\ \E i \in Ids : i \notin Keys /\ \E j \in Ids \ {i} : j \notin Keys  \* not full
  /\ LET r == [id |-> NewId, end |-> end, of |-> Len(log) + 1] IN
     /\ book' = [i \in Keys \cup {r.id} |-> IF i = r.id THEN r ELSE book[i]]
     /\ log' = Append(log, [id |-> r.id, end |-> end, fate |-> "live"])
     /\ reused' = (reused \/ \E n \in DOMAIN log : log[n].id = r.id)
  /\ lastId' = (lastId + 1) % IdMod
  /\ notification' = TRUE
  /\ pc' = Woken(pc)
  /\ UNCHANGED <<now, running, mutex, rec, owner>>

\* AddRecord(duration) locks the mutex and calls AddRecord(time_point), which
\* locks it again: the caller waits for itself.
AddRecordFor(duration) ==
  /\ MayCall
  /\ duration # 0
  /\ mutex' = "stuck"
  /\ UNCHANGED <<now, clientVars, notification, running, pc, rec, owner>>

\* The latest record of an id, and the records with new fates.
Superseded(n) == \E k \in n + 1..Len(log) : log[k].id = log[n].id
Latest(id) == CHOOSE n \in DOMAIN log : log[n].id = id /\ ~Superseded(n)
WithFates(fate) == [n \in DOMAIN log |-> [log[n] EXCEPT !.fate = fate[n]]]

CancelRecord(id) ==
  /\ MayCall
  /\ id \in Keys
  /\ book' = Without(id)
  /\ log' = WithFates([n \in DOMAIN log |->
                         IF n = Latest(id) THEN "cancelled" ELSE log[n].fate])
  /\ notification' = TRUE
  /\ pc' = Woken(pc)
  /\ UNCHANGED <<now, lastId, reused, running, mutex, rec, owner>>

-----------------------------------------------------------------------------
(* run()                                                                   *)

\* Mutant: the thread does not look at _running.
TopForever ==
  /\ pc = "top"
  /\ pc' = "lock"
  /\ UNCHANGED <<now, clientVars, notification, running, mutex, rec, owner>>

Top ==
  /\ pc = "top"
  /\ pc' = IF running THEN "lock" ELSE "done"
  /\ UNCHANGED <<now, clientVars, notification, running, mutex, rec, owner>>

\* getClosestRecord: walks the map from its first record, b.  When a closer
\* one is met the assignment through the reference copies it over b's.
Closest(b, c) == IF book[c].end < book[b].end THEN book[c] ELSE book[b]

Look ==
  /\ pc = "lock" /\ mutex = "free"
  /\ mutex' = "run"
  /\ \/ /\ Keys = {}
        /\ pc' = "evalEmpty"
        /\ UNCHANGED <<book, rec>>
     \/ \E b, c \in Keys :
          /\ \A k \in Keys : book[c].end <= book[k].end
          /\ rec' = Closest(b, c)
          /\ book' = [book EXCEPT ![b] = Closest(b, c)]
          /\ pc' = "evalTimed"
  /\ UNCHANGED <<now, lastId, log, reused, notification, running, owner>>

\* wait(lock, !_running || _notification)
EvalEmpty ==
  /\ pc = "evalEmpty"
  /\ IF ~running \/ notification
     THEN pc' = "top" /\ mutex' = "free" /\ notification' = FALSE
     ELSE pc' = "parkEmpty" /\ UNCHANGED <<mutex, notification>>
  /\ UNCHANGED <<now, clientVars, running, rec, owner>>

\* wait_until(lock, record.interval.end, ...)
EvalTimed ==
  /\ pc = "evalTimed"
  /\ pc' = IF ~running \/ notification \/ now > rec.end THEN "after" ELSE "parkTimed"
  /\ UNCHANGED <<now, clientVars, notification, running, mutex, rec, owner>>

\* The wait begins: the mutex is released, and from here on a notification
\* is seen.
Park ==
  /\ \/ pc = "parkEmpty" /\ pc' = "blockedEmpty"
     \/ pc = "parkTimed" /\ pc' = "blockedTimed"
  /\ mutex' = "free"
  /\ UNCHANGED <<now, clientVars, notification, running, rec, owner>>

Lapse ==
  /\ pc = "blockedTimed" /\ now >= rec.end
  /\ pc' = "lapsed"
  /\ UNCHANGED <<now, clientVars, notification, running, mutex, rec, owner>>

Spurious ==
  /\ pc # Woken(pc)
  /\ pc' = Woken(pc)
  /\ UNCHANGED <<now, clientVars, notification, running, mutex, rec, owner>>

\* A wait ends with the mutex locked again; one that lapsed returns whatever
\* the predicate says.
Relock ==
  /\ mutex = "free"
  /\ mutex' = "run"
  /\ \/ pc = "wokenEmpty" /\ pc' = "evalEmpty"
     \/ pc = "wokenTimed" /\ pc' = "evalTimed"
     \/ pc = "lapsed" /\ pc' = "after"
  /\ UNCHANGED <<now, clientVars, notification, running, rec, owner>>

\* timeout is emitted for the record that was copied, and the record that
\* lives under its id leaves the book: another one, which is lost, if the id
\* was handed out again after the first one was over.
Fired ==
  [n \in DOMAIN log |->
     CASE n = rec.of -> IF log[n].fate = "live" THEN "fired" ELSE "again"
       [] n # rec.of /\ rec.id \in Keys /\ n = Latest(rec.id) -> "lost"
       [] OTHER -> log[n].fate]

\* Mutant: a record is not looked up again before timeout is emitted.
AfterUnchecked ==
  /\ pc = "after"
  /\ notification' = FALSE
  /\ IF now > rec.end
     THEN book' = Without(rec.id) /\ log' = WithFates(Fired)
     ELSE UNCHANGED <<book, log>>
  /\ mutex' = "free" /\ pc' = "top"
  /\ UNCHANGED <<now, lastId, reused, running, rec, owner>>

\* Mutant: any wakeup counts as the timeout.
AfterAnyWakeup ==
  /\ pc = "after"
  /\ notification' = FALSE
  /\ IF rec.id \in Keys
     THEN book' = Without(rec.id) /\ log' = WithFates(Fired)
     ELSE UNCHANGED <<book, log>>
  /\ mutex' = "free" /\ pc' = "top"
  /\ UNCHANGED <<now, lastId, reused, running, rec, owner>>

\* After the wait: timeout is emitted if the time has passed and there still
\* is a record with that id in the book.
After ==
  /\ pc = "after"
  /\ notification' = FALSE
  /\ IF now > rec.end /\ rec.id \in Keys
     THEN book' = Without(rec.id) /\ log' = WithFates(Fired)
     ELSE UNCHANGED <<book, log>>
  /\ mutex' = "free" /\ pc' = "top"
  /\ UNCHANGED <<now, lastId, reused, running, rec, owner>>

\* A slot of timeout that adds or cancels a record locks the mutex again: the
\* thread waits for itself, with the record still in the book.
CallBack ==
  /\ pc = "after" /\ now > rec.end /\ rec.id \in Keys
  /\ pc' = "stuck"
  /\ notification' = FALSE
  /\ UNCHANGED <<now, clientVars, running, mutex, rec, owner>>

-----------------------------------------------------------------------------
(* ~TimeKeeper: stop(), without the mutex, and wait()                      *)

Stop ==
  /\ owner = "alive" /\ mutex # "stuck"
  /\ owner' = "notify"
  /\ running' = FALSE
  /\ UNCHANGED <<now, clientVars, notification, mutex, pc, rec>>

NotifyStop ==
  /\ owner = "notify"
  /\ owner' = "join"
  /\ pc' = Woken(pc)
  /\ UNCHANGED <<now, clientVars, notification, running, mutex, rec>>

Join ==
  /\ owner = "join" /\ pc = "done"
  /\ owner' = "destroyed"
  /\ UNCHANGED <<now, clientVars, notification, running, mutex, pc, rec>>

-----------------------------------------------------------------------------
Client ==
  \/ \E end \in 0..MaxTime - 1 : AddRecord(end)
  \/ \E d \in Durations : AddRecordFor(d)
  \/ \E id \in Ids : CancelRecord(id)

Run == Top \/ Look \/ EvalEmpty \/ EvalTimed \/ Park \/ Lapse \/ Relock \/ After

Next == Tick \/ Client \/ Run \/ CallBack \/ Spurious \/ Stop \/ NotifyStop \/ Join

Spec == Init /\ [][Next]_vars

\* Time passes and the threads run; nothing makes a client call, the owner
\* destroy the object, or a wakeup without notification happen.
Fairness == WF_vars(Tick) /\ WF_vars(Run) /\ WF_vars(NotifyStop \/ Join)

FairSpec == Spec /\ Fairness

-----------------------------------------------------------------------------
TypeOK ==
  /\ now \in 0..MaxTime
  /\ Keys \subseteq Ids
  /\ \A k \in Keys : book[k].id \in Ids /\ book[k].end \in 0..MaxTime
  /\ lastId \in Ids /\ rec.id \in Ids
  /\ mutex \in {"free", "run", "stuck"}
  /\ mutex = "run" <=> pc \in {"evalEmpty", "evalTimed", "parkEmpty", "parkTimed", "after", "stuck"}
  /\ \A n \in DOMAIN log : log[n].fate \in {"live", "cancelled", "fired", "again", "lost"}

Live == {n \in DOMAIN log : log[n].fate = "live"}

\* No two records that wait for their time have the same id, also after the
\* counter of ids has wrapped, and the book holds exactly their ids.
IdsUnique ==
  /\ \A m, n \in Live : log[m].id = log[n].id => m = n
  /\ Keys = {log[n].id : n \in Live}

\* The thread never sleeps past the end of a record: it waits without limit
\* only while the book is empty, and otherwise at most until the first end
\* in it, whatever was added while it was on its way into the wait.
NeverOversleeps ==
  /\ pc \in {"parkEmpty", "blockedEmpty"} => Keys = {}
  /\ pc \in {"parkTimed", "blockedTimed"} => \A k \in Keys : rec.end <= book[k].end

\* As long as no id comes back, no record times out twice or after it was
\* cancelled, and none leaves the book because another one timed out.
NoneMistaken == ~reused => \A n \in DOMAIN log : log[n].fate \notin {"again", "lost"}

\* What AddRecord handed out, as the program sees it: how long each record
\* still has to wait, or how it ended.
served ==
  [n \in DOMAIN log |->
     IF log[n].fate = "live"
     THEN [state |-> "running", left |-> log[n].end - now, period |-> -1]
     ELSE [state |-> IF log[n].fate = "cancelled" THEN "stopped" ELSE "expired",
           left |-> 0, period |-> -1]]

\* AddRecord, CancelRecord and the thread together are a timer service as long
\* as no id comes back: although the thread works on a copy, and copies one
\* record over another, each record ends once, for its own reason, and none
\* times out before its end.
Service == INSTANCE TimerService WITH
  timers <- served,
  Orders <- [left : 0..MaxTime, period : {-1}],
  MayReplace <- FALSE
RefinesService == Service!Init /\ [][~reused' => Service!Next]_served

\* A record that timed out, was cancelled or was lost does not time out (again)
\* until its id is handed out again.  From then on it may: the thread, or the
\* record it was copied over, still has the copy, and the test for its id finds
\* the new record.
FateIsFinal ==
  [][\A n \in DOMAIN log :
       log[n].fate # "live" /\ ~Superseded(n) => log'[n].fate = log[n].fate]_vars

Stuck == mutex = "stuck" \/ pc = "stuck"

\* A record that is alone in the book times out, unless it gets company, is
\* cancelled or the object is stopped, or a caller or a slot waits for itself.
LoneRecordFires ==
  \A k \in Ids :
    (Keys = {k} /\ book[k].id = k) ~> (Keys # {k} \/ ~running \/ Stuck)

\* The destructor returns if there is a record to wake up for, or if the
\* thread is not about to wait for the first one, and no slot has called back.
StopReturns ==
  (owner = "join" /\ (Keys # {} \/ pc \notin {"parkEmpty", "blockedEmpty"}))
    ~> (owner = "destroyed" \/ pc = "stuck")
=============================================================================
