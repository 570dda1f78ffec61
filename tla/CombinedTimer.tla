---------------------------- MODULE CombinedTimer ----------------------------
(***************************************************************************)
(* combined_timer (timers/combined_timer.h, .cpp): many timers on one      *)
(* thread.  addTimer and stopTimer stop the thread and wait for it, change *)
(* the map of timers, and start it again.                                  *)
(*                                                                         *)
(* One thread calls the object, which takes no lock in addTimer; a slot of  *)
(* timeout may call it back, once.  Time is relative: a timer holds what   *)
(* is left until it expires, negative once it is late.                     *)
(***************************************************************************)
EXTENDS Integers, Sequences

CONSTANTS
  LowId, MaxId, \* timer ids are -LowId..MaxId: int16_t in the code
  Durations,    \* the durations the program passes to addTimer
  MaxTimers,    \* bound: number of timers added
  MaxLate       \* bound: how late a timer may become before time goes on

ASSUME CombinedTimerAssumption ==
  /\ LowId \in Nat \ {0} /\ MaxId \in Nat
  /\ Durations \subseteq Nat
  /\ MaxTimers \in Nat /\ MaxLate \in Nat \ {0}

Ids == -LowId..MaxId

VARIABLES
  timers,       \* _timeKeeperMap: [periodic, duration, left] for some ids
  lastId,       \* _lastTimerId
  stopped,      \* _stopped
  pc,           \* the timer thread: "done" when it can be joined at once
  cur,          \* run()'s copy of the closest timer, with its id
  client,       \* the call in progress: what it is, and where it stands
  added,        \* the timers handed out: id, and what became of them
  emitted       \* the timer timeout was just emitted for, 0 for none

vars == <<timers, lastId, stopped, pc, cur, client, added, emitted>>

Keys == DOMAIN timers
Without(k) == [i \in Keys \ {k} |-> timers[i]]
With(k, tm) == [i \in Keys \cup {k} |-> IF i = k THEN tm ELSE timers[i]]
Idle == [op |-> "none", id |-> 0, at |-> "idle"]

Init ==
  /\ timers = [i \in {} |-> 0]
  /\ lastId = 0
  /\ stopped = TRUE
  /\ pc = "done"
  /\ cur = [id |-> 0, periodic |-> FALSE, duration |-> 0, left |-> 0]
  /\ client = Idle
  /\ added = <<>>
  /\ emitted = 0

\* Time passes, but not beyond what a thread that runs can make up for.
Tick ==
  /\ \A k \in Keys : timers[k].left > -MaxLate
  /\ timers' = [k \in Keys |-> [timers[k] EXCEPT !.left = @ - 1]]
  /\ cur' = [cur EXCEPT !.left = IF @ > -MaxLate THEN @ - 1 ELSE @]
  /\ UNCHANGED <<lastId, stopped, pc, client, added, emitted>>

-----------------------------------------------------------------------------
(* addTimer, stopTimer, ~combined_timer                                    *)

\* The latest timer that was given an id.
Latest(id) ==
  CHOOSE n \in DOMAIN added :
    added[n].id = id /\ \A k \in n + 1..Len(added) : added[k].id # id

\* A call begins with stop(): the flag is set, then the thread notified.
\* stopTimer looks for the id first, under _dataMutex.
CallAdd(d, periodic) ==
  /\ Len(added) < MaxTimers
  /\ client' = [op |-> "add", id |-> lastId, at |-> "notify",
                timer |-> [periodic |-> periodic, duration |-> d, left |-> d]]

CallStop(id) ==
  /\ id \in Keys
  /\ pc \notin {"emit", "stuck"}
  /\ client' = [op |-> "stop", id |-> id, at |-> "notify"]

CallDestroy == client' = [op |-> "destroy", id |-> 0, at |-> "notify"]

Call ==
  /\ client.at = "idle"
  /\ \/ \E d \in Durations, periodic \in BOOLEAN : CallAdd(d, periodic)
     \/ \E id \in Ids : CallStop(id)
     \/ CallDestroy
  /\ stopped' = TRUE
  /\ UNCHANGED <<timers, lastId, pc, cur, added, emitted>>

Notify ==
  /\ client.at = "notify"
  /\ client' = [client EXCEPT !.at = "join"]
  /\ pc' = IF pc = "blocked" THEN "eval" ELSE pc
  /\ UNCHANGED <<timers, lastId, stopped, cur, added, emitted>>

\* join() returns
Joined == client.at = "join" /\ pc = "done"

\* start(): a new thread, or nothing left to run.
Start ==
  /\ stopped' = FALSE
  /\ pc' = "top"
  /\ client' = Idle

NextId == IF lastId = MaxId THEN -LowId ELSE lastId + 1

\* A timer whose id is still in use is replaced.
Add ==
  /\ Joined /\ client.op = "add"
  /\ lastId' = NextId
  /\ timers' = With(lastId, client.timer)
  /\ added' = Append([n \in DOMAIN added |->
                        IF lastId \in Keys /\ n = Latest(lastId)
                        THEN [added[n] EXCEPT !.fate = "replaced"] ELSE added[n]],
                     [id |-> lastId, fate |-> "live"])
  /\ Start
  /\ UNCHANGED <<cur, emitted>>

\* Mutant: the timer is removed under the thread, which is not stopped.
StopTimerInPlace ==
  /\ client.at = "join" /\ client.op = "stop"
  /\ timers' = Without(client.id)
  /\ added' = [added EXCEPT ![Latest(client.id)].fate =
                              IF @ = "live" THEN "stopped" ELSE @]
  /\ stopped' = FALSE
  /\ client' = Idle
  /\ UNCHANGED <<lastId, pc, cur, emitted>>

\* The timer may have expired between the search and the join.
StopTimer ==
  /\ Joined /\ client.op = "stop"
  /\ timers' = Without(client.id)
  /\ added' = [added EXCEPT ![Latest(client.id)].fate =
                              IF @ = "live" THEN "stopped" ELSE @]
  /\ Start
  /\ UNCHANGED <<lastId, cur, emitted>>

Destroy ==
  /\ Joined /\ client.op = "destroy"
  /\ client' = [client EXCEPT !.at = "destroyed"]
  /\ UNCHANGED <<timers, lastId, stopped, pc, cur, added, emitted>>

-----------------------------------------------------------------------------
(* run()                                                                   *)

\* getClosestTimerId: -1 also stands for an empty map.
IsClosest(id) ==
  \/ Keys = {} /\ id = -1
  \/ id \in Keys /\ \A k \in Keys : timers[id].left <= timers[k].left

Top ==
  /\ pc = "top"
  /\ emitted' = 0
  /\ IF stopped
     THEN pc' = "done" /\ UNCHANGED <<stopped, cur>>
     ELSE \E id \in Ids :
            /\ IsClosest(id)
            /\ IF id = -1
               THEN stopped' = TRUE /\ pc' = "done" /\ UNCHANGED cur
               ELSE /\ cur' = [id |-> id, periodic |-> timers[id].periodic,
                               duration |-> timers[id].duration, left |-> timers[id].left]
                    /\ pc' = "eval"
                    /\ UNCHANGED stopped
  /\ UNCHANGED <<timers, lastId, client, added>>

\* Mutant: the wait has no predicate.
EvalNothing ==
  /\ pc = "eval"
  /\ pc' \in {"after", "park"}
  /\ UNCHANGED <<timers, lastId, stopped, cur, client, added, emitted>>

\* The predicate of wait_until, and the wait, before which a notification
\* is not heard.
Eval ==
  /\ pc = "eval"
  /\ pc' = IF cur.left < 0 \/ stopped THEN "after" ELSE "park"
  /\ UNCHANGED <<timers, lastId, stopped, cur, client, added, emitted>>

Park ==
  /\ pc = "park"
  /\ pc' = "blocked"
  /\ UNCHANGED <<timers, lastId, stopped, cur, client, added, emitted>>

Spurious ==
  /\ pc = "blocked"
  /\ pc' = "eval"
  /\ UNCHANGED <<timers, lastId, stopped, cur, client, added, emitted>>

\* Mutant: the wait has no time limit.
LapseNever == pc = "blocked" /\ stopped /\ cur.left > cur.duration /\ UNCHANGED vars

Lapse ==
  /\ pc = "blocked" /\ cur.left <= 0
  /\ pc' = "after"
  /\ UNCHANGED <<timers, lastId, stopped, cur, client, added, emitted>>

\* Under _dataMutex: has the thread been stopped?
After ==
  /\ pc = "after"
  /\ pc' = IF stopped THEN "top" ELSE "emit"
  /\ UNCHANGED <<timers, lastId, stopped, cur, client, added, emitted>>

\* Mutant: a periodic timer keeps its old expiration date.
EmitKeepDate ==
  /\ pc = "emit"
  /\ pc' = "top"
  /\ emitted' = Latest(cur.id)
  /\ IF cur.periodic
     THEN UNCHANGED <<timers, added>>
     ELSE /\ timers' = Without(cur.id)
          /\ added' = [added EXCEPT ![Latest(cur.id)].fate = "expired"]
  /\ UNCHANGED <<lastId, stopped, cur, client>>

\* timeout is emitted; the timer begins again, or is removed.
Emit ==
  /\ pc = "emit"
  /\ pc' = "top"
  /\ emitted' = Latest(cur.id)
  /\ IF cur.periodic
     THEN /\ timers' = With(cur.id, [periodic |-> TRUE, duration |-> cur.duration,
                                     left |-> cur.duration])
          /\ UNCHANGED added
     ELSE /\ timers' = Without(cur.id)
          /\ added' = [added EXCEPT ![Latest(cur.id)].fate = "expired"]
  /\ UNCHANGED <<lastId, stopped, cur, client>>

\* The slot that is called calls back: stopTimer locks _dataMutex again, and
\* addTimer joins the thread it runs in, which ends the program.
CallBack ==
  /\ pc = "emit"
  /\ pc' = "stuck"
  /\ emitted' = Latest(cur.id)
  /\ UNCHANGED <<timers, lastId, stopped, cur, client, added>>

-----------------------------------------------------------------------------
Run == Top \/ Eval \/ Park \/ Lapse \/ After \/ Emit
Return == Notify \/ Add \/ StopTimer \/ Destroy

Next == Tick \/ Call \/ Return \/ Run \/ CallBack \/ Spurious

Spec == Init /\ [][Next]_vars

\* Time passes, the thread runs and calls go on; no call need ever begin.
Fairness == WF_vars(Tick) /\ WF_vars(Return) /\ WF_vars(Run)

FairSpec == Spec /\ Fairness

-----------------------------------------------------------------------------
TypeOK ==
  /\ Keys \subseteq Ids
  /\ \A k \in Keys : timers[k].left \in -MaxLate..timers[k].duration
  /\ lastId \in Ids /\ cur.id \in Ids
  /\ stopped \in BOOLEAN
  /\ pc \in {"done", "top", "eval", "park", "blocked", "after", "emit", "stuck"}
  /\ client.at \in {"idle", "notify", "join", "destroyed"}
  /\ emitted \in 0..Len(added)

Live == {n \in DOMAIN added : added[n].fate = "live"}

\* The map holds exactly the timers that were neither stopped nor replaced
\* and, unless they are periodic, have not expired.
MapIsLive ==
  /\ Keys = {added[n].id : n \in Live}
  /\ \A m, n \in Live : added[m].id = added[n].id => m = n

\* What addTimer handed out, as the program sees it: how long each timer still
\* has to run, or how it ended.
served ==
  [n \in DOMAIN added |->
     IF added[n].fate = "live"
     THEN LET t == timers[added[n].id] IN
          [state |-> "running", left |-> t.left,
           period |-> IF t.periodic THEN t.duration ELSE -1]
     ELSE [state |-> IF added[n].fate = "expired" THEN "expired" ELSE "stopped",
           left |-> 0, period |-> -1]]

\* addTimer, stopTimer and the thread together are a timer service: whatever
\* ids wrap, and whatever timer the thread copied before the map was changed,
\* each timer keeps its own time, ends once, and for its own reason.
Service == INSTANCE TimerService WITH
  timers <- served,
  Orders <- {[left |-> d, period |-> IF p THEN d ELSE -1] : d \in Durations, p \in BOOLEAN},
  MayReplace <- TRUE
RefinesService == Service!Spec

\* A timer that is stopped when stopTimer returns, or has expired, never
\* emits timeout again, although the thread works on a copy of it.
StoppedIsSilent ==
  [][\A n \in DOMAIN added :
       added[n].fate # "live" => emitted' # n \/ emitted = n]_vars

\* No timer expires early, whatever wakes the thread up.
NeverEarly ==
  [][emitted' \notin {0, emitted} => timers[added[emitted'].id].left <= 0]_vars

\* The id -1 makes the thread believe that there are no timers.
Silenced == -1 \in Keys

\* Nothing due is slept over.  Between two calls the thread has only ended of
\* itself, for want of a timer or because of the id -1; and it never waits for
\* longer than until the timer that expires first, whatever was added,
\* stopped, replaced or restarted since it last looked.
NeverOversleeps ==
  /\ client.at = "idle" /\ pc = "done" => Keys = {} \/ Silenced
  /\ pc \in {"park", "blocked"} =>
       cur.id \in Keys /\ \A k \in Keys : cur.left <= timers[k].left

\* Every timer expires, a periodic one again and again, however many others
\* are added, stopped or due; until a timer is given the id -1, or a slot
\* calls back.
EveryTimerExpires ==
  \A n \in 1..MaxTimers :
    (n \in Live) ~> (emitted = n \/ n \notin Live \/ Silenced \/ client.op = "destroy"
                        \/ pc = "stuck")

\* addTimer, stopTimer and the destructor return, also when their
\* notification is lost: the thread's wait has a time limit.  Only a slot
\* that calls back holds them up.
CallsReturn ==
  (client.at = "join") ~> (client.at \in {"idle", "destroyed"} \/ pc = "stuck")
=============================================================================
