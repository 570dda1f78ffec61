---------------------------- MODULE TimerService ----------------------------
(***************************************************************************)
(* What TimeKeeper and combined_timer promise to the code that sets their  *)
(* timers: each timer that is set runs until it is stopped or its time has *)
(* passed, never expires before, and is over after that, unless it is      *)
(* periodic and begins again.  No timer touches another, except one that   *)
(* takes the place of an older one.                                        *)
(***************************************************************************)
EXTENDS Integers, Sequences

CONSTANTS
  Orders,       \* what a timer may be set to: [left, period], period Once if
                \* it is not periodic
  MayReplace    \* whether a timer that is set may take another one's place

VARIABLE timers \* the timers set, in order: [state, left, period]

Once == -1
Set(order) == [state |-> "running", left |-> order.left, period |-> order.period]
Over(how) == [state |-> how, left |-> 0, period |-> Once]
Running == {n \in DOMAIN timers : timers[n].state = "running"}

Init == timers = <<>>

Begin == \E o \in Orders : timers' = Append(timers, Set(o))

Replace ==
  /\ MayReplace
  /\ \E o \in Orders, n \in Running :
       timers' = Append([timers EXCEPT ![n] = Over("stopped")], Set(o))

Stop == \E n \in Running : timers' = [timers EXCEPT ![n] = Over("stopped")]

Expire ==
  \E n \in Running :
    /\ timers[n].left <= 0
    /\ timers' = [timers EXCEPT ![n] =
                    IF @.period = Once THEN Over("expired") ELSE [@ EXCEPT !.left = timers[n].period]]

Tick ==
  timers' = [n \in DOMAIN timers |->
               IF n \in Running THEN [timers[n] EXCEPT !.left = @ - 1] ELSE timers[n]]

Next == Begin \/ Replace \/ Stop \/ Expire \/ Tick

Spec == Init /\ [][Next]_timers
=============================================================================
