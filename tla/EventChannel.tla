---------------------------- MODULE EventChannel ----------------------------
(***************************************************************************)
(* What br_threaded_object promises to the code that posts events to it:   *)
(* an ordered channel.  Events are accepted one after the other, each is   *)
(* run at most once and in the order of acceptance, and once the object    *)
(* has been told to stop at most one more event is begun.                  *)
(***************************************************************************)
EXTENDS Naturals, Sequences

CONSTANT Event          \* the events that may be posted

VARIABLES
  log,                  \* the events accepted, in order
  delivered,            \* the events begun, in order
  open,                 \* FALSE once the object was told to stop
  grace                 \* TRUE while one more event may begin after the stop

chanVars == <<log, delivered, open, grace>>

Init ==
  /\ log = <<>>
  /\ delivered = <<>>
  /\ open = TRUE
  /\ grace = TRUE

Accept ==
  /\ \E e \in Event \ {log[i] : i \in DOMAIN log} : log' = Append(log, e)
  /\ UNCHANGED <<delivered, open, grace>>

Deliver ==
  /\ Len(delivered) < Len(log)
  /\ open \/ grace
  /\ delivered' = Append(delivered, log[Len(delivered) + 1])
  /\ grace' = open
  /\ UNCHANGED <<log, open>>

Close ==
  /\ open
  /\ open' = FALSE
  /\ UNCHANGED <<log, delivered, grace>>

Next == Accept \/ Deliver \/ Close

Spec == Init /\ [][Next]_chanVars
=============================================================================
