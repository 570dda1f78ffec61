----------------------------- MODULE ByteStream -----------------------------
(***************************************************************************)
(* What a TcpSocket promises to the code that reads from it: a stream of   *)
(* data.  What the peer sends arrives in order and once, and what has      *)
(* arrived is handed out, whatever becomes of the connection; only what    *)
(* has not arrived when the connection ends may be lost.                   *)
(***************************************************************************)
EXTENDS Naturals, Sequences

CONSTANT Data           \* what the peer may send, unit by unit

VARIABLES
  sent,                 \* what the peer has sent
  kept,                 \* the part of it that is not lost
  arrived,              \* the part of that the object has received
  delivered,            \* the part of that its user was given
  up                    \* whether the connection stands

streamVars == <<sent, kept, arrived, delivered, up>>

Init ==
  /\ sent = <<>> /\ kept = <<>> /\ arrived = <<>> /\ delivered = <<>>
  /\ up \in BOOLEAN

Send ==
  /\ up
  /\ \E d \in Data : sent' = Append(sent, d) /\ kept' = Append(kept, d)
  /\ UNCHANGED <<arrived, delivered, up>>

Arrive ==
  /\ \E n \in Len(arrived) + 1..Len(kept) : arrived' = SubSeq(kept, 1, n)
  /\ UNCHANGED <<sent, kept, delivered, up>>

Deliver ==
  /\ delivered' = arrived
  /\ UNCHANGED <<sent, kept, arrived, up>>

\* The connection ends, or what it left behind is dropped.
End ==
  /\ up' = FALSE
  /\ kept' \in {kept, arrived}
  /\ UNCHANGED <<sent, arrived, delivered>>

Next == Send \/ Arrive \/ Deliver \/ End

Spec == Init /\ [][Next]_streamVars
=============================================================================
