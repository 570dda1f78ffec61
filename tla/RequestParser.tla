---------------------------- MODULE RequestParser ----------------------------
(***************************************************************************)
(* RequestParser_v1x (HttpServer/RequestParser.h, .cpp) behind its         *)
(* synchronous interface: received data is appended to a buffer, which is  *)
(* parsed from its beginning.  Data is a sequence of whole lines, told     *)
(* apart by what the parser makes of them.                                 *)
(*                                                                         *)
(* getString and toLower write behind the end of an empty string and leave *)
(* it empty; the model takes that write to be harmless.  So all headers    *)
(* share one entry and none has a value: the look-up of the content size   *)
(* throws when there was no header, and never finds a body to read.        *)
(***************************************************************************)
EXTENDS Naturals, Sequences

CONSTANT MaxLines       \* bound: lines received

\* A request line with a query, or without one; a header; the empty line.
Lines == {"query", "plain", "header", "blank"}
Data == UNION {[1..n -> Lines] : n \in 1..MaxLines}

VARIABLES
  buffer,       \* _buffer
  status,       \* _parsingStatus, between two calls
  header,       \* whether _requestInProduction has a header entry
  answer        \* what the last call came to

vars == <<buffer, status, header, answer>>

Init ==
  /\ buffer = <<>>
  /\ status = "REQUEST_LINE"
  /\ header = FALSE
  /\ answer = "nothing"

\* parseRequestLine: without a query, parsePathAndQuery stops in front of the
\* space, and the version behind it is not recognised.
RequestLineOk(b) == b[1] = "query"

\* parseHeader: where the header lines from the i-th line on may end.
HeaderEnds(b, i) ==
  {j \in i..Len(b) : b[j] = "blank" /\ \A k \in i..j - 1 : b[k] = "header"}

\* parse()
Parse(b) ==
  LET first == IF status = "REQUEST_LINE" THEN 2 ELSE 1
      ends == HeaderEnds(b, first)
      failed == \/ status = "ERROR"
                \/ status = "REQUEST_LINE" /\ ~RequestLineOk(b)
                \/ ends = {}
      any == header \/ first \notin ends
  IN
  \/ /\ failed
     /\ status' = "ERROR"
     /\ answer' = "nothing"
     /\ UNCHANGED header
  \/ /\ ~failed /\ any
     /\ status' = "REQUEST_LINE"
     /\ answer' = "request"
     /\ header' = FALSE
  \/ /\ ~failed /\ ~any
     /\ status' = "HEADER_LINES"
     /\ answer' = "exception"
     /\ UNCHANGED header

\* newIncomingData with data that was received.
Receive(d) ==
  /\ answer = "nothing"
  /\ Len(buffer) + Len(d) <= MaxLines
  /\ buffer' = buffer \o d
  /\ Parse(buffer')

\* RequestParser.h:35: after each request it is called again, without data.
CallAgain ==
  /\ answer = "request"
  /\ Parse(buffer)
  /\ UNCHANGED buffer

\* The caller catches the exception.
Catch ==
  /\ answer = "exception"
  /\ answer' = "nothing"
  /\ UNCHANGED <<buffer, status, header>>

Next == CallAgain \/ Catch \/ \E d \in Data : Receive(d)

Spec == Init /\ [][Next]_vars

\* The caller does call again.
FairSpec == Spec /\ WF_vars(CallAgain) /\ WF_vars(Catch)

-----------------------------------------------------------------------------
\* RequestParser.h:35: newIncomingData can be called until there is no
\* request: a caller that does so comes to an end.
CallsEnd == (answer = "request") ~> (answer # "request")
=============================================================================
