---------------------------- MODULE MCJsonParser ----------------------------
(***************************************************************************)
(* JsonParser for TLC: every leaf, every container of up to two leaves,    *)
(* and of some of those.                                                   *)
(***************************************************************************)
EXTENDS JsonParser

MCLeaves ==
  {Invalid, Null, Bool("true"), String("a"), String(Slashed),
   Number("int", "1"), Number("int", "-1"), Number("int", Million), Number("int", Wide),
   Number("float", "-1.5"), Number("float", Million), Number("double", Fine)}

Containers(S) ==
  {List(s) : s \in BoundedSeq(S, 2)}
    \cup {Map(f) : f \in UNION {[D -> S] : D \in SUBSET Strings}}

MCValues ==
  MCLeaves \cup Containers(MCLeaves)
    \cup Containers({Number("int", "1")} \cup Containers({Null, Number("double", "-1")}))
=============================================================================
