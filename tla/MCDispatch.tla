----------------------------- MODULE MCDispatch -----------------------------
(***************************************************************************)
(* A small world for Dispatch: two loops A and B and one other thread.     *)
(* Signal s1 and slot l1 belong to A, slot l2 to B, signal s2 has no       *)
(* parent.  The function of l2 may answer by emitting either signal, that  *)
(* of l1 by emitting s1, which calls it: an emission within an emission.   *)
(***************************************************************************)
EXTENDS Dispatch, TLC
CONSTANTS s1, s2, l1, l2, A, B

MCHome == s1 :> A @@ s2 :> NoParent @@ l1 :> A @@ l2 :> B
MCReacts == l1 :> {s1} @@ l2 :> {s1, s2}
=============================================================================
