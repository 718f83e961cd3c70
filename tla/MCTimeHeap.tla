---------------------------- MODULE MCTimeHeap ----------------------------
(***************************************************************************)
(* TimeHeap with five timers: three levels of the heap, and three resizes  *)
(* on the way.                                                             *)
(***************************************************************************)
EXTENDS TimeHeap
=============================================================================
