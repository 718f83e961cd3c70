---------------------------- MODULE MCIdleTimer ----------------------------
(***************************************************************************)
(* IdleTimer with two descriptors that three connections use in turn, and  *)
(* a heap of at most six cells.                                            *)
(***************************************************************************)
EXTENDS IdleTimer
=============================================================================
