---------------------------- MODULE MCThreadPool ----------------------------
(***************************************************************************)
(* ThreadPool on a small instance: two workers, the one calling thread of  *)
(* the program, a queue that a burst of calls overfills.                   *)
(***************************************************************************)
EXTENDS ThreadPool
=============================================================================
