----------------------------- MODULE MCSqlPool -----------------------------
(***************************************************************************)
(* SqlPool with more threads than connections, so that the semaphore       *)
(* blocks and the list is found empty.                                     *)
(***************************************************************************)
EXTENDS SqlPool
=============================================================================
