------------------------------- MODULE MCLog -------------------------------
(***************************************************************************)
(* Log, with BlockQueue inside, for two or three writers.                  *)
(***************************************************************************)
EXTENDS Log

LineItems == Writers \X (1 .. MaxLines)
=============================================================================
