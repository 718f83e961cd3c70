-------------------------- MODULE MCRequestParser --------------------------
(***************************************************************************)
(* RequestParser on all requests with up to three headers and a body of    *)
(* two cells, cut in every way.                                            *)
(***************************************************************************)
EXTENDS RequestParser
=============================================================================
