-------------------------- MODULE MCHttpResponse --------------------------
(***************************************************************************)
(* HttpResponse on a few responses, with files of up to two cells, sent in *)
(* every way.                                                              *)
(***************************************************************************)
EXTENDS HttpResponse
=============================================================================
