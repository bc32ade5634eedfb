--------------------------- MODULE MCHttpHandler ---------------------------
(***************************************************************************)
(* Instances of HttpHandler for TLC: every sequence of up to three         *)
(* requests of every kind to two targets.                                  *)
(***************************************************************************)
EXTENDS HttpHandler, SequencesExt

CONSTANTS t1, t2

Request == [kind : {"forward"}, target : Targets] \union [kind : {"nohost", "connect"}, target : {t1}]

MCScripts == BoundedSeq(Request, 3)
=============================================================================
