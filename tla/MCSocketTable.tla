--------------------------- MODULE MCSocketTable ---------------------------
(***************************************************************************)
(* SocketTable for the model checker.                                      *)
(***************************************************************************)
EXTENDS SocketTable
=============================================================================
