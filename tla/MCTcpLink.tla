----------------------------- MODULE MCTcpLink -----------------------------
(***************************************************************************)
(* TcpLink for the model checker.                                          *)
(***************************************************************************)
EXTENDS TcpLink, TLC

\* Who writes how much.
ClientOnly == Client :> 2 @@ Server :> 0
BothWays   == Client :> 1 @@ Server :> 1
ClientMore == Client :> 2 @@ Server :> 1
=============================================================================
