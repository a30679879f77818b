----------------------------- MODULE MCRecvRing -----------------------------
(***************************************************************************)
(* RecvRing for the model checker, and the slips the properties catch.     *)
(***************************************************************************)
EXTENDS RecvRing
=============================================================================
