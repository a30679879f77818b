------------------------------ MODULE MCTaskPort ------------------------------
(* Values for the run of the task interface.                                 *)
EXTENDS TaskPort

MCApps == {"shell", "server"}
MCOps == {"sockread", "resolve"}
=============================================================================
