-------------------------------- MODULE MCFtp --------------------------------
(* Values for the run of the FTP client.                                     *)
EXTENDS Ftp

MCBegins == {150}
=============================================================================
