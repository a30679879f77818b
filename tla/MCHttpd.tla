------------------------------- MODULE MCHttpd -------------------------------
(* Values for the runs of the web server.                                    *)
EXTENDS Httpd

MCChildren == {1, 2}
=============================================================================
