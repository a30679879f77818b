------------------------------ MODULE MCDosUart ------------------------------
(* Values for the run of the serial driver.                                  *)
EXTENDS DosUart

MCBytes == {0, 1}
=============================================================================
