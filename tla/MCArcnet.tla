------------------------------- MODULE MCArcnet -------------------------------
(* Values for the ARCNET transport's run: lengths on both sides of every     *)
(* boundary of the frame layout.                                             *)
EXTENDS Arcnet

MCOthers == {2}
MCLens == {252, 255, 256, 507, 512}
=============================================================================
