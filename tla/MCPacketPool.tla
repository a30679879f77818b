----------------------------- MODULE MCPacketPool -----------------------------
(* Values for the packet buffers' runs.                                      *)
EXTENDS PacketPool

MCIds == {1}
=============================================================================
