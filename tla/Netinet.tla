------------------------------ MODULE Netinet ------------------------------
(***************************************************************************)
(* Socket states and segment flags, with the values netinet.h and socket.h *)
(* give them: the code compares states by value (state > STATE_UDP, state  *)
(* < STATE_FINWAIT1), so the order matters.                                *)
(***************************************************************************)
EXTENDS Naturals

STATE_CLOSED       == 0
STATE_BIND         == 1
STATE_BOUND        == 2
STATE_LISTEN       == 3
STATE_NOTINIT      == 6
STATE_UDP          == 15
STATE_SYN_SENT     == 16
STATE_SYN_RECEIVED == 32
STATE_ESTABLISHED  == 64
STATE_CLOSEWAIT    == 128
STATE_CLOSING      == 129
STATE_FINWAIT1     == 130
STATE_FINWAIT2     == 131
STATE_LAST_ACK     == 132
STATE_PEER_RESET   == 254
STATE_TIME_WAIT    == 255

States ==
  {STATE_CLOSED, STATE_BIND, STATE_BOUND, STATE_LISTEN, STATE_NOTINIT,
   STATE_UDP, STATE_SYN_SENT, STATE_SYN_RECEIVED, STATE_ESTABLISHED,
   STATE_CLOSEWAIT, STATE_CLOSING, STATE_FINWAIT1, STATE_FINWAIT2,
   STATE_LAST_ACK, STATE_PEER_RESET, STATE_TIME_WAIT}

ACK == "ACK"
PSH == "PSH"
RST == "RST"
SYN == "SYN"
FIN == "FIN"

Flags == {ACK, PSH, RST, SYN, FIN}
=============================================================================
