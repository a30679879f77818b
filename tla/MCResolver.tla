------------------------------ MODULE MCResolver ------------------------------
(* Values for the run of the datagram sockets and the resolver.  A program's *)
(* socket and a lookup share nothing but the stack, so each is explored with *)
(* the other at its beginning.                                               *)
EXTENDS UdpQueue, Resolver

MCNames == {"a", "b"}
MCLengths == {0, 1, 3}

Sockets == UdpNext /\ asked = NULL /\ UNCHANGED vars
Lookups == Next /\ udp = Fresh /\ taken = -1 /\ ~astray /\ UNCHANGED udpVars

MCInit == UdpInit /\ Init

MCSpec == /\ MCInit /\ [][Sockets \/ Lookups]_<<udpVars, vars>>
          /\ WF_vars(FindHost) /\ WF_vars(Network)
=============================================================================
