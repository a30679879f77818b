------------------------------ MODULE TcpLink ------------------------------
(***************************************************************************)
(* Two hosts running the stack, one connection: Client opens it, Server    *)
(* has one listening child of a bound socket.  Each host is one thread     *)
(* that polls: a program's call runs to its end, or to its schedulestuff   *)
(* loop, and every turn of such a loop checks a socket or handles a        *)
(* segment.  The link may lose segments and, when it is a routed network   *)
(* (Routed), repeat and reorder them too.                                  *)
(***************************************************************************)
EXTENDS TcpSocket, FiniteSets, SequencesExt

CONSTANTS
  Client, Server,   \* the two hosts
  Total,            \* Total[h]: bytes the program on h writes
  Isn,              \* values isnclock may have
  Routed,           \* TRUE: segments may be repeated, reordered, very late
  MaxNet,           \* BUFFERS: segments the packet buffers hold for one peer
  MaxLoss,          \* bound: segments lost on a serial link
  Steady,           \* TRUE: none is lost while the connection is being opened
  Hasty,            \* TRUE: a timer may expire while an answer is under way;
                    \* FALSE on a routed network: none expires
  Waits,            \* the hosts whose program reads until the peer closes
  Eager             \* TRUE: programs may close at any time

Host == {Client, Server}
Peer(h) == IF h = Client THEN Server ELSE Client

ASSUME LinkAssumption ==
  /\ Client # Server
  /\ Total \in [Host -> Nat]
  /\ Isn # {} /\ Isn \subseteq 0..(SeqSpace - 1)
  /\ Routed \in BOOLEAN /\ MaxNet \in Nat /\ MaxLoss \in Nat
  /\ Steady \in BOOLEAN /\ Hasty \in BOOLEAN /\ Eager \in BOOLEAN
  /\ Waits \subseteq Host

VARIABLES
  sk,     \* sk[h]: the socket (TcpSocket)
  app,    \* app[h]: where the program is with its descriptor
  wrote,  \* wrote[h]: bytes the program has written
  got,    \* got[h]: bytes the program has read
  net,    \* net[h]: segments on their way to h, a sequence on a serial link,
          \* on a routed one the set of all that were ever sent
  up,     \* up[h]: the program has not been ended by exit(1)
  poll,   \* poll[h]: the schedulestuff call in which h closes has not yet
          \* come past check_sockets
  lost    \* segments lost

vars == <<sk, app, wrote, got, net, up, poll, lost>>

\* idle: no descriptor; opening: in the loop of sockconnect; open; failed:
\* connect returned -1; flushing: in the loop of flushsocket; fin: flushed,
\* FIN not yet sent; last: FIN sent, not yet nuked; closed.
AppStates == {"idle", "opening", "open", "failed", "flushing", "fin", "last", "closed"}

\* A listening child as AJK_listen leaves it.
Child == [Blank EXCEPT !.st = STATE_LISTEN, !.par = TRUE, !.own = TRUE]

Init ==
  /\ sk = [h \in Host |-> IF h = Server THEN Child ELSE Blank]
  /\ app = [h \in Host |-> "idle"]
  /\ wrote = [h \in Host |-> 0]
  /\ got = [h \in Host |-> 0]
  /\ net = [h \in Host |-> IF Routed THEN {} ELSE << >>]
  /\ up = [h \in Host |-> TRUE]
  /\ poll = [h \in Host |-> TRUE]
  /\ lost = 0
-----------------------------------------------------------------------------
\* Segments are sent; one that finds no free packet buffer is not.  (A
\* routed network never forgets a segment, and takes MaxNet in all.)
Transmit(q, ms) ==
  IF Routed THEN IF Cardinality(q \cup ToSet(ms)) > MaxNet THEN q ELSE q \cup ToSet(ms)
  ELSE LET all == q \o ms
       IN  SubSeq(all, 1, IF Len(all) > MaxNet THEN MaxNet ELSE Len(all))

\* Host h does what operator result r says, having taken from queue q.
Apply(h, r, q) ==
  /\ sk' = [sk EXCEPT ![h] = r.c]
  /\ up' = [up EXCEPT ![h] = r.up]
  /\ net' = [net EXCEPT ![h] = q, ![Peer(h)] = Transmit(@, r.out)]

\* Past the loop of flushsocket only one schedulestuff call is left before
\* the next statement: one visit of check_sockets, then the receiver.
Closing(h) == app[h] \in {"fin", "last"}

\* A segment reaches host h and goes through tcp().
Receive(h, m, q) ==
  /\ up[h]
  /\ \E isn \in Isn : Apply(h, Tcp(sk[h], m, isn), q)
  /\ poll' = [poll EXCEPT ![h] = ~Closing(h)]
  /\ UNCHANGED <<app, wrote, got, lost>>

DeliverNext(h) == ~Routed /\ net[h] # << >> /\ Receive(h, Head(net[h]), Tail(net[h]))

DeliverAny(h) == Routed /\ \E m \in net[h] : Receive(h, m, net[h])

\* The line garbles a segment; a checksum fails and it is dropped.
Lose(h) ==
  /\ ~Routed /\ net[h] # << >> /\ lost < MaxLoss
  /\ Steady => \A g \in Host : app[g] \notin {"idle", "opening"}
  /\ net' = [net EXCEPT ![h] = Tail(@)]
  /\ lost' = lost + 1
  /\ UNCHANGED <<sk, app, wrote, got, up, poll>>

\* check_sockets comes to the socket; its timer may have expired.
Check(h, expired) ==
  /\ up[h]
  /\ Closing(h) => poll[h]
  /\ app[h] = "flushing" => ~Flushed(sk[h])
  /\ expired => sk[h].exp
  /\ expired /\ ~Hasty => ~Routed /\ \A g \in Host : up[g] => net[g] = << >>
  /\ CheckSockets(sk[h], expired) # Done(sk[h])
  /\ Apply(h, CheckSockets(sk[h], expired), net[h])
  /\ poll' = [poll EXCEPT ![h] = ~Closing(h)]
  /\ UNCHANGED <<app, wrote, got, lost>>
-----------------------------------------------------------------------------
\* The program moves on; its socket changes by r.
Program(h, from, to, r) ==
  /\ up[h]
  /\ app[h] = from
  /\ app' = [app EXCEPT ![h] = to]
  /\ Apply(h, r, net[h])
  /\ poll' = [poll EXCEPT ![h] = TRUE]
  /\ UNCHANGED lost

\* AJK_connect up to its loop, and the two ways out of the loop.
Connect ==
  /\ \E isn \in Isn : Program(Client, "idle", "opening", TcpOpen(sk[Client], isn))
  /\ UNCHANGED <<wrote, got>>

Connected ==
  /\ sk[Client].st \in {STATE_CLOSED, STATE_ESTABLISHED}
  /\ Program(Client, "opening", IF sk[Client].st = STATE_CLOSED THEN "failed" ELSE "open",
             Done(sk[Client]))
  /\ UNCHANGED <<wrote, got>>

\* AJK_accept finds the child connected and takes it out of the ring.
Accept ==
  /\ sk[Server].st = STATE_ESTABLISHED
  /\ Program(Server, "idle", "open", Done(sk[Server]))
  /\ UNCHANGED <<wrote, got>>

\* AJK_sockwrite.
Write(h) ==
  \E n \in 1..(Total[h] - wrote[h]) :
    LET c == WriteTcpBytes(sk[h], n) IN
    /\ c # sk[h]
    /\ Program(h, "open", "open", Done(c))
    /\ wrote' = [wrote EXCEPT ![h] = @ + c.wcount - sk[h].wcount]
    /\ UNCHANGED got

\* AJK_sockread; with nothing to read it still pushes waiting bytes.
\* (Bound: who has read more than was written does not read on.)
Read(h) ==
  \E n \in 0..sk[h].rcount :
    /\ got[h] <= Total[Peer(h)]
    /\ Program(h, "open", "open", SockRead(sk[h], n))
    /\ got' = [got EXCEPT ![h] = @ + n]
    /\ UNCHANGED wrote

\* What programs wait for before they close: their work is done, or reads
\* and writes return errors.  Some, like daemon.c's, wait for the error.
Finished(h) ==
  \/ h \notin Waits /\ wrote[h] = Total[h] /\ got[h] >= Total[Peer(h)]
  \/ sk[h].st # STATE_ESTABLISHED /\ sk[h].rcount = 0

\* AJK_sockclose: a socket that is not connected any more is nuked; else
\* flushsocket loops if it must, and the FIN follows.  The programs close
\* the descriptor after a failed connect too.
Close(h) ==
  /\ Eager \/ Finished(h)
  /\ LET c == [sk[h] EXCEPT !.rcount = 0]
         gone == c.st < STATE_ESTABLISHED
         to == IF gone THEN "closed" ELSE IF Flushed(c) THEN "fin" ELSE "flushing"
     IN  \E from \in {"open", "failed"} :
           Program(h, from, to, Done(IF gone THEN Nuke(c) ELSE c))
  /\ UNCHANGED <<wrote, got>>

\* The loop ends; schedulestuff runs once more.
Flush(h) ==
  /\ Flushed(sk[h])
  /\ Program(h, "flushing", "fin", Done(sk[h]))
  /\ UNCHANGED <<wrote, got>>

\* The FIN is sent; schedulestuff runs once more.
Fin(h) ==
  /\ IF sk[h].st = STATE_PEER_RESET
       THEN Program(h, "fin", "closed", SendFin(sk[h]))
       ELSE Program(h, "fin", "last", SendFin(sk[h]))
  /\ UNCHANGED <<wrote, got>>

\* nukeit.
CloseEnds(h) ==
  /\ Program(h, "last", "closed", Done(Nuke(sk[h])))
  /\ UNCHANGED <<wrote, got>>

\* Nothing is left to do.
Idle ==
  /\ \A h \in Host : ~up[h] \/ app[h] \in {"idle", "closed"}
  /\ UNCHANGED vars

Next ==
  \/ Connect \/ Connected \/ Accept \/ Idle
  \/ \E h \in Host : \/ DeliverNext(h) \/ DeliverAny(h) \/ Lose(h)
                     \/ Check(h, FALSE) \/ Check(h, TRUE)
                     \/ Write(h) \/ Read(h) \/ Close(h)
                     \/ Flush(h) \/ Fin(h) \/ CloseEnds(h)

Spec == Init /\ [][Next]_vars
-----------------------------------------------------------------------------
TypeOK ==
  /\ \A h \in Host :
       /\ sk[h].st \in States /\ sk[h].flags \subseteq Flags
       /\ {sk[h].par, sk[h].ip, sk[h].own, sk[h].dfree, sk[h].intact, sk[h].exp} \subseteq BOOLEAN
       /\ {sk[h].seq, sk[h].ack} \subseteq 0..(SeqSpace - 1)
       /\ {sk[h].base, sk[h].taken} \subseteq Nat
       /\ sk[h].wcount \in 0..MaxTailW
       /\ sk[h].rcount \in Nat
       /\ sk[h].dlen \in Int /\ sk[h].err \in 0..(MaxErr + 1)
  /\ app \in [Host -> AppStates]
  /\ wrote \in [Host -> Nat] /\ got \in [Host -> Nat]
  /\ up \in [Host -> BOOLEAN] /\ poll \in [Host -> BOOLEAN]
  /\ lost \in 0..MaxLoss

\* The stack and the program on each host keep running.
Stack(h) == DeliverNext(h) \/ DeliverAny(h) \/ Check(h, FALSE) \/ Check(h, TRUE)

Work(h) ==
  \/ Write(h) \/ Read(h) \/ Close(h) \/ Flush(h) \/ Fin(h) \/ CloseEnds(h)
  \/ (h = Client /\ (Connect \/ Connected))
  \/ (h = Server /\ Accept)

FairSpec ==
  /\ Spec
  /\ \A h \in Host : WF_vars(Stack(h)) /\ WF_vars(Work(h))
-----------------------------------------------------------------------------
\* What processtcpdata accepts is the stream the other program wrote, byte
\* for byte, whatever was lost, sent again or late: a segment is taken only
\* where it belongs, although nothing but 32-bit numbers says where that is.
StreamIntact == \A h \in Host : sk[h].intact

\* sockdlen, the bytes in flight, never exceeds wbufcount, the bytes
\* buffered: sendsocket subtracts one from the other and takes the
\* difference for a length (socket.c:192), establishedproc memmoves what is
\* left.  Acknowledgements, timeouts and resets change the two separately.
InFlightBuffered == \A h \in Host : sk[h].dlen <= sk[h].wcount

\* Both sockets are well typed, and what each counts as sent and as buffered
\* agrees in every state of the connection (socket.c:192, tcp.c:389-410).
SocketSound == TypeOK /\ InFlightBuffered

\* A byte leaves the write buffer only when the peer has it: nothing that
\* might still have to be sent again is thrown away.
AckedWasTaken == \A h \in Host : sk[h].base <= sk[Peer(h)].most

\* What a program reads continues what it read before, with no byte twice
\* and none skipped, although resets and timeouts empty the ring under it.
ReadInOrder ==
  [][\A h \in Host : got'[h] > got[h] => sk[h].taken - sk[h].rcount = got[h]]_vars

\* Everything written reaches the other host's socket unharmed: unsent bytes
\* are sent, bytes in flight that get no acknowledgement are sent again, and no
\* connection is given up on the way.
AllTaken == <>(\A h \in Host : sk[h].most = Total[Peer(h)] /\ sk[h].intact)

\* When the client's close is over, and nothing was lost, the server's socket
\* leaves ESTABLISHED, so a server that waits for the end of the stream sees it.
FinGetsThrough ==
  (app[Client] = "closed" /\ lost = 0) ~> (sk[Server].st # STATE_ESTABLISHED \/ lost > 0)

\* Two promises the code does not keep, stated so that a run can show how
\* (README, section 5).  Bytes that were acknowledged stay readable until the
\* program reads them or closes (tcp.c:749).
ReadableStays ==
  [][\A h \in Host : app[h] = "open" /\ sk'[h].rcount < sk[h].rcount =>
       app'[h] # "open" \/ got'[h] > got[h]]_vars

\* A socket's buffers are freed once: a socket the stack has already nuked
\* is not nuked again by the program's close (socket.c:577).
FreedOnce == \A h \in Host : ~sk[h].dfree
=============================================================================
