----------------------------- MODULE TcpSocket -----------------------------
(***************************************************************************)
(* One stream socket and everything the stack does to it: tcp.c's          *)
(* handlers, tcpx.c's segment builder and the per-socket part of           *)
(* socket.c, as operators from a socket to a result                        *)
(*     [c |-> the socket after, out |-> sequence of segments sent, up |-> BOOLEAN]     *)
(* where up = FALSE is the exit(1) of fasttcppack.                         *)
(*                                                                         *)
(* Stream bytes are represented by their positions: the write buffer holds *)
(* the wcount bytes from position base on, and taken says how many bytes   *)
(* of the peer's stream were accepted on this connection, most how many on *)
(* any.  A segment carries the position of its first byte beside its       *)
(* sequence number, so intact can tell whether what was accepted is what   *)
(* was written.  The window field is left out:                             *)
(* no line of the sender reads it.  The timer is left out: a socket that   *)
(* expects an answer may find it expired at any check (TcpLink says when). *)
(***************************************************************************)
EXTENDS Integers, Sequences, Netinet

CONSTANTS
  Mss,      \* SOKMSS: most bytes in one segment
  MaxTailR, \* MAXTAILR: receive ring size
  MaxTailW, \* MAXTAILW: write buffer size, also WINDOWED
  LowMark,  \* the 10 of AJK_sockread
  MaxErr,   \* the 10 of check_sockets: unanswered sends before giving up
  SeqSpace,   \* 2^32: sequence numbers travel as four bytes
  LongSpace   \* range of unsigned long, in which they are computed

ASSUME TcpAssumption ==
  /\ Mss \in Nat \ {0} /\ MaxTailR \in Nat \ {0} /\ MaxTailW \in Nat \ {0}
  /\ LowMark \in Nat /\ MaxErr \in Nat \ {0}
  /\ SeqSpace \in Nat \ {0} /\ LongSpace \in Nat \ {0} /\ SeqSpace <= LongSpace

\* sav32word keeps 32 bits; differences are taken in unsigned long.
Word32(x) == x % SeqSpace
ULong(x) == x % LongSpace

\* A slot findfreeslot has just handed out; own says that the read and write
\* buffers are allocated, par that SPARET names a bound parent, ip that
\* IPDEST is not zero, dfree that a buffer was freed which was not allocated.
Blank ==
  [st |-> STATE_NOTINIT, par |-> FALSE, ip |-> FALSE, own |-> FALSE, dfree |-> FALSE,
   seq |-> 0, ack |-> 0, flags |-> {}, dlen |-> 0, wcount |-> 0, base |-> 0,
   rcount |-> 0, taken |-> 0, most |-> 0, intact |-> TRUE, exp |-> FALSE, err |-> 0]

Done(c) == [c |-> c, out |-> << >>, up |-> TRUE]

\* fasttcppack: sets the flags and the state, then builds the segment.  No
\* free packet buffer means the segment is not sent, which is one way of
\* losing it; a zero peer address ends the program.
FastTcpPack(c, flags, st, dat, n) ==
  LET d == [c EXCEPT !.flags = flags, !.st = st]
  IN  [c |-> d,
       out |-> IF c.ip THEN <<[fl |-> flags, seq |-> d.seq, ack |-> d.ack,
                               dat |-> dat, len |-> n]>>
                       ELSE << >>,
       up |-> c.ip]

TcpRst(c)       == FastTcpPack(c, {RST}, STATE_CLOSED, 0, 0)
TcpSynAndAck(c) == FastTcpPack(c, {SYN, ACK}, STATE_SYN_RECEIVED, 0, 0)
TcpSyn(c)       == FastTcpPack(c, {SYN}, STATE_SYN_SENT, 0, 0)

\* rst_special, and the answer of tcp() to a segment nobody matches: a reset
\* built from the segment's own numbers in the spare slot 0.
RstSpecial(m) ==
  <<[fl |-> {RST}, seq |-> m.ack, ack |-> m.seq, dat |-> 0, len |-> 0]>>

\* Bytes buffered and not in flight; whether any may leave; how many then do.
Unsent(c) == c.wcount - c.dlen

MayPush(c) ==
  /\ c.st > STATE_UDP /\ c.st < STATE_FINWAIT1
  /\ c.dlen < MaxTailW /\ Unsent(c) # 0

Portion(c) == IF ~MayPush(c) THEN 0 ELSE IF Unsent(c) > Mss THEN Mss ELSE Unsent(c)

\* sendsocket: one segment with the present flags and state, carrying bytes
\* not yet in flight when the state and the buffer allow it.  The sequence
\* number is moved over the bytes in flight for that segment only.
SendSocket(c) ==
  LET n == Portion(c)
      d == IF MayPush(c) THEN [c EXCEPT !.seq = Word32(@ + c.dlen), !.dlen = @ + n, !.exp = TRUE]
                         ELSE c
      r == FastTcpPack(d, c.flags, c.st, IF n = 0 THEN 0 ELSE c.base + c.dlen, n)
  IN  [r EXCEPT !.c.seq = c.seq]

\* nuke_tcp_socket: a child of a bound socket goes back to LISTEN with a copy
\* of its parent's record; any other socket is closed and its buffers freed.
\* sockdlen and errortx keep their values.
Nuke(c) ==
  LET d == IF c.par
             THEN [c EXCEPT !.st = STATE_LISTEN, !.ip = FALSE, !.seq = 0,
                            !.ack = 0, !.flags = {}]
             ELSE [c EXCEPT !.st = STATE_CLOSED, !.own = FALSE,
                            !.dfree = @ \/ ~c.own]
  IN  [d EXCEPT !.wcount = 0, !.rcount = 0, !.exp = FALSE]
-----------------------------------------------------------------------------
\* Slip: what fits is taken, wherever it belongs.
ExactAny(c, m) == ULong(c.ack - m.seq) <= ULong(MaxTailR - c.rcount)

\* The segment is no further behind than the ring has room for, and starts
\* exactly at the number expected (a SYN counts for one).
Exact(c, m) ==
  LET gap == ULong(c.ack - m.seq)
  IN  /\ gap <= ULong(MaxTailR - c.rcount)
      /\ gap = IF SYN \in m.fl THEN 1 ELSE 0

\* The data of a segment goes into the ring.
Take(c, m) ==
  IF m.len = 0 THEN c
  ELSE [c EXCEPT !.ack = Word32(@ + m.len), !.rcount = @ + m.len,
                 !.taken = @ + m.len,
                 !.most = IF @ > c.taken + m.len THEN @ ELSE c.taken + m.len,
                 !.intact = @ /\ m.dat = c.taken]

\* processtcpdata: takes data and FIN of an exact segment; anything else is
\* dropped and answered with the present numbers.
ProcessTcpData(c, m) ==
  LET d == Take(c, m)
      f == IF FIN \notin m.fl THEN d ELSE
           CASE c.st = STATE_FINWAIT2 ->
                  [d EXCEPT !.ack = Word32(@ + 1), !.st = STATE_TIME_WAIT,
                            !.exp = TRUE, !.flags = {ACK}]
             [] c.st = STATE_ESTABLISHED ->
                  [d EXCEPT !.ack = Word32(@ + 1), !.st = STATE_CLOSING, !.exp = TRUE]
             [] c.st = STATE_FINWAIT1 /\ ACK \notin m.fl ->
                  [d EXCEPT !.ack = Word32(@ + 1), !.st = STATE_CLOSING,
                            !.exp = TRUE, !.flags = {ACK, FIN}]
             [] OTHER -> [d EXCEPT !.ack = Word32(@ + 1)]
  IN  IF ~Exact(c, m) THEN SendSocket(c)
      ELSE IF c.st = STATE_FINWAIT1 /\ (FIN \notin m.fl \/ ACK \in m.fl)
        THEN Done([d EXCEPT !.exp = TRUE, !.flags = {ACK}, !.st = STATE_FINWAIT2])
      ELSE IF m.len > 0 \/ f.st # c.st \/ c.st = STATE_FINWAIT1
        THEN SendSocket(f)
        ELSE Done(f)

\* listenproc: a SYN makes the slot a connection; isn is the clock's value.
ListenProc(c, m, isn) ==
  IF SYN \in m.fl
    THEN LET r == TcpSynAndAck([c EXCEPT !.ip = TRUE, !.ack = Word32(m.seq + 1),
                                         !.seq = isn, !.base = 0, !.taken = 0,
                                         !.intact = TRUE])
         IN  [r EXCEPT !.c.exp = TRUE, !.c.err = 0]
    ELSE [c |-> c, out |-> RstSpecial(m), up |-> TRUE]

\* syn_sentproc: a SYN that acknowledges ours connects; another SYN makes a
\* simultaneous open; anything else is reset.  Each is answered.
SynSentProc(c, m) ==
  LET acked == ACK \in m.fl /\ m.ack = ULong(c.seq + 1)
      d == [c EXCEPT !.flags = {ACK}, !.err = 0]
      e == IF acked THEN [d EXCEPT !.st = STATE_ESTABLISHED, !.seq = Word32(@ + 1),
                                   !.ack = Word32(m.seq + 1), !.exp = FALSE]
                    ELSE [d EXCEPT !.st = STATE_SYN_RECEIVED, !.ack = Word32(@ + 1)]
      r == SendSocket(c)
  IN  IF SYN \in m.fl THEN SendSocket(e)
      ELSE [r EXCEPT !.out = RstSpecial(m) \o @]

\* syn_receivedproc: a SYN is answered again; the acknowledgement of ours
\* connects.  Data on that segment is not looked at.
SynReceivedProc(c, m) ==
  LET r1 == IF SYN \in m.fl
              THEN LET r == SendSocket([c EXCEPT !.flags = {SYN, ACK}])
                   IN  [r EXCEPT !.c.err = 0, !.c.exp = TRUE]
              ELSE Done(c)
      r2 == SendSocket([r1.c EXCEPT !.flags = {ACK}])
  IN  IF ACK \in m.fl /\ m.ack = ULong(c.seq + 1)
        THEN [c |-> [r2.c EXCEPT !.seq = Word32(@ + 1), !.exp = FALSE, !.err = 0,
                                 !.st = STATE_ESTABLISHED],
              out |-> r1.out \o r2.out, up |-> r1.up /\ r2.up]
        ELSE r1

\* Slips: numbers are compared as if they never wrapped; every
\* acknowledgement is one of everything; bytes let go still count as in flight.
OutstandingPlain(c, m) ==
  IF m.ack <= c.seq + c.dlen THEN c.seq + c.dlen - m.ack ELSE c.dlen + 1
OutstandingNone(c, m) == 0
ReleaseOnly(c, n) ==
  [c EXCEPT !.flags = {ACK}, !.err = 0, !.wcount = @ - n, !.base = @ + n,
            !.seq = Word32(@ + n), !.exp = c.dlen # n]

\* How many bytes in flight the segment does not acknowledge: more than
\* there are when its number is not one of theirs.
Outstanding(c, m) == ULong(ULong(c.seq + c.dlen) - m.ack)

\* The n oldest bytes in flight are acknowledged.
Release(c, n) ==
  [c EXCEPT !.flags = {ACK}, !.err = 0, !.wcount = @ - n, !.dlen = @ - n,
            !.base = @ + n, !.seq = Word32(@ + n), !.exp = c.dlen # n]

\* establishedproc: an acknowledgement of bytes in flight lets them go; then
\* data and flags are processed.
EstablishedProc(c, m) ==
  LET left == Outstanding(c, m)
      d == IF left <= c.dlen THEN Release(c, c.dlen - left) ELSE c
  IN  IF ACK \notin m.fl THEN Done(c)
      ELSE IF m.fl # {ACK} \/ m.len > 0 THEN ProcessTcpData(d, m)
      ELSE Done(d)

\* closingproc: the peer's FIN was taken; waits for the acknowledgement of
\* the FIN it answers with, and for the application to read what is left.
ClosingProc(c, m) ==
  LET r == SendSocket([c EXCEPT !.flags = {ACK, FIN}])
  IN  IF m.ack = ULong(c.seq + 1)
        THEN IF c.rcount > 0 THEN Done([c EXCEPT !.err = 0, !.flags = {ACK}])
             ELSE SendSocket([c EXCEPT !.st = STATE_TIME_WAIT, !.err = 0,
                                       !.flags = {ACK, FIN}])
        ELSE [r EXCEPT !.c.exp = TRUE, !.c.err = MaxErr - 1]

\* finwait1proc and finwait2proc.
Finwait1Proc(c, m) == IF FIN \in m.fl THEN ProcessTcpData(c, m) ELSE Done(c)

Finwait2Proc(c, m) ==
  LET d == [c EXCEPT !.err = 0, !.flags = {FIN, ACK}]
  IN  IF FIN \in m.fl /\ m.ack = c.seq
        THEN ProcessTcpData([d EXCEPT !.exp = TRUE, !.st = STATE_TIME_WAIT,
                                      !.flags = {ACK}], m)
        ELSE ProcessTcpData(d, m)

\* last_ackproc: our FIN was sent; its acknowledgement ends the connection.
LastAckProc(c, m) ==
  LET r == SendSocket([c EXCEPT !.flags = {ACK, FIN}])
  IN  IF m.ack = ULong(c.seq + 1)
        THEN Done(Nuke([c EXCEPT !.exp = FALSE, !.dlen = 0, !.err = 0]))
        ELSE [r EXCEPT !.c.err = 0]

\* proctcp: by state.
ProcTcp(c, m, isn) ==
  CASE c.st = STATE_LISTEN       -> ListenProc(c, m, isn)
    [] c.st = STATE_SYN_SENT     -> SynSentProc(c, m)
    [] c.st = STATE_SYN_RECEIVED -> SynReceivedProc(c, m)
    [] c.st = STATE_ESTABLISHED  -> EstablishedProc(c, m)
    [] c.st = STATE_CLOSING      -> ClosingProc(c, m)
    [] c.st = STATE_FINWAIT1     -> Finwait1Proc(c, m)
    [] c.st = STATE_FINWAIT2     -> Finwait2Proc(c, m)
    [] c.st = STATE_LAST_ACK     -> LastAckProc(c, m)
    [] c.st = STATE_TIME_WAIT    -> Done(Nuke(c))
    [] OTHER                     -> Done(c)

\* tcp() for a segment that passed its checksum: nobody there, a reset, or
\* the state's handler.  A reset of an active socket empties its buffers and
\* is answered with a reset.
Tcp(c, m, isn) ==
  IF ~(c.st > STATE_NOTINIT \/ c.st = STATE_LISTEN)
    THEN [c |-> c, out |-> IF RST \in m.fl \/ SYN \in m.fl THEN << >> ELSE RstSpecial(m),
          up |-> TRUE]
  ELSE IF RST \notin m.fl THEN ProcTcp(c, m, isn)
  ELSE IF c.st > STATE_NOTINIT
    THEN TcpRst([c EXCEPT !.dlen = 0, !.wcount = 0, !.rcount = 0])
    ELSE Done(c)
-----------------------------------------------------------------------------
\* One more error is one too many.
Spent(c) == c.err >= MaxErr

\* Everything is sent again from the beginning.
StartAgain(c) == [c EXCEPT !.dlen = 0]

\* The part of check_sockets after a closed child was collected, one round:
\* unsent bytes are sent; an expired timer counts an error and sends
\* everything again, or gives the connection up.
CheckRound(c, expired) ==
  LET late == expired /\ c.exp
      fresh == c.wcount - c.dlen # 0 /\ c.dlen < MaxTailW
      pushing == late /\ ~Spent(c) /\ c.st > STATE_SYN_RECEIVED /\ c.st < STATE_FINWAIT1
      d == [c EXCEPT !.flags = IF fresh \/ pushing THEN {PSH, ACK} ELSE @,
                     !.err = IF late THEN @ + 1 ELSE @]
  IN  CASE late /\ Spent(c) -> Done([Nuke(d) EXCEPT !.dlen = 0])
        [] late /\ ~Spent(c) -> SendSocket(StartAgain(d))
        [] ~late /\ fresh -> SendSocket(d)
        [] OTHER -> Done(c)

\* check_sockets for one slot: at most two segments; the timer was set again
\* by the first.
CheckSockets(c, expired) ==
  LET r1 == CheckRound(c, expired)
      r2 == CheckRound(r1.c, FALSE)
  IN  IF c.st = STATE_CLOSED /\ c.par THEN Done(Nuke(c))
      ELSE IF ~(c.st > STATE_UDP) THEN Done(c)
      ELSE IF r1.out = << >> THEN r1
      ELSE [c |-> r2.c, out |-> r1.out \o r2.out, up |-> r1.up /\ r2.up]

\* tcp_open: the first SYN.  ACKNUM starts as our own number too.
TcpOpen(c, isn) ==
  LET r == TcpSyn([c EXCEPT !.ip = TRUE, !.own = TRUE, !.seq = isn, !.ack = isn])
  IN  [r EXCEPT !.c.exp = TRUE]

\* writetcpbytes: as many of n bytes as fit.
WriteTcpBytes(c, n) ==
  IF c.st # STATE_ESTABLISHED THEN c
  ELSE [c EXCEPT !.wcount = @ + (IF n > MaxTailW - c.wcount THEN MaxTailW - c.wcount ELSE n)]

\* Slip: the bytes read stay in the ring.
DrainPeek(c, n) == c

\* n bytes are copied out of the ring.
Drain(c, n) == [c EXCEPT !.rcount = @ - n]

\* AJK_sockread of n bytes that are there, and the push or advertisement
\* that follows when nothing is in flight.
SockRead(c, n) ==
  LET d == Drain(c, n)
      advertise == /\ n > 2 \/ (d.rcount < LowMark /\ n > 0)
                   /\ \/ d.rcount = 0
                      \/ d.rcount < MaxTailR \div 2 /\ c.rcount > MaxTailR \div 2
  IN  IF c.st # STATE_ESTABLISHED \/ c.dlen # 0 THEN Done(d)
      ELSE IF c.wcount # 0 THEN SendSocket(d)
      ELSE IF advertise THEN SendSocket([d EXCEPT !.flags = {ACK}, !.err = 0])
      ELSE Done(d)

\* The wait of flushsocket is over.
Flushed(c) ==
  \/ c.st \notin {STATE_ESTABLISHED, STATE_CLOSING}
  \/ c.wcount = 0 /\ c.dlen = 0

\* Slip: the FIN is not sent.
SendFinSilent(c) == Done([c EXCEPT !.st = STATE_LAST_ACK])

\* sockAclose once flushed: the one FIN.
SendFin(c) ==
  IF c.st = STATE_PEER_RESET THEN Done(Nuke(c))
  ELSE SendSocket([c EXCEPT !.st = STATE_LAST_ACK, !.exp = TRUE,
                            !.flags = {ACK, FIN}, !.err = 0])
=============================================================================
