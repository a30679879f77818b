------------------------------ MODULE RecvRing ------------------------------
(***************************************************************************)
(* The receive side of one ESTABLISHED stream socket: the ring buffer      *)
(* rdata[] with its head, tail and count, the window the stack advertises, *)
(* and a peer that sends what the advertised window allows.                *)
(*                                                                         *)
(* A byte is represented by its position in the peer's stream, so that     *)
(* the ring's contents say which bytes an application would be handed.     *)
(* The peer may send, delay, repeat or reorder any segment its window has  *)
(* ever allowed (the right edge never moves back, so that is any segment   *)
(* the present edge allows); packets of ours may be lost, which is a       *)
(* HearAdvert that is not taken.                                           *)
(***************************************************************************)
EXTENDS Integers, Sequences

CONSTANTS
  Ring,      \* MAXTAILR: bytes in the ring
  LowMark,   \* the 10 of AJK_sockread: short reads below it may advertise
  InitWin,   \* MAXPKTSZ: the window of the handshake segments
  MaxByte,   \* bound: length of the peer's stream
  Probes,    \* TRUE when the peer probes a closed window with one byte
  Writes     \* TRUE when the application also writes

ASSUME RingAssumption ==
  /\ Ring \in Nat \ {0}
  /\ LowMark \in Nat \ {0}
  /\ InitWin \in 1..Ring
  /\ MaxByte \in Nat
  /\ Probes \in BOOLEAN
  /\ Writes \in BOOLEAN

VARIABLES
  rdata,      \* rdatapointers[s]: slot -> position of the byte it holds
  rbufhead,   \* slot the next byte from the network goes to
  rbuftail,   \* slot of the oldest unread byte
  rbufcount,  \* number of unread bytes
  acknum,     \* bytes acknowledged (ACKNUM less the peer's first sequence)
  edge,       \* right edge of the window in the last segment sent
  peerEdge,   \* right edge the peer works with
  tx,         \* send side: "idle" nothing buffered, "unsent" wbufcount > 0
              \* with sockdlen = 0, "inflight" sockdlen > 0
  out         \* bytes handed over by the latest AJK_sockread

ring == <<rdata, rbufhead, rbuftail, rbufcount>>
vars == <<rdata, rbufhead, rbuftail, rbufcount, acknum, edge, peerEdge, tx, out>>

TypeOK ==
  /\ rdata \in [0..(Ring - 1) -> Nat]
  /\ rbufhead \in 0..(Ring - 1)
  /\ rbuftail \in 0..(Ring - 1)
  /\ rbufcount \in Nat
  /\ acknum \in Nat
  /\ edge \in Nat
  /\ peerEdge \in Nat
  /\ tx \in {"idle", "unsent", "inflight"}
  /\ out \in Seq(Nat)

Init ==
  /\ rdata = [i \in 0..(Ring - 1) |-> 0]
  /\ rbufhead = 0
  /\ rbuftail = 0
  /\ rbufcount = 0
  /\ acknum = 0
  /\ edge = InitWin
  /\ peerEdge = InitWin
  /\ tx = "idle"
  /\ out = << >>

-----------------------------------------------------------------------------
\* The slot k places after slot i, counting as incchk does: past the last
\* slot comes slot 0.
Slot(i, k) == IF i + k < Ring THEN i + k ELSE i + k - Ring

\* How many places after slot i slot j comes.
Dist(i, j) == IF j >= i THEN j - i ELSE j - i + Ring

\* Slip: the count is set, not added to.
BufferDataMoveCount(k, n) ==
  /\ rdata' = [i \in 0..(Ring - 1) |->
                 IF Dist(rbufhead, i) < n THEN k + Dist(rbufhead, i) ELSE rdata[i]]
  /\ rbufhead' = Slot(rbufhead, n)
  /\ rbufcount' = n
  /\ UNCHANGED rbuftail

\* bufferdatamove: n bytes of the stream, from position k on, go to the head.
BufferDataMove(k, n) ==
  /\ rdata' = [i \in 0..(Ring - 1) |->
                 IF Dist(rbufhead, i) < n THEN k + Dist(rbufhead, i) ELSE rdata[i]]
  /\ rbufhead' = Slot(rbufhead, n)
  /\ rbufcount' = rbufcount + n
  /\ UNCHANGED rbuftail

\* wmov: the n oldest bytes are copied out.
WMov(n) == [j \in 1..n |-> rdata[Slot(rbuftail, j - 1)]]

\* Slip: the segment is built before acknum moves.
SendSocketEarly ==
  /\ edge' = acknum + Ring - rbufcount'
  /\ tx' = IF tx = "unsent" THEN "inflight" ELSE tx

\* sendsocket in ESTABLISHED: whatever the segment carries, its window is
\* the room left, and bytes that were waiting are now in flight.
SendSocket ==
  /\ edge' = acknum' + Ring - rbufcount'
  /\ tx' = IF tx = "unsent" THEN "inflight" ELSE tx

-----------------------------------------------------------------------------
\* The segments of the peer that may arrive: within its window, or one byte
\* past the edge when the window is closed and the peer probes.
Sendable(seq, len) ==
  \/ seq + len <= peerEdge
  \/ Probes /\ len = 1 /\ seq = peerEdge /\ peerEdge = acknum

\* Slip: a segment that starts before the byte expected is taken as well.
ProcessTcpDataOld(seq, len) ==
  /\ Sendable(seq, len)
  /\ IF seq <= acknum /\ acknum - seq <= Ring - rbufcount
       THEN /\ acknum' = acknum + len
            /\ BufferDataMove(seq, len)
       ELSE UNCHANGED <<ring, acknum>>
  /\ SendSocket
  /\ UNCHANGED <<peerEdge, out>>

\* processtcpdata for a segment with data: only the segment that starts at
\* the byte expected next is taken, when the ring has any room by the
\* code's test; any other is dropped; each is answered.
ProcessTcpData(seq, len) ==
  /\ Sendable(seq, len)
  /\ IF acknum = seq /\ acknum - seq <= Ring - rbufcount
       THEN /\ acknum' = acknum + len
            /\ BufferDataMove(seq, len)
       ELSE UNCHANGED <<ring, acknum>>
  /\ SendSocket
  /\ UNCHANGED <<peerEdge, out>>

\* A segment of the peer arrives.
Deliver ==
  \E seq \in 0..(MaxByte - 1) : \E len \in 1..Ring :
    seq + len <= MaxByte /\ ProcessTcpData(seq, len)

\* The window the socket last advertised reaches the peer.
HearAdvert ==
  /\ peerEdge < edge
  /\ peerEdge' = edge
  /\ UNCHANGED <<ring, acknum, edge, tx, out>>

\* Slip: only the read that takes the ring below half advertises.
AdvertiseHalf(n, left) == n > 2 /\ left < Ring \div 2 /\ rbufcount > Ring \div 2

\* The reads of n bytes after which AJK_sockread advertises: the ring is now
\* empty, or has gone below half.
Advertise(n, left) ==
  /\ n > 2 \/ (left < LowMark /\ n > 0)
  /\ left = 0 \/ (left < Ring \div 2 /\ rbufcount > Ring \div 2)

\* AJK_sockread of at most len bytes: drains the ring, then pushes waiting
\* data, or advertises when the read freed enough; but with bytes in flight
\* it does neither.
SockRead(len) ==
  LET n == IF rbufcount > len THEN len ELSE rbufcount
      left == rbufcount - n
  IN  /\ out' = WMov(n)
      /\ rbuftail' = Slot(rbuftail, n)
      /\ rbufcount' = left
      /\ UNCHANGED <<rdata, rbufhead, acknum, peerEdge>>
      /\ IF tx = "unsent" \/ (tx = "idle" /\ Advertise(n, left))
           THEN SendSocket
           ELSE UNCHANGED <<edge, tx>>

Read == \E len \in 1..Ring : SockRead(len)

\* writetcpbytes with nothing buffered before; more bytes behind those in
\* flight change nothing here.
SockWrite ==
  /\ Writes
  /\ tx = "idle"
  /\ tx' = "unsent"
  /\ UNCHANGED <<ring, acknum, edge, peerEdge, out>>

\* check_sockets: sends waiting bytes, or the ones in flight again.
CheckSockets ==
  /\ tx # "idle"
  /\ tx' = "inflight"
  /\ edge' = acknum + Ring - rbufcount
  /\ UNCHANGED <<ring, acknum, peerEdge, out>>

\* establishedproc for a bare acknowledgement: nothing is sent back.
PeerAck ==
  /\ tx = "inflight"
  /\ tx' \in {"idle", "unsent"}
  /\ UNCHANGED <<ring, acknum, edge, peerEdge, out>>

Next ==
  \/ Deliver
  \/ HearAdvert
  \/ Read
  \/ SockWrite
  \/ CheckSockets
  \/ PeerAck

Spec == Init /\ [][Next]_vars

\* The application keeps reading and the stack keeps polling; the peer
\* answers, and an advertisement that stands is eventually heard.
FairSpec ==
  /\ Spec
  /\ WF_vars(Read)
  /\ WF_vars(HearAdvert)
  /\ WF_vars(CheckSockets)
  /\ WF_vars(PeerAck)

-----------------------------------------------------------------------------
\* The ring never holds more than it has slots for: the data processtcpdata
\* takes in really fits (its comment: "we have enough buffer space to
\* swallow this data").
RoomToSwallow == rbufcount <= Ring

\* A promise once made is kept: every byte the peer may still send has a
\* free slot, however old the advertisement the peer works from is and
\* whatever was read or received since.
WindowPromise ==
  /\ peerEdge <= edge
  /\ edge - acknum <= Ring - rbufcount

\* head, tail and count agree and the unread bytes are the ones before
\* acknum, none twice, none missing: two of the three counters alone would
\* not notice a head that passes the tail.
RingOK ==
  /\ rbufhead = Slot(rbuftail, rbufcount)
  /\ rbufcount <= acknum
  /\ \A k \in 0..(rbufcount - 1) :
       rdata[Slot(rbuftail, k)] = acknum - rbufcount + k

\* Ring, window and stream agree at every point between two calls
\* (tcp.c:107-122, socket.c:485-519): the three above, with the types.
Consistent == TypeOK /\ RoomToSwallow /\ WindowPromise /\ RingOK

\* A window, once advertised, is never taken back: the right edge of the
\* segments sent only moves forward.
EdgeNeverRecedes == [][edge' >= edge]_vars

\* An emptied ring is advertised (comment in AJK_sockread: "Times to
\* advertise: buffer now empty"): a peer that waits for room eventually
\* hears of it, at least where the program only reads.
EmptyIsAdvertised == (rbufcount = 0) ~> (peerEdge > acknum)
ReaderIsHeard == [](tx = "idle") => EmptyIsAdvertised

\* The socket implements the byte queue.
Queue == [j \in 1..rbufcount |-> rdata[Slot(rbuftail, j - 1)]]

BQ == INSTANCE ByteQueue WITH Capacity <- Ring, queue <- Queue, next <- acknum

\* What is read is the peer's stream: once each, in order, nothing made up.
ImplementsByteQueue == BQ!Spec
=============================================================================
