-------------------------- MODULE RecvRing_proofs --------------------------
(***************************************************************************)
(* The receive ring is right for every ring size, handshake window and     *)
(* stream length, as long as the peer keeps to the advertised window.      *)
(***************************************************************************)
EXTENDS RecvRing, TLAPS, SequenceTheorems

\* The inductive invariant: the three counters agree, the contents are the
\* bytes just before acknum, and the window promised to the peer is covered
\* by free slots.
IInv ==
  /\ TypeOK
  /\ RoomToSwallow
  /\ WindowPromise
  /\ RingOK

\* Walking k places and then m more is walking k + m places, while that is
\* no more than once around.
LEMMA SlotSlot ==
  ASSUME NEW i \in 0..(Ring - 1), NEW k \in Nat, NEW m \in Nat, k + m <= Ring
  PROVE  /\ Slot(i, k) \in 0..(Ring - 1)
         /\ Slot(Slot(i, k), m) = Slot(i, k + m)
  BY RingAssumption DEF Slot

\* Slot and Dist are inverses on less than one turn.
LEMMA DistSlot ==
  ASSUME NEW i \in 0..(Ring - 1), NEW k \in 0..(Ring - 1)
  PROVE  Dist(i, Slot(i, k)) = k
  BY RingAssumption DEF Slot, Dist

LEMMA InitIInv == Init => IInv
<1> SUFFICES ASSUME Init PROVE IInv
  OBVIOUS
<1>1. out \in Seq(Nat)
  BY EmptySeq DEF Init
<1>2. TypeOK
  BY <1>1, RingAssumption DEF Init, TypeOK
<1>3. QED
  BY <1>2, RingAssumption DEF Init, IInv, RoomToSwallow, WindowPromise, RingOK, Slot

\* A conforming segment of the peer: what is taken fits, and lands behind
\* the unread bytes.
LEMMA DeliverStep ==
  ASSUME ~Probes, IInv,
         NEW seq \in 0..(MaxByte - 1), NEW len \in 1..Ring, ProcessTcpData(seq, len)
  PROVE  IInv' /\ edge' >= edge
<1> USE RingAssumption
<1>1. seq + len <= peerEdge
  BY DEF ProcessTcpData, Sendable
<1>2. seq \in Nat /\ len \in Nat \ {0}
  OBVIOUS
<1>3. CASE acknum = seq /\ acknum - seq <= Ring - rbufcount
  <2>1. /\ acknum' = acknum + len
        /\ BufferDataMove(seq, len)
        /\ SendSocket
        /\ UNCHANGED <<peerEdge, out>>
    BY <1>3 DEF ProcessTcpData
  <2>2. len <= Ring - rbufcount
    BY <1>1, <1>2, <1>3 DEF IInv, TypeOK, WindowPromise
  <2>3. rbufcount' = rbufcount + len /\ rbuftail' = rbuftail /\ rbufcount' <= Ring
    BY <2>1, <2>2, <1>2 DEF BufferDataMove, IInv, TypeOK
  <2>4. edge' = acknum' + Ring - rbufcount' /\ tx' \in {"idle", "unsent", "inflight"}
    BY <2>1 DEF SendSocket, IInv, TypeOK
  <2>5. rbufhead' = Slot(rbuftail', rbufcount') /\ rbufhead' \in 0..(Ring - 1)
    <3>1. rbufhead = Slot(rbuftail, rbufcount) /\ rbuftail \in 0..(Ring - 1) /\ rbufcount \in Nat
      BY DEF IInv, TypeOK, RingOK
    <3>2. rbufhead' = Slot(rbufhead, len)
      BY <2>1 DEF BufferDataMove
    <3>3. Slot(Slot(rbuftail, rbufcount), len) = Slot(rbuftail, rbufcount + len)
      BY <3>1, <2>2, <1>2, SlotSlot
    <3>4. Slot(rbuftail, rbufcount + len) \in 0..(Ring - 1)
      BY <3>1, <2>2, <1>2 DEF Slot
    <3>5. QED
      BY <3>1, <3>2, <3>3, <3>4, <2>3
  <2>6. rdata' \in [0..(Ring - 1) -> Nat]
    BY <2>1, <1>2 DEF BufferDataMove, Dist, IInv, TypeOK
  <2>7. ASSUME NEW k \in 0..(rbufcount' - 1)
        PROVE  rdata'[Slot(rbuftail', k)] = acknum' - rbufcount' + k
    <3> DEFINE s == Slot(rbuftail, k)
    <3>1. k \in Nat /\ k < Ring /\ s \in 0..(Ring - 1) /\ rbuftail' = rbuftail
      BY <2>3, <2>2, <1>2, SlotSlot DEF IInv, TypeOK, Slot
    <3>2. rdata'[s] = IF Dist(rbufhead, s) < len
                        THEN seq + Dist(rbufhead, s) ELSE rdata[s]
      BY <2>1, <3>1 DEF BufferDataMove
    <3>3. CASE k < rbufcount
      <4>1. rdata[s] = acknum - rbufcount + k
        BY <3>3, <3>1 DEF IInv, TypeOK, RingOK
      <4>2. ~(Dist(rbufhead, s) < len)
        BY <3>3, <3>1, <2>2, <1>2 DEF IInv, TypeOK, RingOK, Slot, Dist
      <4>3. QED
        BY <3>1, <3>2, <4>1, <4>2, <2>1, <2>3, <1>2 DEF IInv, TypeOK
    <3>4. CASE k >= rbufcount
      <4>1. Dist(rbufhead, s) = k - rbufcount
        <5>1. /\ rbuftail \in 0..(Ring - 1) /\ rbufcount \in Nat /\ Ring \in Nat
              /\ rbufhead = Slot(rbuftail, rbufcount)
          BY <1>2 DEF IInv, TypeOK, RingOK
        <5> QED BY <5>1, <3>4, <3>1, <2>2 DEF Slot, Dist
      <4>2. k - rbufcount < len
        BY <2>3, <3>1, <1>2 DEF IInv, TypeOK
      <4>3. QED
        BY <3>1, <3>2, <4>1, <4>2, <2>1, <2>3, <1>2, <1>3 DEF IInv, TypeOK
    <3>5. QED
      BY <3>1, <3>3, <3>4 DEF IInv, TypeOK
  <2>8. TypeOK'
    BY <2>1, <2>3, <2>4, <2>5, <2>6, <1>2 DEF IInv, TypeOK
  <2>9. RoomToSwallow' /\ WindowPromise' /\ edge' >= edge
    BY <2>1, <2>3, <2>4, <1>2 DEF IInv, TypeOK, RoomToSwallow, WindowPromise
  <2>10. RingOK'
    BY <2>1, <2>3, <2>5, <2>7, <1>2 DEF IInv, TypeOK, RingOK
  <2>11. QED
    BY <2>8, <2>9, <2>10 DEF IInv
<1>4. CASE ~(acknum = seq /\ acknum - seq <= Ring - rbufcount)
  <2>1. /\ UNCHANGED <<ring, acknum, peerEdge, out>>
        /\ edge' = acknum' + Ring - rbufcount'
        /\ tx' \in {"idle", "unsent", "inflight"}
    BY <1>4 DEF ProcessTcpData, SendSocket, IInv, TypeOK
  <2>2. QED
    BY <2>1 DEF ring, IInv, TypeOK, RoomToSwallow, WindowPromise, RingOK
<1>5. QED
  BY <1>3, <1>4

\* A read takes the oldest bytes and only widens the room.
LEMMA ReadStep ==
  ASSUME IInv, NEW len \in 1..Ring, SockRead(len)
  PROVE  IInv' /\ edge' >= edge
<1> USE RingAssumption
<1> DEFINE n == IF rbufcount > len THEN len ELSE rbufcount
<1>1. /\ out' = WMov(n)
      /\ rbuftail' = Slot(rbuftail, n)
      /\ rbufcount' = rbufcount - n
      /\ UNCHANGED <<rdata, rbufhead, acknum, peerEdge>>
      /\ SendSocket \/ UNCHANGED <<edge, tx>>
  BY DEF SockRead
<1>2. n \in 0..rbufcount /\ n \in Nat /\ rbufcount \in Nat /\ rbufcount <= Ring
  BY DEF IInv, TypeOK, RoomToSwallow
<1> HIDE DEF n
<1>3. out' \in Seq(Nat)
  <2>1. ASSUME NEW j \in 1..n PROVE rdata[Slot(rbuftail, j - 1)] \in Nat
    BY <1>2, <2>1 DEF IInv, TypeOK, Slot
  <2>2. QED
    BY <1>1, <1>2, <2>1, IsASeq DEF WMov
<1>4. /\ edge' >= edge /\ edge' \in Nat
      /\ edge' - acknum' <= Ring - rbufcount'
      /\ tx' \in {"idle", "unsent", "inflight"}
  BY <1>1, <1>2 DEF SendSocket, IInv, TypeOK, WindowPromise
<1>5. rbuftail' \in 0..(Ring - 1) /\ rbufhead' = Slot(rbuftail', rbufcount')
  <2>1. rbuftail \in 0..(Ring - 1) /\ rbufhead = Slot(rbuftail, rbufcount)
    BY DEF IInv, TypeOK, RingOK
  <2>2. Slot(Slot(rbuftail, n), rbufcount - n) = Slot(rbuftail, n + (rbufcount - n))
    BY <1>2, <2>1, SlotSlot
  <2>3. QED
    BY <1>1, <1>2, <2>1, <2>2, SlotSlot
<1>6. ASSUME NEW k \in 0..(rbufcount' - 1)
      PROVE  rdata'[Slot(rbuftail', k)] = acknum' - rbufcount' + k
  <2>1. k \in Nat /\ n + k \in 0..(rbufcount - 1)
    BY <1>1, <1>2
  <2>2. Slot(rbuftail', k) = Slot(rbuftail, n + k)
    BY <1>1, <1>2, <2>1, SlotSlot DEF IInv, TypeOK
  <2>3. rdata[Slot(rbuftail, n + k)] = acknum - rbufcount + (n + k)
    BY <2>1 DEF IInv, RingOK
  <2>4. QED
    BY <1>1, <1>2, <2>1, <2>2, <2>3 DEF IInv, TypeOK
<1>7. TypeOK'
  BY <1>1, <1>2, <1>3, <1>4, <1>5 DEF IInv, TypeOK
<1>8. RoomToSwallow' /\ WindowPromise'
  <2>1. rbufcount' <= Ring
    BY <1>1, <1>2
  <2>2. peerEdge \in Nat /\ edge \in Nat /\ peerEdge <= edge /\ peerEdge' = peerEdge
    BY <1>1 DEF IInv, TypeOK, WindowPromise
  <2>3. QED
    BY <2>1, <2>2, <1>4 DEF RoomToSwallow, WindowPromise
<1>9. RingOK'
  BY <1>1, <1>2, <1>5, <1>6 DEF IInv, TypeOK, RingOK
<1>10. QED
  BY <1>4, <1>7, <1>8, <1>9 DEF IInv

\* The steps that leave the ring alone.
LEMMA OtherStep ==
  ASSUME IInv, HearAdvert \/ SockWrite \/ CheckSockets \/ PeerAck \/ UNCHANGED vars
  PROVE  IInv' /\ edge' >= edge
<1> USE RingAssumption
<1>1. /\ UNCHANGED <<ring, acknum, out>>
      /\ tx' \in {"idle", "unsent", "inflight"}
      /\ edge' = edge \/ edge' = acknum + Ring - rbufcount
      /\ peerEdge' = peerEdge \/ (peerEdge' = edge /\ edge' = edge)
  BY DEF HearAdvert, SockWrite, CheckSockets, PeerAck, vars, ring, IInv, TypeOK
<1>2. /\ rdata' = rdata /\ rbufhead' = rbufhead /\ rbuftail' = rbuftail
      /\ rbufcount' = rbufcount /\ acknum' = acknum /\ out' = out
  BY <1>1 DEF ring
<1>3. /\ edge' \in Nat /\ edge' >= edge /\ peerEdge' \in Nat /\ peerEdge' <= edge'
      /\ edge' - acknum' <= Ring - rbufcount'
  BY <1>1, <1>2 DEF IInv, TypeOK, RoomToSwallow, WindowPromise
<1>4. QED
  BY <1>1, <1>2, <1>3 DEF IInv, TypeOK, RoomToSwallow, WindowPromise, RingOK

LEMMA StepIInv == ~Probes /\ IInv /\ [Next]_vars => IInv' /\ edge' >= edge
<1> SUFFICES ASSUME ~Probes, IInv, [Next]_vars PROVE IInv' /\ edge' >= edge
  OBVIOUS
<1>1. CASE Deliver
  <2>1. PICK seq \in 0..(MaxByte - 1), len \in 1..Ring : ProcessTcpData(seq, len)
    BY <1>1 DEF Deliver
  <2>2. QED
    BY <2>1, DeliverStep
<1>2. CASE Read
  <2>1. PICK len \in 1..Ring : SockRead(len)
    BY <1>2 DEF Read
  <2>2. QED
    BY <2>1, ReadStep
<1>3. CASE HearAdvert \/ SockWrite \/ CheckSockets \/ PeerAck \/ UNCHANGED vars
  BY <1>3, OtherStep
<1>4. QED
  BY <1>1, <1>2, <1>3 DEF Next

LEMMA Invariance == ASSUME ~Probes PROVE Spec => []IInv
<1>1. Init => IInv
  BY InitIInv
<1>2. IInv /\ [Next]_vars => IInv'
  BY StepIInv
<1>3. QED
  BY <1>1, <1>2, PTL DEF Spec

\* The state stays well typed: head and tail, which nuke_tcp_socket,
\* bufferdatamove and wmov set apart from one another, never leave the ring.
THEOREM TypeCorrect == ASSUME ~Probes PROVE Spec => []TypeOK
<1>1. IInv => TypeOK
  BY DEF IInv
<1>2. QED
  BY <1>1, Invariance, PTL

\* With a peer that keeps to the window, the data taken in always fits the
\* ring, for every ring size.
THEOREM NoOverrun == ASSUME ~Probes PROVE Spec => []RoomToSwallow
<1>1. IInv => RoomToSwallow
  BY DEF IInv
<1>2. QED
  BY <1>1, Invariance, PTL

\* Every byte the peer may still send has a free slot.
THEOREM PromiseKept == ASSUME ~Probes PROVE Spec => []WindowPromise
<1>1. IInv => WindowPromise
  BY DEF IInv
<1>2. QED
  BY <1>1, Invariance, PTL

\* Head, tail, count and contents always agree.
THEOREM RingConsistent == ASSUME ~Probes PROVE Spec => []RingOK
<1>1. IInv => RingOK
  BY DEF IInv
<1>2. QED
  BY <1>1, Invariance, PTL

\* The four together, the invariant the run checks: types, room, promise and
\* contents, after any interleaving of segments, reads and writes.
THEOREM Consistency == ASSUME ~Probes PROVE Spec => []Consistent
<1>1. IInv => Consistent
  BY DEF IInv, Consistent
<1>2. QED
  BY <1>1, Invariance, PTL

\* The window is never taken back.
THEOREM WindowMonotone == ASSUME ~Probes PROVE Spec => EdgeNeverRecedes
<1>1. IInv /\ [Next]_vars => [edge' >= edge]_vars
  BY StepIInv
<1>2. QED
  BY <1>1, Invariance, PTL DEF Spec, EdgeNeverRecedes

-----------------------------------------------------------------------------
\* What the queue of the abstract specification is, by the ring's contents.
QueueFacts ==
  /\ Queue \in Seq(Nat)
  /\ Len(Queue) = rbufcount
  /\ \A j \in 1..rbufcount : Queue[j] = acknum - rbufcount + j - 1

LEMMA QueueIs == IInv => QueueFacts
<1> SUFFICES ASSUME IInv PROVE QueueFacts
  OBVIOUS
<1> USE DEF IInv, TypeOK
<1>1. ASSUME NEW j \in 1..rbufcount
      PROVE  rdata[Slot(rbuftail, j - 1)] = acknum - rbufcount + j - 1
  <2>1. j - 1 \in 0..(rbufcount - 1)
    OBVIOUS
  <2>2. rdata[Slot(rbuftail, j - 1)] = acknum - rbufcount + (j - 1)
    BY <2>1 DEF RingOK
  <2>3. QED
    BY <2>2
<1>2. \A j \in 1..rbufcount : rdata[Slot(rbuftail, j - 1)] \in Nat
  BY <1>1 DEF RingOK
<1>3. Queue \in Seq(Nat)
  BY <1>2, IsASeq DEF Queue
<1>4. QED
  BY <1>1, <1>3 DEF Queue, QueueFacts

LEMMA QueueIsNext == IInv' => QueueFacts'
  BY QueueIs, PTL

LEMMA RefineInit == Init => BQ!Init
  BY RingAssumption DEF Init, BQ!Init, Queue

LEMMA RefineDeliver ==
  ASSUME ~Probes, IInv, IInv', QueueFacts, QueueFacts',
         NEW seq \in 0..(MaxByte - 1), NEW len \in 1..Ring, ProcessTcpData(seq, len)
  PROVE  BQ!Next \/ UNCHANGED <<Queue, acknum, out>>
<1> USE RingAssumption
<1>1. CASE acknum = seq /\ acknum - seq <= Ring - rbufcount
  <2>1. /\ acknum' = acknum + len /\ rbufcount' = rbufcount + len /\ out' = out
        /\ rbufcount \in Nat /\ acknum \in Nat /\ len \in Nat \ {0}
        /\ rbufcount' <= Ring
    BY <1>1 DEF ProcessTcpData, BufferDataMove, IInv, TypeOK, RoomToSwallow
  <2> DEFINE new == BQ!Run(acknum, len)
  <2>2. /\ new \in Seq(Nat) /\ Len(new) = len
        /\ \A j \in 1..len : new[j] = acknum + j - 1
    <3>1. \A j \in 1..len : acknum + j - 1 \in Nat
      BY <2>1
    <3> DEFINE run == [j \in 1..len |-> acknum + j - 1]
    <3>2. /\ run \in Seq(Nat) /\ Len(run) = len
          /\ \A j \in 1..len : run[j] = acknum + j - 1
      BY <2>1, <3>1, IsASeq
    <3>3. QED
      BY <3>2 DEF BQ!Run
  <2>3. /\ Queue \o new \in Seq(Nat)
        /\ Len(Queue \o new) = rbufcount + len
        /\ \A j \in 1..(rbufcount + len) :
             (Queue \o new)[j] = IF j <= rbufcount THEN Queue[j] ELSE new[j - rbufcount]
    <3> HIDE DEF new
    <3>1. Queue \in Seq(Nat) /\ Len(Queue) = rbufcount
      BY DEF QueueFacts
    <3>2. /\ Queue \o new \in Seq(Nat)
          /\ Len(Queue \o new) = Len(Queue) + Len(new)
          /\ \A j \in 1..(Len(Queue) + Len(new)) :
               (Queue \o new)[j] = IF j <= Len(Queue) THEN Queue[j] ELSE new[j - Len(Queue)]
      BY <2>2, <3>1, ConcatProperties
    <3>3. QED
      BY <2>2, <3>1, <3>2
  <2>4. ASSUME NEW j \in 1..rbufcount'
        PROVE  Queue'[j] = (Queue \o new)[j]
    <3>1. Queue'[j] = acknum + j - 1 - rbufcount
      BY <2>1 DEF QueueFacts
    <3>2. CASE j <= rbufcount
      <4>1. (Queue \o new)[j] = Queue[j]
        BY <2>1, <2>3, <3>2
      <4>2. Queue[j] = acknum - rbufcount + j - 1
        BY <2>1, <3>2 DEF QueueFacts
      <4>3. QED
        BY <2>1, <3>1, <4>1, <4>2
    <3>3. CASE j > rbufcount
      <4>1. j - rbufcount \in 1..len
        BY <2>1, <3>3
      <4>2. new[j - rbufcount] = acknum + (j - rbufcount) - 1
        BY <2>2, <4>1
      <4>3. (Queue \o new)[j] = new[j - rbufcount]
        BY <2>1, <2>3, <3>3
      <4>4. QED
        BY <2>1, <3>1, <4>2, <4>3
    <3>4. j <= rbufcount \/ j > rbufcount
      BY <2>1
    <3>5. QED
      BY <3>2, <3>3, <3>4
  <2>5. Queue' = Queue \o new
    <3> HIDE DEF new
    <3>1. QED
      BY <2>1, <2>3, <2>4, SeqEqual DEF QueueFacts
  <2>6. len \in 1..(Ring - Len(Queue))
    BY <2>1 DEF QueueFacts
  <2>7. BQ!Accept
    BY <2>1, <2>5, <2>6 DEF BQ!Accept
  <2>8. QED
    BY <2>7 DEF BQ!Next
<1>2. CASE ~(acknum = seq /\ acknum - seq <= Ring - rbufcount)
  BY <1>2 DEF ProcessTcpData, ring, Queue
<1>3. QED
  BY <1>1, <1>2

LEMMA RefineRead ==
  ASSUME IInv, QueueFacts, QueueFacts', NEW len \in 1..Ring, SockRead(len)
  PROVE  BQ!Read
<1> USE RingAssumption
<1> DEFINE n == IF rbufcount > len THEN len ELSE rbufcount
<1>1. /\ out' = WMov(n) /\ acknum' = acknum /\ rbufcount' = rbufcount - n
      /\ n \in 0..rbufcount /\ n \in Nat /\ rbufcount \in Nat /\ acknum \in Nat
  BY DEF SockRead, IInv, TypeOK
<1> HIDE DEF n
<1>2. out' = SubSeq(Queue, 1, n)
  <2>1. \A j \in 1..n : Queue[j] = rdata[Slot(rbuftail, j - 1)]
    BY <1>1 DEF Queue
  <2>2. \A j \in 1..n : Queue[j] \in Nat
    BY <1>1, ElementOfSeq DEF QueueFacts
  <2>3. /\ SubSeq(Queue, 1, n) \in Seq(Nat)
        /\ Len(SubSeq(Queue, 1, n)) = n
        /\ \A j \in 1..n : SubSeq(Queue, 1, n)[j] = Queue[j]
    BY <1>1, <2>2, SubSeqProperties
  <2>4. /\ out' \in Seq(Nat) /\ Len(out') = n
        /\ \A j \in 1..n : out'[j] = Queue[j]
    <3>1. \A j \in 1..n : rdata[Slot(rbuftail, j - 1)] \in Nat
      BY <2>1, <2>2
    <3>2. [j \in 1..n |-> rdata[Slot(rbuftail, j - 1)]] \in Seq(Nat)
      BY <1>1, <3>1, IsASeq
    <3>3. QED
      BY <1>1, <2>1, <3>2 DEF WMov
  <2>5. QED
    BY <2>3, <2>4, SeqEqual
<1>3. Queue' = SubSeq(Queue, n + 1, Len(Queue))
  <2>1. \A j \in (n + 1)..rbufcount : Queue[j] \in Nat
    BY <1>1, ElementOfSeq DEF QueueFacts
  <2> DEFINE rest == SubSeq(Queue, n + 1, rbufcount)
  <2>2. /\ rest \in Seq(Nat)
        /\ Len(rest) = IF n + 1 <= rbufcount THEN rbufcount - (n + 1) + 1 ELSE 0
        /\ \A j \in 1..(rbufcount - (n + 1) + 1) : rest[j] = Queue[(n + 1) + j - 1]
    BY <1>1, <2>1, SubSeqProperties
  <2> HIDE DEF rest
  <2>3. Len(rest) = rbufcount - n /\ Len(Queue') = rbufcount - n
    BY <1>1, <2>2 DEF QueueFacts
  <2>4. ASSUME NEW j \in 1..(rbufcount - n)
        PROVE  Queue'[j] = rest[j]
    <3>1. Queue'[j] = acknum - (rbufcount - n) + j - 1
      BY <1>1 DEF QueueFacts
    <3>2. rest[j] = Queue[n + j] /\ n + j \in 1..rbufcount
      <4>1. j \in 1..(rbufcount - (n + 1) + 1) /\ (n + 1) + j - 1 = n + j
        BY <1>1
      <4>2. QED
        BY <1>1, <2>2, <4>1
    <3>3. Queue[n + j] = acknum - rbufcount + (n + j) - 1
      BY <3>2 DEF QueueFacts
    <3>4. QED
      BY <1>1, <3>1, <3>2, <3>3
  <2>5. Queue' = rest
    BY <2>2, <2>3, <2>4, SeqEqual DEF QueueFacts
  <2>6. QED
    BY <2>5 DEF QueueFacts, rest
<1>4. QED
  BY <1>1, <1>2, <1>3 DEF BQ!Read, QueueFacts

LEMMA RefineNext ==
  ~Probes /\ IInv /\ IInv' /\ QueueFacts /\ QueueFacts' /\ [Next]_vars
    => [BQ!Next]_(BQ!vars)
<1> SUFFICES ASSUME ~Probes, IInv, IInv', QueueFacts, QueueFacts', [Next]_vars
             PROVE  BQ!Next \/ UNCHANGED <<Queue, acknum, out>>
  BY DEF BQ!vars
<1>1. CASE Deliver
  <2>1. PICK seq \in 0..(MaxByte - 1), len \in 1..Ring : ProcessTcpData(seq, len)
    BY <1>1 DEF Deliver
  <2>2. QED
    BY <2>1, RefineDeliver
<1>2. CASE Read
  <2>1. PICK len \in 1..Ring : SockRead(len)
    BY <1>2 DEF Read
  <2>2. QED
    BY <2>1, RefineRead DEF BQ!Next
<1>3. CASE HearAdvert \/ SockWrite \/ CheckSockets \/ PeerAck \/ UNCHANGED vars
  BY <1>3 DEF HearAdvert, SockWrite, CheckSockets, PeerAck, vars, ring, Queue
<1>4. QED
  BY <1>1, <1>2, <1>3 DEF Next

\* The receive side of a socket implements the byte queue: what a program
\* reads is the peer's stream, once each and in order.
THEOREM Refinement == ASSUME ~Probes PROVE Spec => ImplementsByteQueue
<1>1. Init => BQ!Init
  BY RefineInit
<1>2. IInv /\ IInv' /\ QueueFacts /\ QueueFacts' /\ [Next]_vars => [BQ!Next]_(BQ!vars)
  BY RefineNext
<1>3. IInv => QueueFacts
  BY QueueIs
<1>4. QED
  BY <1>1, <1>2, <1>3, Invariance, PTL DEF Spec, BQ!Spec, ImplementsByteQueue
=============================================================================
