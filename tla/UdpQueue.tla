------------------------------ MODULE UdpQueue ------------------------------
(***************************************************************************)
(* The receive ring of a datagram socket: udp() stores each datagram       *)
(* behind a header with its source and length, AJK_recvfrom takes one out, *)
(* AJK_sockdepth tells the program how much waits.  The ring keeps what    *)
(* was written, also what was read already.                                *)
(***************************************************************************)
EXTENDS Integers, Sequences, FiniteSets, FiniteSetsExt

CONSTANTS Ring,       \* MAXTAILR
          Header,     \* bytes of the header udp() stores, 10 in the code
          Overhead,   \* IP and UDP headers, counted by udp()'s room test, 28
          Lengths     \* of the payloads that come in

ASSUME UdpAssumption ==
    /\ Ring \in Nat \ {0} /\ Header \in Nat /\ 1 < Header /\ Header < Ring
    /\ Overhead \in Nat /\ Overhead > Header
    /\ Lengths \subseteq Nat

VARIABLES udp,        \* the socket: [ring, head, tail, count]
          taken,      \* what the last AJK_recvfrom gave the program
          astray      \* a ghost: a read went past the last datagram

udpVars == <<udp, taken, astray>>

Slots == 0 .. Ring - 1
Garbage == [len |-> 0, what |-> "garbage"]

(* A fresh ring: what malloc returns is no datagram anyone sent.            *)
Fresh == [ring |-> [p \in Slots |-> Garbage], head |-> 0, tail |-> 0, count |-> 0]

(* k times incchk, which is also how bufferdatamove moves the head.         *)
Walk(i, k) == (i + k) % Ring

(* The distance a walk from i to j covers.                                  *)
Distance(i, j) == (j - i) % Ring

(* slip: the room test forgets that the ring is not empty *)
RoomAll(u, n) == Ring >= n + Overhead
(* Room is tested with the length of the whole packet.                      *)
Room(u, n) == Ring - u.count >= n + Overhead

(* A cell is named by the datagram whose header begins there.               *)
Record(d, p, k) == [q \in {Walk(p, j) : j \in 0 .. k - 1} |->
                      IF q = p THEN d ELSE Garbage]

Store(u, d) ==
    LET size == Header + d.len
        cells == Record(d, u.head, size)
    IN IF ~Room(u, d.len) THEN u
       ELSE [ring |-> [p \in Slots |-> IF p \in DOMAIN cells THEN cells[p] ELSE u.ring[p]],
             head |-> Walk(u.head, size), tail |-> u.tail, count |-> u.count + size]

(* What stands at the tail is taken for a datagram.                         *)
First(u) == u.ring[u.tail]

(* slip: the tail moves as far as the count goes down *)
RecvFromNine(u, n) == [u EXCEPT !.tail = Walk(@, n + Header - 1), !.count = @ - (n + Header - 1)]
(* The tail moves past header and n bytes, whatever the caller's buffer     *)
(* holds; the count goes down by one less.                                  *)
RecvFrom(u, n) == [u EXCEPT !.tail = Walk(@, Header + n), !.count = @ - (n + Header - 1)]

SockDepth(u) == u.count

-----------------------------------------------------------------------------
(* The headers that stand from the tail up to the head.                     *)
Headers(u) == {p \in Slots : /\ u.ring[p] # Garbage
                             /\ Distance(u.tail, p) < Distance(u.tail, u.head)}
Rank(u, p) == Cardinality({q \in Headers(u) : Distance(u.tail, q) < Distance(u.tail, p)})

(* The datagrams that wait, read off the ring from tail to head.            *)
Waiting(u) == [i \in 1 .. Cardinality(Headers(u)) |->
                 u.ring[CHOOSE p \in Headers(u) : Rank(u, p) = i - 1]]

UdpInit == udp = Fresh /\ taken = -1 /\ astray = FALSE

(* A datagram for this socket's port.                                       *)
Arrive(n) == /\ ~astray
             /\ udp' = Store(udp, [len |-> n, what |-> "sent"]) /\ UNCHANGED <<taken, astray>>

(* Behind the last datagram the ring holds anything, taken for a length.    *)
AtTail(u) == IF Waiting(u) # <<>> THEN {First(u).len} ELSE Lengths

(* AJK_recvfrom: EWOULDBLOCK only when the count is zero.  Once a read has  *)
(* gone past the last datagram, nothing but a close is followed.            *)
Read(len) ==
    /\ ~astray
    /\ IF SockDepth(udp) = 0 THEN taken' = -1 /\ UNCHANGED <<udp, astray>>
       ELSE \E n \in AtTail(udp) : /\ taken' = Min({len, n}) /\ udp' = RecvFrom(udp, n)
                                   /\ astray' = (Waiting(udp) = <<>>)

(* Closed and opened again: the ring is allocated anew.                     *)
Reopen == udp' = Fresh /\ taken' = -1 /\ astray' = FALSE

UdpNext == \/ \E n \in Lengths : Arrive(n)
           \/ \E len \in Lengths : Read(len)
           \/ Reopen

UdpSpec == UdpInit /\ [][UdpNext]_udpVars

-----------------------------------------------------------------------------
UdpTypeOK == /\ udp.head \in Slots /\ udp.tail \in Slots /\ udp.count \in Int
             /\ taken \in Nat \cup {-1} /\ astray \in BOOLEAN

(* How far from the tail records begin, and the last of them ends.          *)
Marks(u) == {Distance(u.tail, p) : p \in Headers(u) \cup {u.head}}

(* The tail stands at a header, if anything waits, and every datagram ends  *)
(* where the next begins or at the head, so that no header is read from the *)
(* middle of another datagram, also after a read into too small a buffer    *)
(* and however far the count has drifted from what the ring holds.          *)
Tiled(u) ==
    /\ 0 \in Marks(u)
    /\ \A p \in Headers(u) :
         LET here == Distance(u.tail, p)
             next == here + Header + u.ring[p].len
         IN next \in Marks(u) /\ \A k \in Marks(u) : k <= here \/ next <= k
RecordsAligned == astray \/ Tiled(udp)

(* At any time the queue can be read record for record (socket.c:1084).     *)
DatagramsSound == UdpTypeOK /\ RecordsAligned

Lens(s) == [i \in DOMAIN s |-> s[i].len]
Promise == INSTANCE DatagramQueue
             WITH waiting <- IF astray THEN <<>> ELSE Lens(Waiting(udp)),
                  bytes <- IF astray THEN 0 ELSE Distance(udp.tail, udp.head),
                  used <- ~astray /\ udp.count # Distance(udp.tail, udp.head),
                  spoilt <- astray, Capacity <- Ring, Extra <- Header

(* Datagrams come out whole, once and in order.  An empty socket says that  *)
(* it is empty until its first datagram has been read; from then on a read  *)
(* of the empty socket, and nothing else, spoils it (udp.c:136,             *)
(* socket.c:1049-1086).                                                     *)
ImplementsDatagrams == Promise!Spec

(* A read of a socket in which no datagram waits gives nothing: EWOULDBLOCK *)
(* (socket.c:1049).  It does not hold (README, section 5), and no run       *)
(* checks it.                                                               *)
NothingFromEmpty ==
    [][\A len \in Lengths : Waiting(udp) = <<>> /\ Read(len) => taken' = -1]_udpVars
=============================================================================
