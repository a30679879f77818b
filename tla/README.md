# Verification of the AJK TCP/IP stack

TLA+ models, TLC runs and TLAPS proofs for `ajkstack`, a small polled TCP/IP
stack written in C for CP/M, DOS, ELKS, Linux and Arduino. File names without a
directory are those of `src/`. `PROJECT.json` maps every definition to the lines
it stands for.

## 1. Inventory

The stack is single-threaded. Every socket call runs `schedulestuff()`
(socket.c), which is one step of `check_sockets()` (one slot per call, round
robin) and one `TRANSPORT` poll (`sliprxtx()` or `arcrxtx()`), in which at most
one packet is received and handled. There are no locks: what makes the code hard
is that **any call that polls lets the stack change any socket before the next
line of the caller runs**. Two parts really are concurrent: the DOS serial
driver, where an interrupt handler runs beside the main program, and the Arduino
build, where programs and the stack are tasks that exchange messages.

| component | state | operations | interacts with | correct means |
|---|---|---|---|---|
| receive ring and window (tcp.c `processtcpdata`, tcpx.c `bufferdatamove`, socket.c `AJK_sockread`) | `rdatapointers`, `rbufhead/tail/count`, ACKNUM, window sent | take a segment, read, advertise | the peer through the window, nuke | ring consistent, no overrun, window promises kept, room is announced |
| TCP connection (tcp.c, tcpx.c, socket.c) | SOCKST, SEQNUM, ACKNUM, `wbufcount`, `sockdlen`, `sockexpecting`, `errortx` | the state handlers, `sendsocket`, `check_sockets`, open, write, read, flush, close | the link, the program | the stream arrives once and in order; lost segments are made up for; close is seen |
| socket table (socket.c, tcp.c `nuke_tcp_socket`) | slots' SOCKST, SPARET, SPARPO, buffer pointers, the queue in a listener's `rdatapointers` | socket, connect, bind, listen, accept, close, nuke, collect | all sockets | queue and children agree; no slot has two owners |
| UDP sockets (udp.c, `AJK_recvfrom/sockdepth`) | datagrams as records in the receive ring | store, recvfrom, depth | packet buffers, resolver | datagrams come out whole, once; the count matches the contents |
| packet buffers, SLIP, IP, fragments, ICMP (slip.c, ip.c, icmp.c) | `bufptrs`, `txrxflags`, `fragtime` | receive, ip, reassemble, reply, free, transmit | tcp, udp | each buffer has one owner and is freed once; the receiver always finds one again |
| ARCNET transport (arcnet.c) | the controller's two pages, `did` | `findgateway`, `arcrx`, `proc_arp`, `arctx` | packet buffers | pages are not written while in use; frames can be read back; never deaf |
| DOS serial driver (dosuart.c) | two rings, RTS, the transmit interrupt | `serial_ISR`, `checkdata`, `infromdev`, `outtodev` | the chip, SLIP | counts and indices agree, no byte lost, flow control released |
| task interface (ajkstack.cpp) | two message ports | request, serve, reply | socket calls | one reply per request, to its own sender; nothing leaks |
| servers (httpd.c; daemon.c) | stream table, listener's queue | accept, read, serve, inactivity, kill | socket calls | no stream, socket or file is lost; every stream ends |
| resolver (netutil.c) | one UDP socket, allocated blocks | query, retry, answer | UDP sockets | the answer belongs to the question; nothing leaks; lookups end |
| clients (ftp.c and others) | command and data connection, lines read | commands, transfers, mget | socket calls | in step with the server; data connections closed; files whole |
| checksum and word helpers; start-up; polled drivers; examples | - | - | - | no state of their own, or I/O (section 6) |

The hazards of the code are listed, each at its line, in `PROJECT.json`.

## 2. Modules

```
ByteQueue  <--refined by--  RecvRing  <-- RecvRing_proofs (theorems)
                            MCRecvRing
Netinet <-- TcpSocket <-- TcpLink <-- TcpLink_proofs (theorems), MCTcpLink
Netinet <-- SocketTable <-- SocketTable_proofs (theorems), MCSocketTable
DatagramQueue  <--refined by--  UdpQueue
UdpQueue, Resolver <-- MCResolver
PacketPool, UdpQueue, Resolver <-- Datagrams_proofs (theorems)
PacketPool <-- MCPacketPool
Arcnet <-- Arcnet_proofs (theorems), MCArcnet
SerialLine  <--refined by--  DosUart <-- DosUart_proofs (theorems), MCDosUart
TaskPort <-- TaskPort_proofs (theorems), MCTaskPort
Httpd, Ftp <-- Programs_proofs (theorems)
Httpd <-- MCHttpd      Ftp <-- MCFtp
```

**ByteQueue** - what the receive side of a stream socket promises: bytes come
out once each and in order, at most `Capacity` wait.

**RecvRing** - one ESTABLISHED socket's ring with the window it advertises.
A byte is its position in the peer's stream. `ProcessTcpData` is
`processtcpdata` and the `sendsocket` that answers it; `SockRead` is the whole
of `AJK_sockread`, its condition for advertising included; `SockWrite`,
`CheckSockets` and `PeerAck` move the send side among idle, unsent and in
flight, which is all the receive side looks at. The peer sends any segment its
window has ever allowed, again and in any order; advertisements may be lost.
With `Probes` it also probes a closed window with one byte.

**TcpSocket** - one stream socket as a record, every handler of tcp.c, the
segment builder, `sendsocket` (`SendSocket`, with `Unsent` for what it finds to
send, `Portion` for what fits into the segment and `MayPush` for the end of a
message), the socket's part of `check_sockets`, read, write
and the parts of close, as operators from a record to a result. Sequence numbers
are taken modulo `SeqSpace`, differences modulo `LongSpace` (the range of
`unsigned long`). Bytes are positions, so ghost fields can tell whether what was
accepted (`intact`, `taken`), released (`base`) and read is right.

**TcpLink** - two hosts with one socket each, a client and a child of a
listening server, their programs (connect, accept, write, read, close in the
steps into which polling divides them) and what is between them: a serial link
that keeps the order and may garble `MaxLoss` segments, or (`Routed`) a network
that delivers anything ever sent, at any time, again. `Hasty` lets timers expire
while the answer is still on its way; otherwise they expire when nothing moves
any more, which is what the calibrated `RETRYTIME` is for.

**SocketTable** - the slots. `AJK_socket` (findfreeslot), `AJK_connect`,
`AJK_bind`, `AJK_listen`, `AJK_accept` (an action per queue entry it looks at),
`AJK_sockclose` (an action per child, and per stretch of `sockAclose` between
polls), `nuke_tcp_socket`, and what the stack may do to a slot in any poll:
`Segment`, `LastSegment`, `Reset`, `Expire`, `Collect`. The program may make any
call on any descriptor it has: it may listen again on a socket that listens
already (a new queue, and the old children forgotten), ask for a slot before the
reset child that had it is collected, and close a listener before its accepted
children. Of a slot's buffers there is whether the read buffer is a queue, and
of how many places (`room`, `socks`, `queue`). Two fields are history: `left`,
this child's listener has forgotten it, by listening again, by closing while a
program held the child, or because another was put in its place; and `wild`, its
number was written where there is no queue. What accept and close do after a
second listen that failed, when they read a freed queue, is undefined and not
followed (`QueueGone`).

**DatagramQueue**, **UdpQueue** - what a datagram socket promises, and the ring
that keeps it: `Store` is the end of `udp()`, with its header of ten bytes and
its room test on the whole packet's length; `RecvFrom` is `AJK_recvfrom`, whose
tail moves over all of header and data while the count goes down by one less;
`SockDepth` is `AJK_sockdepth`. A cell of the ring is named by the datagram whose
header begins there, so a tail that stops in the wrong place reads garbage. A
read of an emptied socket takes whatever stands at the tail for a length
(`AtTail`) and leaves the ring `astray`: nothing but a close is followed then. The
abstract queue says the same in its own terms: `TakeNothing` from a fresh socket,
`Spoil` from one that was used.

**Resolver** - `gethostandip` and `findhost`: four allocations that may each fail,
the question, its retries, the answer, and the labels at the end that free what
each way out holds. Questions and answers are lost, delayed and overtaken, also
those of earlier lookups, which all use port 8192; `Timeout` may come at any
moment while nothing waits. `late` is history: messages were still under way when
this lookup opened its socket.

**PacketPool** - the packet buffers through a poll of the SLIP transport:
`TxWalk`, `DoTcpip` (a turn of `dotcpip`'s loop), then one of `NoBuffer`,
`Sacrifice` (no memory), `PartOfFrame`, `EndOfFrame`. `Ip` gives what `ip()` may
make of a packet: reassembly (`CoalesceFrags`, `Join`), `Icmp`, `Tcp`, `Udp`,
error replies. A packet is what these tell apart. `Clock` chooses how timers
move: "prompt" (a poll falls on every tick), "free", or "counted" (the build
without a clock, where each look at a timer advances it).

**Arcnet** - the other transport. The receive page is closed from the arrival of
a packet until `outp(WCOM, 0x84)`; the transmit page is busy until the controller
is done, which `txok` waits for or cancels. `AskGateway` and `arcrx` in `listen`
are `findgateway`; `Walk`, `DoTcpip` and `arcrx` in `rx` are `arcrxtx`; an ARP
request takes a second step, `Answer`, for `txok` waits in between. The layout of
a frame is arithmetic on the packet's real length (`Octets`, `Count`, `Padding`),
as is its reading on the other side (`Begins`, `Unpacked`).

**SerialLine**, **DosUart** - what a serial driver promises, two queues, and the
interrupt driven driver: `Isr` may come between any two steps of the main
program, whose routines are split where they touch what both share (the counters
are changed with interrupts disabled, the indices are not). The chip is its two
holding registers, the interrupt enable and the modem lines; the peer stops
`Overshoot` bytes after RTS falls; `Burst` bytes may come between a test and the
next `outp`.

**TaskPort** - programs as tasks: each call allocates a request, sends it to the
stack's task and waits for the reply; `IpTask` starts the stack, takes a request,
serves, replies, frees. The ports are boxes of one message. No call looks at
`network_booted`; `AwaitNetwork` is the loop in front of every example program.

**Httpd** - the loop of `httpd.c`: AJK_acceptready and AJK_accept, then for each
stream the inactivity test, `more`, the header, the file block by block, `killit`.
Sockets are the listener's children; their clients connect, send a request whole
or in parts, fall silent, close or reset between any two calls. A child that was
reset (`Collect`) or whose bytes nobody acknowledges (`GiveUp`) listens again, also
while a stream still holds it; `stray` is the set of those that did. When a
connection is ready and every stream is taken, the program writes past the table
(`Overrun`) and is followed no further.

**Ftp** - the command line client: `waitio`'s reading of lines, the number the
program acts on, passive connections, `get`, `put`, `dir`, `mget`. The server
answers anything it may, breaks transfers off, or leaves. `Begins` are the
replies with which it announces a transfer.

**Netinet** - the state codes, whose numeric order the code relies on.

Slips (`NukeOrphan`, `CloseKeeps` and the like, marked so) are mutated forms of the
definition that follows them, used to see that each property can fail.

## 3. Runs

| run | checks | shows |
|---|---|---|
| ring | Consistent, EdgeNeverRecedes, ImplementsByteQueue, ReaderIsHeard | a peer that obeys the window never overruns the ring; the window never recedes; the ring is a byte queue; a program that only reads keeps the peer informed |
| link | SocketSound, StreamIntact, AckedWasTaken, ReadInOrder | two segments lost, closes at any time: streams and send buffers stay right |
| link_routed | StreamIntact | what a socket accepts is the peer's stream, also under repetition, reordering, delay and early timers |
| link_live | AllTaken, FinGetsThrough | what is lost on an open connection arrives in the end, unharmed, across the wrap of the sequence numbers; where nothing is lost, the peer's close is seen |
| table | TableSound, NoWildWrite | listener, queue and children agree in any use of the calls, but for the children a listener has lost, and only those write where there is no queue |
| pool | BuffersSound, NeverDeaf | a buffer has memory exactly while it has an owner; a datagram is put together in one buffer; the receiver finds a buffer again and again |
| resolver | DatagramsSound, ImplementsDatagrams, LookupSound, AnswerBelongs, LookupEnds | the tail stays on a header; datagrams come out whole, once and in order; only a read of an emptied socket spoils it; every way out of a lookup frees what it holds; an address of another name comes only from a message of an earlier lookup that was under way when this one began; lookups end |
| uart | UartSound, ImplementsSerialLine, TxDrains, RtsReleased | counts and indices agree whenever the interrupt may look; no byte is dropped; both directions are queues; what is written leaves, a stopped peer is let go on |
| task | MessagesSound, OwnReply, CallsReturn | no message is overwritten, nothing leaks, calls return, and one user gets its own replies |
| httpd | StreamsSound, StreamsEnd | a ready connection finds a stream unless a socket has listened again behind a stream's back, which harms no other socket's stream; no file is left open; no stream keeps its socket for ever once clients are silent |
| ftp | FtpSound, InStep, FileWhole, ComesBack | the client acts on the answer to its last command, leaves no data connection, fetches whole files, comes back to its user |
| arcnet | ArcnetSound, RxPageKept, TxPageKept, GatewayKept, NeverDeaf, EverySent | frames can be read back, pages are left alone while in use, the gateway stays, what is queued leaves, the receiver is armed again |

A datagram socket and a lookup share nothing but the stack, so run resolver explores
each with the other at its beginning (`MCSpec`). The modules also state what the
comments and checks of the code promise and the code does not keep (`AcceptsOwn`,
`NoneLeftListening`, `OnlyWhole`, `NothingFromEmpty`, `MatchingAnswer`,
`StreamForAll`); no run checks these, and section 5 tells what happens.

The invariant of a module, `Consistent` or `...Sound`, is the conjunction of its
type invariant and of named parts, each with its own comment:

| invariant | parts, beside TypeOK |
|---|---|
| Consistent | RoomToSwallow, WindowPromise, RingOK |
| SocketSound | InFlightBuffered |
| TableSound | ChildrenKnown, ListenersQueued |
| BuffersSound | NothingStale, OneReassembly |
| DatagramsSound | RecordsAligned |
| LookupSound | NothingLeaks |
| UartSound | RingsAgree, NothingDropped |
| MessagesSound | NothingLost, NothingLeaks |
| StreamsSound | StreamFound, OneStreamEach, FilesTied |
| FtpSound | DataClosed |
| ArcnetSound | WellFramed |

### Bounds

* RecvRing: `Ring` 5 and `LowMark` 2 are the smallest ring with all of
  `AJK_sockread`'s cases (short read, empty, past half full, neither); `MaxByte`
  11 is twice round the ring and one more. The theorems have no such bound.
* TcpLink: `Mss` 1, write buffer 1 to 3, two bytes from the client and one from
  the server: several segments in flight, partly acknowledged. `MaxErr` 1 or 3
  for the code's 10. `MaxLoss` 2 lets the first sending and a later one or its
  acknowledgement be lost. `MaxNet` bounds segments under way (on a routed
  network: different segments ever sent to a host); what does not fit is not
  sent, as when no packet buffer is free. Five are a SYN, its ACK, two data
  segments and a FIN, all of which may come again. `SeqSpace` 8 and `Isn` 6 put
  the wrap between handshake and data.
* SocketTable: three slots: a listener with two children, a listener, a child and
  a client, or two listeners that share a slot in turn; backlog 2, so that a
  second listen may make the queue shorter; a program holds at most `MaxHeld` 2
  slots it asked for, each at most twice. The theorems have no such bound.
* UdpQueue: a ring of 12 with headers of 2 holds one to six datagrams of 0, 1 or 3
  bytes and wraps inside each part of a record; `Overhead` 3 for the code's 28 lets
  the ring fill up to one cell.
* Resolver: two names, two sendings (29 in the code), three messages under way: the
  last question of one lookup, and question and answer of the next.
* PacketPool: four buffers, so that a datagram, a stray piece, a reply and the
  frame that comes in compete; three pieces, so that one can be missing in the
  middle; `FragTime` 2 lets a piece come between two ticks.
* DosUart: a receive ring of 5 with marks at 1 and 3 has every case of
  `serial_ISR` and `checkdata`; a transmit ring of 2 is full with one byte. Bytes
  are numbered modulo 2, enough to see one lost, doubled or exchanged.
* TaskPort: two programs, two kinds of call. Httpd: two children and two streams
  (the backlog is MAXSTREAMS, so there is a stream for each child, and one of the
  two is enough to fill both), an inactivity limit of 1 for 5000, requests for files
  or not understood (`Asked`), files of one block, requests in two parts. Ftp: files
  of two blocks, lists of two names.
* Arcnet: three buffers; lengths 252, 255, 256, 507 and 512, at the edges of the
  frame's cases; two requests of two looks. The theorems have no such bound.

### Fairness

RecvRing's `FairSpec`: the application goes on reading and the stack polling
(every call polls), the peer answers, an advertisement that stands is heard.
TcpLink's: on each host the stack's steps, as one action, and the program's
steps, as one, are weakly fair: the program is a loop of calls, each of which
polls. `Steady` confines losses to the open connection, for the handshake does
not survive them (section 5). ReaderIsHeard assumes that the program never has
bytes of its own unacknowledged (section 5).

PacketPool: the program polls, and the clock moves. Resolver: `findhost` goes on,
and the network delivers or loses. DosUart: the main program goes on reading and
polling and is not interrupted for ever; interrupts are served; the line takes
what is sent, and CTS rises again. TaskPort: the stack's task goes on; a task
that waits for a box gets it in the end (strong, for others take it too). Httpd:
the server loops, and what it sends is acknowledged, refused or given up by
the stack's own timers; StreamsEnd assumes silence of the clients, and that the
table was not overrun. Ftp: client
and server go on. Arcnet: the program polls, transmissions end, memory comes
back (strong: packets may arrive meanwhile), and so do fragments, which
PacketPool's NeverDeaf shows to be what timers do.

`CHECK_DEADLOCK FALSE` only in arcnet, where the program ends if there is no
gateway. TcpLink's `Idle` and SocketTable's `Ended` stand for a finished system.

## 4. Proofs

`RecvRing_proofs` proves for every `Ring`, `LowMark`, `InitWin` and `MaxByte`,
assuming `RingAssumption` and a peer that does not probe (`~Probes`, which
section 5 shows to be needed):

* **TypeCorrect, NoOverrun, PromiseKept, RingConsistent**, and **Consistency**
  for the four together: `Spec => []Consistent`, the invariant of run ring;
* **WindowMonotone**: `Spec => EdgeNeverRecedes`;
* **Refinement**: `Spec => ImplementsByteQueue`.

The inductive invariant `IInv` is the conjunction of the four. None is inductive
alone: that a segment fits (RoomToSwallow) needs the window promise, which needs
the count bounded to keep its arithmetic natural; that the ring's contents are
the last `rbufcount` bytes before `acknum` (RingOK) is kept by a delivery only
if it does not overrun. `SlotSlot` and `DistSlot` say what `incchk` does:
walking k and then m places is walking k + m, and walking and measuring are
inverse. `DeliverStep`, `ReadStep` and `OtherStep` take the actions one by one
and also show that `edge` does not fall. The refinement maps the queue to the
`rbufcount` bytes from the tail on; a delivery is an append of consecutive
positions, a read removes from the front, everything else stutters.

`Arcnet_proofs` proves for any number of buffers, other stations, tries and looks
and any set of lengths up to MAXMTUMRU, assuming `ArcnetAssumption`:

* **FramesRight**: `Spec => []WellFramed`, by `FramesFit`: the three ranges of
  length, short, stretched and long, each by arithmetic;
* **RxPageAlone**: `Spec => RxPageKept`, by `Overruns`, the same three ranges: of
  the lengths up to 511 only 256 runs past the end of the page;
* **TxPageAlone**: `Spec => TxPageKept`, from the guards alone;
* **GatewayStays**: `Spec => GatewayKept`;
* **TypeCorrect**: `Spec => []TypeOK`, and **Sound**: `Spec => []ArcnetSound`.

Its inductive invariant adds `Places` to the types: what the program knows of the
gateway and of its loop indices at each place. Without it the number of looks
has no bound, for `Returns`, which is arcrx's way back to either of its callers,
goes by `did` alone, and a buffer sent without a gateway would be thrown away.
`ReturnsTo` and `HandledTypes` are the lemmas for arcrx's way back and for what
ip() does to the buffers.

`TaskPort_proofs` proves for any finite set of programs and any set of calls,
assuming `TaskAssumption`:

* **Messages**: `Spec => []MessagesSound`: nothing is overwritten in a box of one
  message, and the blocks allocated are those that a message or a task names;
* **OwnReplies**: `Spec => []OwnReply`.

`IInv` adds to the types: `Booting` (nothing is asked before the ports exist),
`Asked` (who waits is a user and wants something), `Balance` (as many messages in
the boxes and in the stack's hands as programs wait: with `OneMore`, `OneLess`
and `AsMany` this is counted, not listed), `Accounted` (where each block is
named) and `Alone` (a lone user's message carries its own call). Balance is what
makes the boxes of one message enough; no part is inductive without it.

`DosUart_proofs` proves for every size of the two rings, every pair of marks and
any bytes, assuming `UartAssumption`:

* **RingsSound**: `Spec => []UartSound`: the indices and counts agree wherever the
  interrupt may come, and no byte of a peer that heeds RTS is dropped;
* **Refinement**: `Spec => ImplementsSerialLine`.

`IInv` adds `Steps` (between the two halves of a routine that the interrupt may
divide, what the first half saw still holds of the count) and `Flow` (RTS is up
only below the high mark; with RTS down the peer sends at most `Overshoot` more).
The proof needs `LowWater + Burst < HighWater`: the comment at dosuart.c:42 asks
only that HIGHWATER exceed LOWWATER, which leaves no room for the byte that comes
between the test at the low mark and the `outp` that raises RTS; with the file's
values, 8 and 15, up to six such bytes are harmless. A ring's bytes are
`Window(ring, count, size)`, a sequence; `WindowPush` and `WindowPop` show that a
store at the head appends and a step of the tail removes the first byte, and the
refinement is these two lemmas action by action.

`Programs_proofs` proves for any number of streams, of children up to it, of blocks
and rounds, assuming `HttpdAssumption` and nothing of the clients, **TableSound**:
`Spec => []StreamsSound`. That a ready connection finds a free stream while no
socket is stray is a pigeonhole (`SomeFree`): one child is in the queue, no child is
in two streams, so not all streams hold one. `IInv` adds `Places`: what the server
knows of stream `i` at each place of its loop. `Outside` is the lemma for all that
clients and stack do: the table does not see it, as long as a socket that is queued
again behind a stream's back becomes a stray.

The same module proves for the FTP client, for files of any number of blocks and
any other replies that begin a transfer, assuming `FtpAssumption` and
`125 \notin Begins` (section 5 shows it to be needed),

* **ClientIsSound**: `FtpSpec => []FtpSound`;
* **ClientInStep**: `FtpSpec => []InStep`;
* **FetchedWhole**: `FtpSpec => FileWhole`.

The invariant, `ClientInv`, is about the lines the program has not taken yet: those
in its hands, in its buffer and under way, as one sequence (`Untaken`), which
reading and cutting leave as it is. `Owed` says what they may be: all belong to
the last command, or are the good-bye of a server that leaves; behind the end of
an answer comes nothing but a good-bye; one line begins a transfer and only where
the program awaits it (`Tame`). `Acting` says that wherever the program is about to
send a command, nothing is owed to it (`Quiet`); this is what InStep needs and what
a `125` the program takes for the end of an answer destroys. `Connection` ties the
data connection to the transfer asked for, and `Whole` counts the blocks: on the
disk, under way, still at the server.

`Datagrams_proofs` follows a datagram from the packet buffers to the resolver.
For any number of buffers and datagrams, any pieces and any clock, it proves

* **BuffersAgree**: `PoolSpec => []BuffersSound`.

`PoolInv` says of each buffer that it has memory exactly while it has an owner and
that pieces are only in a buffer that is a fragment or awaits its second look
(`CellRight`); of any two, that they do not hold fragments of one datagram
(`Apart`); and of the phases of a poll, below which buffer nothing is left to be
looked at and that what stays SWALLOWED is a reset for nobody (`Parked`). A packet
may be handled by freeing, rewriting or parking its buffer and by freeing
fragments elsewhere: `Quieter` is what all of these leave of the other buffers, so
that `Apart` and `Parked` need to be looked at only where a packet is parked or
joined (`StartRight`, `JoinRight`).

For every ring, header and set of lengths it proves, assuming `UdpAssumption`,

* **SocketsReadable**: `UdpSpec => []DatagramsSound`;
* **SocketIsADatagramQueue**: `UdpSpec => ImplementsDatagrams`, the reads of an empty
  socket included: from a fresh one they give nothing, and from one that was used
  they, and nothing else, spoil it.

The ring's invariant, `RingRight`, is that records tile it from tail to head and
that the count is at least that distance: it is one more for each datagram read,
which keeps the room udp() sees no larger than there is. `RingRanks` numbers the
headers in their order, so the waiting datagrams are a sequence; `StoreRight` with
`StoredLast` and `ReadRight` with `ReadFirst` say that a store appends to it and
that a read takes the first. `Overhead > Header`, the gap between what `udp()` asks
for and what it stores, is an assumption with the code's values 28 and 10: without
it a full ring would look like an empty one.

For any names, number of sendings and of messages under way, assuming
`ResolverAssumption` and nothing of the network, it proves

* **LookupsAreSound**: `Spec => []LookupSound`;
* **AnswersBelong**: `Spec => []AnswerBelongs`.

`LookupRight` says which blocks are held at each place of `findhost`; `Present`
that what is under way or waits is of the present question where nothing was under
way when the socket was opened, and that a closed socket keeps nothing for the next.

`SocketTable_proofs` proves for any number of slots, any backlog, any number of
descriptors, with datagram sockets or without, whether or not memory may fail,
assuming `TableAssumption` and nothing of the program,

* **TableAgrees**: `Spec => []TableSound`;
* **OnlyTheLeftWrite**: `Spec => []NoWildWrite`.

The inductive invariant, `Sound(t, h, c)`, is a predicate of any table,
descriptors and call, so that a lemma can speak of a table half way through a
step. Its parts:

* `Typed`: beside the types, that no slot is its own parent, that a queue has no
  more children than places, and that only a child that was left wrote wild;
* `Kept`: a child that was not left has a bound parent, a place that was filled and
  that it shares with no other such child; it stands there, or a program has it.
  A child that is given back is written where *it* says, so this is what makes the
  write land in its own place;
* `Listeners`: what listens stands in its place, or is being closed, or was left;
* `Callers`: what a call knows of its descriptor: accept and close are at a bound
  parent, and a close that has got to the listener itself has no child left to it.

The lemmas follow the code: `NukeChild` and `NukeAny` for `nuke_tcp_socket`,
`Touch` for a slot that changes without becoming bound or listening (most steps
of the stack), `LeaveThem` for children that are forgotten, `Descriptor` for a slot
that is handed out, whoever's child it still was, `TakeOut` for accept, `DisownIt`
and `ClosedStep` for close. That `AJK_listen` gives every place one child rests on
`Ranks`: `findfreeslot` numbers the closed slots from 1 on without gaps, which is a
counting argument (an injection of a finite set into an interval of its size is
onto). TLC checked the invariant on the run table's constants before it was proved.

`TcpLink_proofs` proves for every segment, buffer and stream length, every number
of losses, timeouts and messages under way, on the serial link and (but for the
last two theorems) on the routed network alike, with timers that expire early or
late (but for the last theorem) and closes at any time, assuming `TcpAssumption`,
`LinkAssumption` and

* `Short`: the client's stream has fewer bytes than there are sequence numbers
  (a longer one could meet a segment of the last time round, which nothing in the
  code would tell apart), and `unsigned long` has 32 bits or at least 33;
* for all but the first, `Quiet`: the server's program writes nothing;
* for the last two, `Serial`: `Short`, `Quiet`, a serial line, and 32-bit `unsigned long`
  (the compilers of the DOS, CP/M and Arduino builds; section 5 has what goes wrong
  with 64);
* for the last, `Unhurried`: no timer expires while an answer is under way (`Hasty`
  FALSE, as in the run link), and the stream is two bytes shorter than the numbers
  go round, so that no two of its bytes, nor its FIN, share a number;

that

* **StreamArrives** (`Short`): `Spec => []ClientStream`: what the server's socket
  accepts is the client's stream, and the client releases no byte that the server
  has not accepted, whatever is lost, repeated, delayed or overtaken;
* **IntactStreams** (`Short`, `Quiet`): `Spec => []StreamIntact`;
* **AckedTaken** (`Short`, `Quiet`): `Spec => []AckedWasTaken`;
* **ReadsInOrder** (`Serial`): `Spec => ReadInOrder`: what a program reads continues
  what it read before, with no byte twice and none skipped;
* **SocketsSound** (`Serial`, `Unhurried`): `Spec => []SocketSound`: both sockets
  are well typed and count no more in flight than they have buffered.

`Quiet` is there because the two directions are not alike: the client is never
reconnected, but the server's child may be reset and listen again, and then
begins to count its own bytes anew while the client's state is of the first
connection. The first theorem does not need it. The inductive invariant is
`Start`, before the client's connect, or `Inv(i)` for the number `i` that it took:

* `Sender`: the client's sequence number is `i + 1 + base`, what is in flight is
  buffered, and `base` has not passed `most`, the server's progress;
* `Receiver`: the child's acknowledgement number is `i + 1 + taken` and `taken` has
  not passed `most`, the most that was ever accepted. The two differ after a child
  was reset, listens again and takes an old SYN of the same client;
* `FromClient`: what any segment ever sent to the server may say: its number is
  that of its first byte, a SYN carries `i` and a FIN is under way only once the
  client is past closing (`Past`);
* `FromServer`, `Acked`: an acknowledgement names a byte the server has accepted,
  or, once a FIN may have been sent, the place behind it. That an *old* one
  releases nothing is where `Short` and the width of differences come in
  (`Releases`): the difference of an old number wraps and exceeds what is in flight.

`Num`, `Word32` and `ULong` are handled by `Divided`, `NearEqual`, `ModAdd` and
`Numbers` alone: two numbers closer than the modulus are equal when their
remainders are. Then come a lemma for each operator of TcpSocket as client
(`ClientSynSent` to `ClientEnds`) and as server (`ServerListens` to `ServerFin`),
one for each action of TcpLink (`ReceiveStep` to `ClosingStep`), and
`ConnectStep`, for the connect that takes `i`. `Inv` was checked by TLC on the runs link and
link_routed, and with `SeqSpace` 4 and `LongSpace` 8, before it was proved.

ReadsInOrder is false on the routed network (section 5): there a late SYN gives the
child a second connection under a program that still reads the first. What keeps
the serial line from it is the order of the segments, and `Counted(i)`, the
invariant that adds it to `Inv(i)`, says just that (`Once`):

* SYNs come first (`Ordered`): no segment without SYN is ahead of one with it, in
  the line to the server;
* once the server has been connected, or its program has the descriptor (`Opened`),
  the client is past SYN_SENT and no SYN is on its way (`Later`), so the child is
  never connected twice;
* what a client may still meet (`ToClient`): in SYN_SENT nothing but a SYN or a
  reset, so that it answers no acknowledgement with a SYN of its own; and a client
  that is connected has sent no reset (`ToServer`, `Live`);
* the ring: while the program is at it, `taken - rcount` is what it has read, where
  the ring holds something or the socket is connected. A reset or a timeout that
  empties the ring ends the connection with it.

Its lemmas describe what a segment, a timer or a call does to a socket that only
listens and acknowledges (`Keeps`, `Drops`, `Fins` of the `S...` lemmas) and to one
that only sends (`Weak` of the `C...` lemmas), and the `...Once` lemmas put these
into the actions. The two sides need no more of each other than `Inv` and `Once`.

SocketsSound needs both sides at once. A socket in CLOSING goes to TIME_WAIT
on what it takes for the acknowledgement of its FIN, and is nuked from there: its
write buffer is emptied and `sockdlen` kept (`Lingers`). So it must be known, segment by segment, how the answers
under way stand to the bytes in flight, and that none does this (`NoLinger`). `Fleet(i)` adds that to `Counted(i)`:

* while the client is connected, every answer names a byte the server has accepted
  (`Replies`), and either the server is within what is in flight or, after the
  client went back to send again what had arrived already, every answer under way
  names the last byte accepted (`Newest`): no old answer is left to release part
  of the new flight. This is where the timers must wait for silence;
* what is on its way to the server ends within `base + dlen` (`Within`), and the
  server has accepted nothing beyond the client's write buffer;
* the server's FIN is under way only when its program is at its end (`Over`) and
  names the last byte too (`Partings`), so that a client in CLOSING knows what is
  left; the client's own FIN comes after its buffer was flushed;
* a client that has lost its connection has neither bytes in flight nor a buffer.

`Tame` bounds the client's error count, which the type of a socket needs, and
`Kept` has the types of the variables nothing else depends on. The `Flight...`
lemmas take a step of one socket through this, and the `Fleet...` lemmas put them
into the actions.

Proving made two definitions say more exactly what they meant: a TLA+ CASE whose
conditions overlap has no fixed value, and three did (ProcessTcpData's flags,
PacketPool's `Tcp` and `Ip`), where TLC took the first arm; they are IF chains
now, in the order of the code. And what PacketPool did to a set of buffers by
folding is now a function of the buffer (`FreeBuffers`, `Ticked`), which says the
same without an order nobody meant.

Only model-checked, and why:

* all liveness: temporal fairness and ENABLED are out of the proof system's reach
  here. No module that a theorem reaches declares a RECURSIVE operator;
* SocketSound when both hosts write, and with timers that expire early: the proof
  follows the acknowledgements of one direction. On the routed network it is false
  (section 5);
* StreamIntact and ReadInOrder for two writers, for the reason above (`Quiet`).

## 5. What else was met

Reached by changing the constants of a run or checking a property the module states
and no run checks, unless said otherwise.

Connections:

* `Probes` TRUE in ring: a one-byte probe of a closed window is stored in a full
  ring (RoomToSwallow; tcp.c:111 tests the distance, not the length, although the
  comment there says that the data has to fit).
* EmptyIsAdvertised in ring: when the ring is read empty while the program's own
  bytes are in flight, the window is not advertised (socket.c:501-507, whose
  comment lists an emptied buffer among the times to do so): the peer may wait
  for ever.
* ReadableStays in link, `MaxLoss` 0: the closing side is nuked before the ACK of
  its FIN comes and answers that ACK with a RST; the RST empties the other side's
  ring (tcp.c:749-751), so acknowledged bytes are lost in an orderly close.
* FreedOnce in link: an orderly, lossless close frees a socket's buffers twice
  (socket.c:577-579).
* `Steady` FALSE and one loss in link_live: one lost ACK of the handshake and the
  client is connected to nobody (tcp.c:168-182): it writes, and nobody reads.
* `LongSpace` 64 in link_live (a 64-bit `unsigned long`): differences such as
  the one at tcp.c:384 are never cut to 32 bits, and the connection does not
  survive the wrap the comment at tcp.c:381 says is handled.
* FinGetsThrough without its `lost` in link_live: the FIN is sent once and its socket nuked at once
  (socket.c:579); if it is lost the server stays connected.
* Three losses in link: if the child times out while its close is flushing,
  `sockAclose` sends its FIN from a listening slot with a zero address, and
  `fasttcppack` ends the program (tcpx.c:185).
* Two hosts of this stack, `MaxTailR` 1: `sendsocket` does not look at the
  peer's window, so the sender overruns the receiver as a probe does.
* ReadInOrder on a routed network: a child that was reset is reclaimed under its
  program, reconnected by an old SYN, and bytes are read a second time.
* SocketSound on a routed network: a connection nuked with bytes in flight keeps
  `sockdlen` while its write buffer is emptied (tcp.c:73), so the slot claims
  more in flight than it has.
* An accepted child that is reset goes back into its listener's queue while its
  descriptor is held (tcp.c:71; the comment at socket.c:934 calls it "out of the
  ring"), so two programs may come to hold it.
* AcceptsOwn in table, violated (socket.c:899, "Returns the fd to the socket that
  connected or error."): a child is reset, `socket()` (findfreeslot, socket.c:631)
  takes its slot before `check_sockets` collects it, and the queue entry stays. The
  program connects that slot to somewhere else; accept (socket.c:925-940) finds it
  established and returns it, a connection the program made itself.
* NoneLeftListening in table, violated (socket.c:597-598, "we need to kill allocated
  sockets ... All sockets are killed without prejudice."): the loop at
  socket.c:604-612 kills only the children in the queue. An accepted one keeps its
  parent's number; given up after the parent's slot was handed out again, it listens
  with the stranger's record and writes its number through a freed pointer
  (tcp.c:66-71).
* In the run table itself: a second listen on a socket forgets the children of the
  first and its queue; a slot the stack closed is handed out while a descriptor of it
  is still held (socket.c:632); `check_sockets` nukes an orphan whose parent is
  closed again in every round.
* Read in the code, not in a model: a datagram socket in a slot a TCP connection used
  frees that connection's write
  buffer again (tcp.c:63); a connection opened in a slot whose last one timed out
  inherits its error count and is given up at its first timeout (socket.c:254).
* Buffers are handed out and sent from the highest down (tcpx.c:197, slip.c:248,
  arcnet.c:598), so a segment packed while a received packet holds the highest
  buffer is overtaken by one packed after that was freed.

Packets and datagrams:

* `Clock` "free" or "counted" in pool: a fragment is dropped when its time
  *equals* the clock (ip.c:283). If no poll falls on that tick, or if timers
  count looks and another buffer's look takes the one that matters, it is kept
  for ever, and in the end nothing is received (NeverDeaf).
* OnlyWhole in pool, violated (ip.c:169-170 says that incomplete buffers "will fail the
  checksum in an upper layer"): udp.c:77 tests a checksum only `if(sum)`, so of a
  datagram without one the first and the last piece are enough for it to be delivered.
* Read in the code: a reply made in buffer 0 is never sent, for the loops at
  slip.c:248 and arcnet.c:598 stop at 1; the "sacrifice" at slip.c:151 never finds
  anything to give up; a reply to a reassembled packet leaves with its fragment
  flag set; SLIP receive stores one byte past the buffer at exactly MAXMTUMRU
  (slip.c:206-213); a piece beyond MAXTAILR is taken for lost.
* NothingFromEmpty in resolver, violated (socket.c:1048-1052 returns EWOULDBLOCK when
  nothing is counted): udp.c:146-158 stores ten bytes of header, AJK_recvfrom takes
  `pcount + 9` off the count (socket.c:1084). A socket that was read until it is empty
  therefore never says EWOULDBLOCK but gives garbage or an old datagram, and after
  about MAXTAILR reads takes no more.
* MatchingAnswer in resolver, violated (netutil.c:73, "first matching answer, NULL on
  error"): the port is always 8192, and ID, sender and question of an answer are not
  looked at (netutil.c:182-200; the to-do at netutil.c:66 says so). A lookup ends with
  its question still under way, and the answer is returned for the next name. nsl.c
  asks with a type 0 that no record matches, and so never finds anything.
* Arcnet: a packet of 256 bytes is padded without need, and the four zero bytes
  run on into the receive page; a packet there is then taken for an unknown one
  and lost (RxPageKept's exception). MAXMTUMRU is larger than a page. The
  comment at arcnet.c:699 says the search for the gateway goes on for ever; it
  ends the program after 32000 requests. Nothing resets `did`, as the comment at
  arcnet.c:590 supposes.

Drivers and programs:

* `Burst` + 1 > `HighWater` - `LowWater` in uart: RTS is raised over a ring that
  has filled up meanwhile, and bytes are dropped (NothingDropped). In the polled
  build the test at dosuart.c:118 is never true: it receives nothing. Its
  single-character reader waits for the second byte of an escape.
* A program of TaskPort waits for `network_booted`, as every example does, though no
  call looks at it: one that does not wait loses its request when the task that
  answers sets its mailboxes up.
* OwnReply in task for two users: replies do not say whose they are. Read in the
  code: `sendto` does not fill in the address the stack's task sends to
  (ajkstack.cpp:348-361), and `resolve` takes the length of a one-byte field
  (469). A call that blocks stops the polling.
* StreamForAll in httpd, violated (socket.c:934, "now dead, out of the ring", and a
  backlog of MAXSTREAMS at httpd.c:748): a child that is reset or times out listens
  again at once (socket.c:233-239, 253-258, tcp.c:66-75) while its stream still holds
  it; reconnected, it is accepted into a second stream. The next connection finds no
  stream free, and the search at httpd.c:703-708 writes past `stream[]` and `ptr[]`. Read in the code:
  `active[]` is not reset for a new connection (httpd.c:708, 575), so after one
  inactivity timeout the next connections in that stream are closed at once; a
  round ends at the first stream that closes or has only part of a request, so
  slow clients starve later streams; the 501 answer is made but not sent, 414
  cannot be reached.
* `Begins` with 125 in ftp: a server that opens the data connection before it
  answers "125" makes the client close it and wait, or fall a line behind
  (InStep). A connection cut inside a line leaves `waitio` waiting for ever
  (ComesBack's exception). Read in the code: a segment that ends between CR and
  LF makes `lpointer` negative (ftp.c:313); a file that does not open is closed
  as NULL; a write error forgets to close the right socket (370); AJK_connect
  returns 0 on success, which `main` takes for failure; up to 126 typed keys go
  into ten bytes (417, 904).

## 6. Not modelled, and limits

* FINWAIT1, FINWAIT2 and CLOSEWAIT: `Finwait1Proc` and `Finwait2Proc` are
  translated, but no socket of this code enters those states; PEER_RESET is
  overwritten by `tcp_rst` at once. Simultaneous open is translated but TcpLink's
  server never opens actively.
* TcpLink leaves out the window of outgoing segments (the sender never reads it;
  RecvRing has the receive side), checksums (a garbled segment is a lost one) and
  real time. SocketTable reduces a connection to the steps that change its slot;
  it leaves `AJK_bindcount` and `AJK_acceptready` out, which only read.
* Slot 0, the scratch record RSTs are built in, has no life of its own.
* PacketPool does not follow offsets and lengths of pieces, nor single bytes of
  SLIP; UdpQueue not the bytes of a header; Resolver not the text of a question;
  Httpd not the parsing of a request line; Ftp not the text of answers or the
  cut of a line between CR and LF, and its server does not leave between the
  answer to PASV and the client's `socket()` (`Leave`).
* `checksum()` and the word helpers compute without state; packets are good or
  bad. The polled serial drivers, the configuration reader, the calibration of
  timers and the CP/M directory code are I/O or straight-line code.
* The build of ajkstack.cpp that polls from a timer interrupt, the break handler
  and `serialoff` of dosuart.c, daemon.c (a one-connection echo loop), the other
  clients and the Arduino ports of the programs.

## 7. Plan

1. Proofs: streams that are intact, and read in order, and sockets that are sound,
   with bytes in both directions.
2. **Checksum**: `checksum()` against the sum modulo 65535 over bounded inputs.
3. A half-closing peer in TcpLink (tcp.c:508) and a third host (tcpx.c:325).
