-------------------------------- MODULE Arcnet --------------------------------
(***************************************************************************)
(* The ARCNET transport: arcrxtx in place of sliprxtx.  The controller has *)
(* one page to receive into, which it fills once and keeps closed until    *)
(* the program takes the packet and arms it again, and one page it sends   *)
(* from, which must not be touched while it is busy.  All packets go to    *)
(* one station, the gateway's, which findgateway asks for at start-up.     *)
(* A packet is its kind and its length; the lengths are the real ones.     *)
(***************************************************************************)
EXTENDS Integers, FiniteSets, FiniteSetsExt

CONSTANTS NBuf,       \* BUFFERS
          Gateway,    \* the station that owns myip[0..2].1
          Others,     \* the other stations
          Lens,       \* lengths of the packets sent
          Tries,      \* requests findgateway makes (32000)
          Polls,      \* looks at the receiver after each (60)
          RamFails    \* malloc may return NULL

ASSUME ArcnetAssumption ==
    /\ NBuf \in Nat /\ NBuf > 1
    /\ Gateway \in Nat \ {0} /\ Others \subseteq Nat \ {0, Gateway}
    /\ Lens \subseteq 1 .. 554                  \* MAXMTUMRU
    /\ {Tries, Polls} \subseteq Nat \ {0}
    /\ RamFails \in BOOLEAN

VARIABLES flag,       \* txrxflags
          len,        \* rxtxpointer of a READY buffer
          did,        \* the gateway's station, 0 while it is not known
          rx,         \* the receive page: [kind, hurt]
          tx,         \* the transmit page: [kind, len], kind "none" when not busy
          phase,      \* where the program is
          at, tries,  \* the indices of its loops
          asked       \* the gateway has heard a request

vars == <<flag, len, did, rx, tx, phase, at, tries, asked>>

Buffers == 0 .. NBuf - 1
Stations == {Gateway} \cup Others

Armed == [kind |-> "none", hurt |-> FALSE]      \* waits for a packet
Full == rx.kind # "none"
Busy == tx.kind # "none"
(* arpUs: who has our address?  isAt: addressed to us; other: any other ARP *)
Kinds == {"ip", "arpUs", "isAt", "isAtOther", "other"}

Page(k, n) == [kind |-> k, len |-> n]
NoPage == Page("none", 0)

-----------------------------------------------------------------------------
(* The page arctx lays out for a packet of L bytes: the header is four      *)
(* bytes, the count at 2 or, with a zero at 2, at 3; one byte of type and   *)
(* the packet follow where the count points.                                *)

(* slip: frames of 254 to 256 octets are not made longer *)
OctetsRaw(L) == L + 1
Octets(L) == LET i == L + 1 IN IF i \in 253 .. 256 THEN i + 4 ELSE i

Short(L) == L + 1 < 253
Count(L) == IF Short(L) THEN 256 - Octets(L) ELSE (512 - Octets(L)) % 256

(* slip: everything long is padded *)
PaddingAlways(L) == IF L > 252 THEN 4 ELSE 0
Padding(L) == IF L > 252 /\ L < 257 THEN 4 ELSE 0

(* The address counter goes on from page 3 to page 0, the receive page.     *)
Overrun(L) == Count(L) + 1 + L + Padding(L) > 512

(* What arcrx makes of such a header: where the packet begins, how long.    *)
Begins(L) == Count(L) + 1
Unpacked(L) == (IF Short(L) THEN 256 ELSE 512) - Count(L) - 1

-----------------------------------------------------------------------------
Room(f) == {b \in Buffers : f[b] = "free"}

(* A packet of ours goes into the highest free buffer but 0.                *)
Pack(L) == /\ phase = "idle" /\ Room(flag) \ {0} # {}
           /\ LET b == Max(Room(flag) \ {0}) IN
              flag' = [flag EXCEPT ![b] = "ready"] /\ len' = [len EXCEPT ![b] = L]
           /\ UNCHANGED <<did, rx, tx, phase, at, tries, asked>>

(* Overwritten by a transmission, a page may pass for something else.       *)
TakenAs == IF rx.hurt THEN {"ip", "other"} ELSE {rx.kind}

(* slip: whose address was asked for is not looked at *)
ProcArpAny == \/ rx.kind = "isAt" /\ did' = (IF did = 0 THEN Gateway ELSE did)
              \/ rx.kind = "isAtOther" /\ did' \in (IF did = 0 THEN Others ELSE {did})
              \/ "other" \in TakenAs /\ did' = did

(* An answer to us gives the gateway's station if none is known.            *)
ProcArp == \/ rx.kind = "isAt" /\ did' = (IF did = 0 THEN Gateway ELSE did)
           \/ TakenAs \cap {"isAtOther", "other"} # {} /\ did' = did

(* What ip() may do with buffer b: be done, keep a fragment, reply in it or *)
(* in another one.                                                          *)
Handled(b) ==
    \E f \in {"free", "frag", "ready"}, L \in Lens :
        LET g == [flag EXCEPT ![b] = f]
            h == [len EXCEPT ![b] = IF f = "ready" THEN L ELSE 0]
            r == Room(g) \ {0, b}
        IN \/ flag' = g /\ len' = h
           \/ /\ r # {}
              /\ flag' = [g EXCEPT ![Max(r)] = "ready"] /\ len' = [h EXCEPT ![Max(r)] = L]

(* arcrx is called from findgateway, as long as did is 0, and from arcrxtx. *)
Returns ==
    /\ at' = IF did = 0 THEN at + 1 ELSE at
    /\ phase' = IF did' # 0 THEN "idle" ELSE IF at' < Polls THEN "listen"
                ELSE IF tries < Tries THEN "find" ELSE "stopped"
    /\ UNCHANGED <<tries, asked>>

Polling == phase \in {"listen", "rx"}

RxNothing == Polling /\ ~Full /\ UNCHANGED <<flag, len, did, rx, tx>> /\ Returns

(* No buffer or no memory: the packet stays where it is.                    *)
RxWaits == /\ Polling /\ Full /\ (Room(flag) = {} \/ RamFails)
           /\ UNCHANGED <<flag, len, did, rx, tx>> /\ Returns

CanTake == Polling /\ Full /\ Room(flag) # {}

(* slip: an ARP packet leaves without the re-arming *)
RxArpDeaf == /\ CanTake /\ ProcArp /\ rx' = [rx EXCEPT !.hurt = FALSE]
             /\ UNCHANGED <<flag, len, tx>> /\ Returns

RxArp == CanTake /\ ProcArp /\ rx' = Armed /\ UNCHANGED <<flag, len, tx>> /\ Returns

(* The block of 512 bytes just freed has room for the smaller one asked for *)
(* next, so the second malloc does not fail.                                *)
RxIp == /\ CanTake /\ "ip" \in TakenAs
        /\ IF did # 0 THEN Handled(Max(Room(flag))) ELSE UNCHANGED <<flag, len>>
        /\ rx' = Armed /\ UNCHANGED <<did, tx>> /\ Returns

(* A request for our address is answered as soon as the page is free.       *)
RxRequest == /\ CanTake /\ rx.kind = "arpUs" /\ ~rx.hurt
             /\ phase' = "answer"
             /\ UNCHANGED <<flag, len, did, rx, tx, at, tries, asked>>

(* txok: the page is free, or the transmission was given up.                *)
TxOk == ~Busy

(* slip: without waiting *)
AnswerAtOnce == /\ phase = "answer"
                /\ tx' = Page("isAt", 256) /\ rx' = Armed
                /\ UNCHANGED <<flag, len, did>> /\ Returns

Answer == /\ phase = "answer" /\ TxOk
          /\ tx' = Page("isAt", 256) /\ rx' = Armed
          /\ UNCHANGED <<flag, len, did>> /\ Returns

Takes == RxArp \/ RxIp \/ RxRequest
ArcRx == RxNothing \/ RxWaits \/ Takes \/ Answer

-----------------------------------------------------------------------------
(* findgateway.                                                             *)
AskGateway ==
    /\ phase = "find" /\ TxOk
    /\ tx' = Page("arpGateway", 19)
    /\ tries' = tries + 1 /\ phase' = "listen" /\ at' = 0
    /\ UNCHANGED <<flag, len, did, rx, asked>>

(* arcrxtx: buffers are sent from the highest down to 1, then the IP layer  *)
(* looks at fragments, then at most one packet is taken.                    *)
BeginPoll == /\ phase = "idle"
             /\ phase' = IF did = 0 THEN "find" ELSE "walk"
             /\ at' = NBuf - 1 /\ tries' = 0
             /\ UNCHANGED <<flag, len, did, rx, tx, asked>>

(* Lays a buffer out in the transmit page and frees it; with no gateway it  *)
(* is thrown away.                                                          *)
ArcTx(b) ==
    /\ IF did = 0 THEN UNCHANGED <<tx, rx>>
       ELSE /\ TxOk
            /\ tx' = Page("ip", len[b])
            /\ rx' = [rx EXCEPT !.hurt = @ \/ (Full /\ Overrun(len[b]))]
    /\ flag' = [flag EXCEPT ![b] = "free"] /\ len' = [len EXCEPT ![b] = 0]

(* slip: the last buffer is left out *)
WalkShort == /\ phase = "walk"
             /\ IF at > 1 /\ flag[at] = "ready" THEN ArcTx(at) ELSE UNCHANGED <<flag, len, rx, tx>>
             /\ IF at > 1 THEN at' = at - 1 /\ phase' = phase ELSE at' = 0 /\ phase' = "frags"
             /\ UNCHANGED <<did, tries, asked>>

Walk == /\ phase = "walk"
        /\ IF flag[at] = "ready" THEN ArcTx(at) ELSE UNCHANGED <<flag, len, rx, tx>>
        /\ IF at > 1 THEN at' = at - 1 /\ phase' = phase ELSE at' = 0 /\ phase' = "frags"
        /\ UNCHANGED <<did, tries, asked>>

(* dotcpip: a fragment stays, or its datagram is done or timed out.         *)
DoTcpip(S) == /\ phase = "frags"
              /\ flag' = [b \in Buffers |-> IF b \in S THEN "free" ELSE flag[b]]
              /\ phase' = "rx"
              /\ UNCHANGED <<len, did, rx, tx, at, tries, asked>>
Frags == {b \in Buffers : flag[b] = "frag"}
Release == DoTcpip(Frags)

Program == \/ AskGateway \/ BeginPoll \/ Walk \/ ArcRx
           \/ \E S \in SUBSET Frags : DoTcpip(S)

-----------------------------------------------------------------------------
(* The controller and the other stations.                                   *)

(* The page is on the wire, once, or the addressee never takes it.          *)
Transmit == /\ Busy /\ tx' = NoPage
            /\ asked' \in {asked, asked \/ tx.kind = "arpGateway"}
            /\ UNCHANGED <<flag, len, did, rx, phase, at, tries>>

(* txok gives up after 32000 looks.                                         *)
Cancel == /\ Busy
          /\ \/ phase \in {"find", "answer"}
             \/ phase = "walk" /\ flag[at] = "ready"
          /\ tx' = NoPage
          /\ UNCHANGED <<flag, len, did, rx, phase, at, tries, asked>>

(* Only the gateway answers requests of ours, which ask for nobody else.    *)
Arrive(k) == /\ ~Full /\ (k = "isAt" => asked)
             /\ rx' = [rx EXCEPT !.kind = k]
             /\ asked' = (asked /\ k # "isAt")
             /\ UNCHANGED <<flag, len, did, tx, phase, at, tries>>

(* initializedev: the receiver is armed and the gateway asked for.          *)
Init == /\ flag = [b \in Buffers |-> "free"] /\ len = [b \in Buffers |-> 0]
        /\ did = 0 /\ rx = Armed
        /\ tx = NoPage
        /\ phase = "find" /\ at = 0 /\ tries = 0 /\ asked = FALSE

Next == \/ Program \/ Transmit \/ Cancel
        \/ \E k \in Kinds : Arrive(k)
        \/ \E L \in Lens : Pack(L)

Spec == Init /\ [][Next]_vars
(* The program polls for ever; a transmission ends; memory comes back, and  *)
(* so do fragments, which PacketPool shows with the timer.                  *)
FairSpec == /\ Spec /\ WF_vars(Program) /\ WF_vars(Transmit \/ Cancel)
            /\ SF_vars(Takes) /\ SF_vars(Release)

-----------------------------------------------------------------------------
TypeOK ==
    /\ flag \in [Buffers -> {"free", "frag", "ready"}]
    /\ len \in [Buffers -> Lens \cup {0}]
    /\ \A b \in Buffers : flag[b] = "ready" <=> len[b] # 0
    /\ did \in Stations \cup {0}
    /\ rx \in [kind : Kinds \cup {"none"}, hurt : BOOLEAN] /\ (rx.hurt => Full)
    /\ tx \in [kind : {"ip"}, len : Lens] \cup {NoPage, Page("isAt", 256), Page("arpGateway", 19)}
    /\ phase \in {"find", "listen", "idle", "walk", "frags", "rx", "answer", "stopped"}
    /\ at \in 0 .. Polls \cup Buffers /\ tries \in 0 .. Tries /\ asked \in BOOLEAN

(* A packet that fits a page is laid out so that arcrx on the other side    *)
(* finds all of it where it was put, with at most the four bytes of padding *)
(* behind it, the header is left alone, and the frame has a length the wire *)
(* allows (the comment at arcnet.c:12; 229-239 against 429-446).            *)
Framed(L) == /\ Octets(L) \in 1 .. 253 \cup 257 .. 508
             /\ Count(L) \in 4 .. 255
             /\ Begins(L) + L <= IF Short(L) THEN 256 ELSE 512
             /\ Unpacked(L) - L \in {0, 4}
WellFramed == tx.kind = "ip" /\ tx.len < 508 => Framed(tx.len)

(* The transport's state is well typed and what is sent can be read.        *)
ArcnetSound == TypeOK /\ WellFramed

(* Sending disturbs a packet that waits in the receive page for the two     *)
(* lengths that run past the end of the transmit page only: 256, which is   *)
(* padded without need, and what is longer than a page (arcnet.c:258).      *)
RxPageKept == [][~rx.hurt /\ rx'.hurt => tx'.len = 256 \/ tx'.len > 511]_vars

(* While the controller sends, nobody writes the page it sends from: each   *)
(* of the three places that lay a packet out waits first (arcnet.c:215,     *)
(* 338, 525).                                                               *)
TxPageKept == [][Busy => tx' \in {tx, NoPage}]_vars

(* "Once found, it stays for the entire life of the running stack" (line    *)
(* 505), and it is the gateway: an answer to somebody else's request, which *)
(* is heard too, is not taken for it (358-363).                             *)
GatewayKept == [][did' # did => did = 0 /\ did' = Gateway]_vars

(* Whatever arrives, known or not, and whether or not there was a buffer or *)
(* memory for it at first, the receiver is armed again (arcnet.c:499).      *)
NeverDeaf == [](Full => <>(~Full \/ phase = "stopped"))

(* What is queued leaves, at whatever pace packets come in; buffer 0, which *)
(* the walk at arcnet.c:598 never reaches, is left out.                     *)
EverySent == \A b \in Buffers \ {0} : flag[b] = "ready" ~> flag[b] = "free"
=============================================================================
