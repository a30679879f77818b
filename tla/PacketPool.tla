------------------------------ MODULE PacketPool ------------------------------
(***************************************************************************)
(* The packet buffers (bufptrs, txrxflags, fragtime) on their way through  *)
(* one poll of the SLIP transport: sliprxtx sends what is READY, lets the  *)
(* IP layer look at what is SWALLOWED or a FRAGMENT, and takes at most one *)
(* frame, which ip() hands to reassembly, ICMP, TCP or UDP at once.  A     *)
(* flag is all that says who owns a buffer.  What is inside a packet is    *)
(* reduced to what decides where it goes.                                  *)
(***************************************************************************)
EXTENDS Integers, FiniteSets, FiniteSetsExt

CONSTANTS NBuf,       \* BUFFERS
          Ids,        \* datagrams that may be fragmented: id, addresses, protocol
          Pieces,     \* a fragmented datagram has the pieces 1 .. Pieces
          FragTime,   \* loopcali * STARTFRAGTIME
          Clock,      \* "prompt", "free" or "counted", see Tick and Look
          RamFails    \* malloc and realloc may return NULL

ASSUME PoolAssumption ==
    /\ NBuf \in Nat /\ NBuf > 1
    /\ Pieces \in Nat /\ Pieces > 1
    /\ FragTime \in Nat \ {0}
    /\ Clock \in {"prompt", "free", "counted"}
    /\ RamFails \in BOOLEAN

VARIABLES pool,       \* [flag, ptr, due, pkt : one entry per buffer; sound : a ghost]
          phase,      \* where sliprxtx is: "idle", "frags", "rx"
          at,         \* the index of dotcpip's loop
          polled      \* has a poll ended since the clock last moved?

poolVars == <<pool, phase, at, polled>>

Buffers == 0 .. NBuf - 1
AllPieces == 1 .. Pieces

(* What a packet is, as far as ip, icmp, tcp and udp tell packets apart.    *)
(*   bad: wrong version or header sum    foreign: other address, dead TTL   *)
(*   proto: no such protocol or port     ping, icmp: echo request, others   *)
(*   seg: of a socket  stray: of none  rst: a reset of none  udp: of a socket *)
Whole == {"bad", "foreign", "proto", "ping", "icmp", "seg", "stray", "rst", "udp"}
Fragmented == {"proto", "ping", "rst", "udp"}

(* sum: there is a transport checksum, and it would pass if the contents    *)
(* are complete.  UDP may come without; the first piece says so.            *)
Packet(k, i, g, s) == [kind |-> k, id |-> i, got |-> g, sum |-> s]
None == Packet("none", 0, {}, FALSE)
Reply == Packet("reply", 0, {}, TRUE)
Packets == {Packet(k, 0, {}, TRUE) : k \in Whole}
Fragments == {p \in {Packet(k, i, {n}, s) : k \in Fragmented, i \in Ids, n \in AllPieces, s \in BOOLEAN} :
                p.sum \/ (p.kind = "udp" /\ p.got = {1})}

IsFragment(p) == p.got # {}
Complete(p) == p.got \in {{}, AllPieces}

PoolInit ==
    /\ pool = [flag |-> [b \in Buffers |-> "free"], ptr |-> [b \in Buffers |-> "null"],
               due |-> [b \in Buffers |-> 0], pkt |-> [b \in Buffers |-> None], sound |-> TRUE]
    /\ phase = "idle" /\ at = 0 /\ polled = FALSE

-----------------------------------------------------------------------------
(* Owners: from a pool to a pool, or to the set of pools that may result.   *)

FreeBuffers(m, S) ==
    [m EXCEPT !.flag = [b \in Buffers |-> IF b \in S THEN "free" ELSE @[b]],
              !.ptr = [b \in Buffers |-> IF b \in S THEN "null" ELSE @[b]],
              !.due = [b \in Buffers |-> IF b \in S THEN 0 ELSE @[b]],
              !.pkt = [b \in Buffers |-> IF b \in S THEN None ELSE @[b]]]
FreeBuffer(m, b) == FreeBuffers(m, {b})

Fill(m, b, f, p) == [m EXCEPT !.flag[b] = f, !.ptr[b] = "live", !.pkt[b] = p, !.due[b] = 0]

FreeOnes(m, S) == {b \in S : m.flag[b] = "free"}

(* A segment or a datagram is built in the highest free buffer but 0; with  *)
(* no buffer or no memory it is not sent.                                   *)
FastTcpPack(m) ==
    LET room == FreeOnes(m, Buffers \ {0}) IN
    IF room = {} THEN {m}
    ELSE {Fill(m, Max(room), "ready", Reply)} \cup (IF RamFails THEN {m} ELSE {})

(* ICMP errors and echo replies reuse the buffer they answer.               *)
ErrReply(m, b) == Fill(m, b, "ready", Reply)

Icmp(m, b) ==
    IF m.pkt[b].kind = "ping" /\ Complete(m.pkt[b]) THEN Fill(m, b, "ready", Reply)
    ELSE FreeBuffer(m, b)

Udp(m, b) ==
    IF m.pkt[b].sum /\ ~Complete(m.pkt[b]) THEN FreeBuffer(m, b)
    ELSE [FreeBuffer(m, b) EXCEPT !.sound = m.sound /\ Complete(m.pkt[b])]

(* The checksum field is zeroed for the sum and not put back, so a segment  *)
(* left where it is fails its checksum when it is looked at again.          *)
Tcp(m, b) ==
    IF ~Complete(m.pkt[b]) \/ ~m.pkt[b].sum THEN {FreeBuffer(m, b)} ELSE
    CASE m.pkt[b].kind = "rst" -> {[m EXCEPT !.pkt[b].sum = FALSE]}
      [] m.pkt[b].kind = "stray" -> {FreeBuffer(n, b) : n \in FastTcpPack(m)}
      [] OTHER -> {FreeBuffer(m, b)} \cup FastTcpPack(FreeBuffer(m, b))
                      \cup {FreeBuffer(n, b) : n \in FastTcpPack(m)}

IpDecide(m, b) ==
    CASE m.pkt[b].kind \in {"ping", "icmp"} -> {Icmp(m, b)}
      [] m.pkt[b].kind \in {"seg", "stray", "rst"} -> Tcp(m, b)
      [] m.pkt[b].kind = "udp" -> {Udp(m, b)}
      [] OTHER -> {ErrReply(m, b)}

-----------------------------------------------------------------------------
(* Reassembly.                                                              *)

(* A buffer that is not ours, has a pointer and holds part of the same      *)
(* datagram.  What a stale pointer shows is not modelled: see NothingStale. *)
FindFrag(m, b) ==
    {c \in Buffers \ {b} : /\ m.ptr[c] # "null" /\ IsFragment(m.pkt[c])
                           /\ m.pkt[c].id = m.pkt[b].id /\ m.pkt[c].kind = m.pkt[b].kind}

(* chktimer1: a clock of seconds, or a counter that each look advances.     *)
Ticked(m) ==
    LET running == {c \in Buffers : m.flag[c] = "fragment" /\ m.due[c] >= 0} IN
    [m EXCEPT !.due = [c \in Buffers |-> IF c \in running THEN @[c] - 1 ELSE @[c]]]
Look(m) == IF Clock = "counted" THEN Ticked(m) ELSE m
(* slip: the time is not set anew *)
SetTimerForgets(m, b) == [Look(m) EXCEPT !.due[b] = -1]
SetTimer(m, b) == [Look(m) EXCEPT !.due[b] = FragTime]

(* slip: what was begun is not discarded *)
StartReassemblyBoth(m, b) == {m} \cup (IF RamFails THEN {FreeBuffer(m, b)} ELSE {})

StartReassembly(m, b) ==
    LET old == FindFrag(m, b)
        n == IF old = {} THEN m ELSE FreeBuffer(m, Min(old))
    IN {n} \cup (IF RamFails THEN {FreeBuffer(n, b)} ELSE {})

(* The last piece sends the datagram up, whether or not all have come.      *)
Join(m, b, here) ==
    LET n == [m EXCEPT !.pkt[here].got = @ \cup m.pkt[b].got] IN
    IF Pieces \in m.pkt[b].got
    THEN {FreeBuffer(u, b) : u \in IpDecide([n EXCEPT !.flag[here] = "swallowed"], here)}
    ELSE {FreeBuffer(SetTimer(n, here), b)}

CoalesceFrags(m, b) ==
    IF 1 \in m.pkt[b].got THEN StartReassembly(m, b)
    ELSE IF FindFrag(m, b) = {} THEN {FreeBuffer(m, b)}
    ELSE Join(m, b, Min(FindFrag(m, b)))

(* A buffer that already is a fragment only has its time looked at.  The    *)
(* header of a reassembled packet has another length and its old sum.       *)
Ip(m, b) ==
    IF m.flag[b] = "fragment"
    THEN {IF Look(m).due[b] = 0 THEN FreeBuffer(Look(m), b) ELSE Look(m)}
    ELSE IF m.pkt[b].kind = "bad" THEN {FreeBuffer(m, b)}
    ELSE IF m.pkt[b].kind = "foreign" THEN {ErrReply(m, b)}
    ELSE IF ~IsFragment(m.pkt[b]) THEN IpDecide(m, b)
    ELSE IF Cardinality(m.pkt[b].got) > 1 THEN {FreeBuffer(m, b)}
    ELSE CoalesceFrags(SetTimer([m EXCEPT !.flag[b] = "fragment"], b), b)

-----------------------------------------------------------------------------
(* The transport.                                                           *)

Ready(m) == {b \in Buffers : m.flag[b] = "ready"}

(* Each buffer is sent whole and then free.                                 *)
SlipTx(m, S) == FreeBuffers(m, S)

(* Sends what is READY, buffer 0 excepted.                                  *)
TxWalk == /\ phase = "idle"
          /\ pool' = SlipTx(pool, Ready(pool) \ {0})
          /\ phase' = "frags" /\ at' = 0
          /\ UNCHANGED polled

(* One turn of dotcpip's loop.                                              *)
DoTcpip == /\ phase = "frags"
           /\ IF pool.flag[at] \in {"swallowed", "fragment"}
              THEN \E m \in Ip(pool, at) : pool' = m
              ELSE pool' = pool
           /\ IF at = NBuf - 1 THEN phase' = "rx" /\ at' = 0 ELSE phase' = phase /\ at' = at + 1
           /\ UNCHANGED polled

Filling == {b \in Buffers : pool.flag[b] = "swallowing"}
Target == IF Filling # {} THEN Filling ELSE FreeOnes(pool, Buffers)

PollEnds == phase' = "idle" /\ polled' = TRUE /\ UNCHANGED at

NoBuffer == phase = "rx" /\ Target = {} /\ PollEnds /\ UNCHANGED pool

(* Without memory every swallowed packet is given up; its pointer stays.    *)
Sacrifice ==
    /\ phase = "rx" /\ RamFails /\ Filling = {} /\ Target # {}
    /\ LET out == {b \in Buffers : pool.flag[b] = "swallowed"} IN
       pool' = [pool EXCEPT
                  !.flag = [b \in Buffers |-> IF b \in out THEN "free" ELSE @[b]],
                  !.ptr = [b \in Buffers |-> IF b \in out THEN "freed"
                                             ELSE IF b = Max(Target) THEN "null" ELSE @[b]]]
    /\ PollEnds

(* Some bytes, line noise, or so many that the buffer is begun again.       *)
PartOfFrame ==
    /\ phase = "rx" /\ Target # {}
    /\ pool' = Fill(pool, Max(Target), "swallowing", None)
    /\ PollEnds

(* The end of a frame: it is processed, and a reply in its buffer sent.     *)
EndOfFrame(p) ==
    /\ phase = "rx" /\ Target # {}
    /\ LET b == Max(Target) IN
       \E m \in Ip(Fill(pool, b, "swallowed", p), b) :
          pool' = IF m.flag[b] = "ready" THEN SlipTx(m, {b}) ELSE m
    /\ PollEnds

(* Between polls: the program's datagram or segment, check_sockets' too.    *)
SendTo == /\ phase = "idle"
          /\ \E m \in FastTcpPack(pool) : pool' = m
          /\ UNCHANGED <<phase, at, polled>>

(* The clock moves between polls, "prompt" only if there was one.           *)
Tick == /\ phase = "idle" /\ Clock # "counted" /\ (Clock = "prompt" => polled)
        /\ pool' = Ticked(pool) /\ polled' = FALSE
        /\ UNCHANGED <<phase, at>>

Receive == \E p \in Packets \cup Fragments : EndOfFrame(p)

Poll == TxWalk \/ DoTcpip \/ NoBuffer \/ Sacrifice \/ PartOfFrame \/ Receive

PoolNext == Poll \/ SendTo \/ Tick

PoolSpec == PoolInit /\ [][PoolNext]_poolVars
(* The program polls for ever, and the clock does not stand still.          *)
PoolFairSpec == PoolSpec /\ WF_poolVars(Poll) /\ SF_poolVars(Tick)

-----------------------------------------------------------------------------
PoolTypeOK ==
    /\ pool.flag \in [Buffers -> {"free", "swallowing", "swallowed", "fragment", "ready"}]
    /\ pool.ptr \in [Buffers -> {"null", "live", "freed"}]
    /\ pool.due \in [Buffers -> -1 .. FragTime]
    /\ \A b \in Buffers : pool.pkt[b].got \subseteq AllPieces
    /\ phase \in {"idle", "frags", "rx"} /\ at \in Buffers

(* A buffer has memory exactly while somebody owns it.  In particular the   *)
(* sacrifice of slip.c:151 never leaves a pointer to freed memory behind,   *)
(* since by then dotcpip has done with everything SWALLOWED.                *)
NothingStale == \A b \in Buffers : (pool.flag[b] = "free") <=> (pool.ptr[b] = "null")

(* A datagram is put together in one buffer: a first piece that comes again *)
(* discards what was begun (ip.c:197), no other piece keeps its buffer.     *)
OneReassembly ==
    \A b, c \in Buffers :
        b # c /\ phase = "idle" /\ pool.flag[b] = "fragment" /\ pool.flag[c] = "fragment"
        => <<pool.pkt[b].id, pool.pkt[b].kind>> # <<pool.pkt[c].id, pool.pkt[c].kind>>

(* The buffers: memory, owner and contents agree (slip.c:132-160, ip.c:194).*)
BuffersSound == PoolTypeOK /\ NothingStale /\ OneReassembly

(* An incomplete datagram fails the checksum of an upper layer and never    *)
(* gets to a socket (the comment at ip.c:170).  One without a checksum does *)
(* (udp.c:77; README, section 5), and no run checks this.                   *)
OnlyWhole == pool.sound

(* Whatever comes in, and however much of it is never completed or          *)
(* answered, the receiver finds a buffer again and again (slip.c:138).      *)
NeverDeaf == []<>(phase = "rx" /\ Target # {})
=============================================================================
