--------------------------- MODULE Datagrams_proofs ---------------------------
(***************************************************************************)
(* Proofs about the way of a datagram: the packet buffers through which it *)
(* comes, the ring of a socket in which it waits, and the resolver, whose  *)
(* questions and answers are datagrams.                                    *)
(***************************************************************************)
EXTENDS PacketPool, UdpQueue, Resolver, FiniteSetTheorems, WellFoundedInduction, TLAPS

-----------------------------------------------------------------------------
(* The inductive invariant of the packet buffers, from cell to pool.        *)

PacketKinds == Whole \cup {"none", "reply"}
PacketShape == [kind : PacketKinds, id : Ids \cup {0}, got : SUBSET AllPieces, sum : BOOLEAN]
PoolShape == [flag : [Buffers -> {"free", "swallowing", "swallowed", "fragment", "ready"}],
              ptr : [Buffers -> {"null", "live"}], due : [Buffers -> -1 .. FragTime],
              pkt : [Buffers -> PacketShape], sound : BOOLEAN]

(* Memory exactly where there is an owner; pieces only in a buffer that is  *)
(* a fragment, or was one and awaits its second look.                       *)
CellRight(m, b) ==
    /\ m.flag[b] = "free" <=> m.ptr[b] = "null"
    /\ m.flag[b] = "fragment" => IsFragment(m.pkt[b])
    /\ IsFragment(m.pkt[b]) => m.flag[b] \in {"fragment", "swallowed"}

PoolRight(m) == m \in PoolShape /\ (\A b \in Buffers : CellRight(m, b))

(* What stays SWALLOWED is a reset the first look found no socket for.      *)
Parked(m, b) == m.flag[b] = "swallowed" =>
                  m.pkt[b].kind = "rst" /\ ~m.pkt[b].sum /\ Complete(m.pkt[b])

SameDatagram(p, q) == p.id = q.id /\ p.kind = q.kind

(* No two fragments of one datagram in the buffers of S.                    *)
Apart(m, S) == \A b, c \in S :
    b # c /\ m.flag[b] = "fragment" /\ m.flag[c] = "fragment" => ~SameDatagram(m.pkt[b], m.pkt[c])

PoolInv ==
    /\ PoolRight(pool) /\ Apart(pool, Buffers)
    /\ \A b \in Buffers : Parked(pool, b)
    /\ phase \in {"idle", "frags", "rx"} /\ at \in Buffers
    /\ phase = "frags" => \A b \in Buffers : b < at => pool.flag[b] # "swallowed"
    /\ phase = "rx" => \A b \in Buffers : pool.flag[b] # "swallowed"

-----------------------------------------------------------------------------
(* The lowest and the highest of some buffers is one of them.               *)

LEMMA Least ==
  ASSUME NEW S, S \subseteq Nat, S # {}
  PROVE  Min(S) \in S /\ \A y \in S : Min(S) <= y
<1> DEFINE R == OpToRel(<, Nat)
<1>1. IsWellFoundedOn(R, Nat)
  BY NatLessThanWellFounded
<1>2. R = {ss \in Nat \X Nat : ss[1] < ss[2]}
  BY Zenon DEF OpToRel
<1> HIDE DEF R
<1>3. PICK x \in S : \A y \in S : <<y, x>> \notin R
  BY <1>1, WFMin
<1>4. ASSUME NEW y \in S PROVE x <= y
  <2> DEFINE p == <<y, x>>
  <2>1. p \in Nat \X Nat /\ p[1] = y /\ p[2] = x
    OBVIOUS
  <2>2. p \notin R
    BY <1>3
  <2> HIDE DEF p
  <2>3. ~(y < x)
    BY <1>2, <2>1, <2>2
  <2> QED BY <2>3
<1> QED BY <1>4 DEF Min

LEMMA Greatest ==
  ASSUME NEW N \in Nat, NEW S, S \subseteq 0 .. N, S # {}
  PROVE  Max(S) \in S /\ \A y \in S : y <= Max(S)
<1> DEFINE T == {N - x : x \in S}
<1>a. \A x \in S : x \in Nat /\ x <= N
  OBVIOUS
<1>0. T \subseteq Nat
  BY <1>a
<1>1. T # {}
  OBVIOUS
<1>2. PICK k \in T : \A y \in T : k <= y
  <2> HIDE DEF T
  <2> QED BY <1>0, <1>1, Least
<1>3. PICK x \in S : k = N - x
  BY <1>2
<1>4. ASSUME NEW y \in S PROVE x >= y
  <2>1. N - y \in T
    OBVIOUS
  <2>2. N - x <= N - y
    BY <1>2, <1>3, <2>1
  <2> QED BY <2>2, <1>a
<1> HIDE DEF T
<1>5. \E z \in S : \A y \in S : z >= y
  BY <1>4
<1>6. Max(S) \in S /\ \A y \in S : Max(S) >= y
  BY <1>5 DEF Max
<1> QED BY <1>6, <1>a

LEMMA OneOfThem ==
  ASSUME NEW S, S \subseteq Buffers, S # {}
  PROVE  Min(S) \in S /\ Max(S) \in S
<1>1. NBuf - 1 \in Nat /\ S \subseteq 0 .. NBuf - 1 /\ S \subseteq Nat
  BY PoolAssumption DEF Buffers
<1> QED BY <1>1, Least, Greatest

-----------------------------------------------------------------------------
(* What the operators on pools do, cell by cell.                            *)

LEMMA FreeCells ==
  ASSUME NEW m \in PoolShape, NEW S
  PROVE  /\ FreeBuffers(m, S) \in PoolShape
         /\ FreeBuffers(m, S).sound = m.sound
         /\ \A c \in Buffers \cap S :
              /\ FreeBuffers(m, S).flag[c] = "free" /\ FreeBuffers(m, S).ptr[c] = "null"
              /\ FreeBuffers(m, S).pkt[c] = None
         /\ \A c \in Buffers \ S :
              /\ FreeBuffers(m, S).flag[c] = m.flag[c] /\ FreeBuffers(m, S).ptr[c] = m.ptr[c]
              /\ FreeBuffers(m, S).pkt[c] = m.pkt[c]
<1>1. None \in PacketShape
  BY DEF None, Packet, PacketShape, PacketKinds
<1>2. 0 \in -1 .. FragTime
  BY PoolAssumption
<1> QED BY <1>1, <1>2 DEF FreeBuffers, PoolShape

Written == {"swallowing", "swallowed", "ready"}

LEMMA FillCells ==
  ASSUME NEW m \in PoolShape, NEW b \in Buffers, NEW p \in PacketShape,
         NEW f \in Written
  PROVE  /\ Fill(m, b, f, p) \in PoolShape
         /\ Fill(m, b, f, p).sound = m.sound
         /\ Fill(m, b, f, p).flag[b] = f /\ Fill(m, b, f, p).ptr[b] = "live"
         /\ Fill(m, b, f, p).pkt[b] = p
         /\ \A c \in Buffers \ {b} :
              /\ Fill(m, b, f, p).flag[c] = m.flag[c] /\ Fill(m, b, f, p).ptr[c] = m.ptr[c]
              /\ Fill(m, b, f, p).pkt[c] = m.pkt[c]
<1>1. 0 \in -1 .. FragTime
  BY PoolAssumption
<1> QED BY <1>1 DEF Fill, PoolShape, Written

(* Time only moves what is due.                                             *)
LEMMA LookCells ==
  ASSUME NEW m \in PoolShape
  PROVE  /\ Look(m) \in PoolShape /\ Ticked(m) \in PoolShape
         /\ \A n \in {Look(m), Ticked(m)} :
              n.flag = m.flag /\ n.ptr = m.ptr /\ n.pkt = m.pkt /\ n.sound = m.sound
<1>1. \A d \in -1 .. FragTime : d >= 0 => d - 1 \in -1 .. FragTime
  BY PoolAssumption
<1>2. /\ Ticked(m) \in PoolShape
      /\ Ticked(m).flag = m.flag /\ Ticked(m).ptr = m.ptr /\ Ticked(m).pkt = m.pkt
      /\ Ticked(m).sound = m.sound
  BY <1>1 DEF Ticked, PoolShape
<1> QED BY <1>2 DEF Look

LEMMA TimerCells ==
  ASSUME NEW m \in PoolShape, NEW b \in Buffers
  PROVE  /\ SetTimer(m, b) \in PoolShape
         /\ SetTimer(m, b).flag = m.flag /\ SetTimer(m, b).ptr = m.ptr
         /\ SetTimer(m, b).pkt = m.pkt /\ SetTimer(m, b).sound = m.sound
<1>1. FragTime \in -1 .. FragTime
  BY PoolAssumption
<1>2. /\ Look(m) \in PoolShape /\ Look(m).flag = m.flag /\ Look(m).ptr = m.ptr
      /\ Look(m).pkt = m.pkt /\ Look(m).sound = m.sound
  BY LookCells
<1> HIDE DEF Look
<1> QED BY <1>1, <1>2 DEF SetTimer, PoolShape

-----------------------------------------------------------------------------
(* From m to n no buffer of S became SWALLOWED or a fragment, and those     *)
(* that are still hold what they held.                                      *)
Quieter(m, n, S) == \A c \in S :
    /\ n.flag[c] = "fragment" => m.flag[c] = "fragment" /\ SameDatagram(n.pkt[c], m.pkt[c])
    /\ n.flag[c] = "swallowed" => m.flag[c] = "swallowed" /\ n.pkt[c] = m.pkt[c]

LEMMA QuieterTwice ==
  ASSUME NEW m, NEW n, NEW k, NEW S, Quieter(m, n, S), Quieter(n, k, S)
  PROVE  Quieter(m, k, S)
  BY DEF Quieter, SameDatagram

LEMMA QuieterApart ==
  ASSUME NEW m, NEW n, NEW S, Quieter(m, n, S), Apart(m, S)
  PROVE  Apart(n, S)
  BY DEF Quieter, Apart, SameDatagram

LEMMA QuieterParked ==
  ASSUME NEW m, NEW n, NEW S, Quieter(m, n, S), NEW c \in S, Parked(m, c)
  PROVE  Parked(n, c)
  BY DEF Quieter, Parked

LEMMA Freed ==
  ASSUME NEW m, PoolRight(m), NEW S
  PROVE  PoolRight(FreeBuffers(m, S)) /\ Quieter(m, FreeBuffers(m, S), Buffers)
<1> DEFINE n == FreeBuffers(m, S)
<1>1. m \in PoolShape /\ (\A b \in Buffers : CellRight(m, b))
  BY DEF PoolRight
<1>2. /\ n \in PoolShape /\ n.sound = m.sound
      /\ \A c \in Buffers \cap S : n.flag[c] = "free" /\ n.ptr[c] = "null" /\ n.pkt[c] = None
      /\ \A c \in Buffers \ S :
           n.flag[c] = m.flag[c] /\ n.ptr[c] = m.ptr[c] /\ n.pkt[c] = m.pkt[c]
  BY <1>1, FreeCells
<1> HIDE DEF n
<1>3. ~IsFragment(None) /\ None.kind # "udp"
  BY DEF IsFragment, None, Packet
<1>4. \A b \in Buffers : CellRight(n, b)
  BY <1>1, <1>2, <1>3 DEF CellRight
<1>6. Quieter(m, n, Buffers)
  BY <1>2 DEF Quieter, SameDatagram
<1> QED BY <1>2, <1>4, <1>6 DEF PoolRight, n

LEMMA FreedOne ==
  ASSUME NEW m, PoolRight(m), NEW b \in Buffers
  PROVE  /\ PoolRight(FreeBuffer(m, b)) /\ Quieter(m, FreeBuffer(m, b), Buffers)
         /\ FreeBuffer(m, b).flag[b] = "free"
<1>1. m \in PoolShape
  BY DEF PoolRight
<1> QED BY <1>1, Freed, FreeCells DEF FreeBuffer

(* A frame that comes in, or a segment that goes out.                       *)
LEMMA Filled ==
  ASSUME NEW m, PoolRight(m), NEW b \in Buffers, NEW p \in PacketShape,
         NEW f \in Written,
         IsFragment(p) => f = "swallowed"
  PROVE  /\ PoolRight(Fill(m, b, f, p))
         /\ Quieter(m, Fill(m, b, f, p), Buffers \ {b})
         /\ f # "swallowed" => Quieter(m, Fill(m, b, f, p), Buffers)
<1> DEFINE n == Fill(m, b, f, p)
<1>1. m \in PoolShape /\ (\A c \in Buffers : CellRight(m, c))
  BY DEF PoolRight
<1>2. /\ n \in PoolShape /\ n.sound = m.sound
      /\ n.flag[b] = f /\ n.ptr[b] = "live" /\ n.pkt[b] = p
      /\ \A c \in Buffers \ {b} :
           n.flag[c] = m.flag[c] /\ n.ptr[c] = m.ptr[c] /\ n.pkt[c] = m.pkt[c]
  BY <1>1, FillCells
<1> HIDE DEF n
<1>3. \A c \in Buffers : CellRight(n, c)
  BY <1>1, <1>2 DEF CellRight, Written
<1>5. Quieter(m, n, Buffers \ {b}) /\ (f # "swallowed" => Quieter(m, n, Buffers))
  BY <1>2 DEF Quieter, SameDatagram, Written
<1> QED BY <1>2, <1>3, <1>5 DEF PoolRight, n

LEMMA Replied ==
  ASSUME NEW m, PoolRight(m), NEW b \in Buffers
  PROVE  /\ PoolRight(Fill(m, b, "ready", Reply)) /\ Quieter(m, Fill(m, b, "ready", Reply), Buffers)
         /\ Fill(m, b, "ready", Reply).flag[b] = "ready"
<1>1. Reply \in PacketShape /\ ~IsFragment(Reply) /\ Reply.kind # "udp"
  BY DEF Reply, Packet, PacketShape, PacketKinds, IsFragment
<1>2. m \in PoolShape /\ "ready" \in Written
  BY DEF PoolRight, Written
<1>3. Fill(m, b, "ready", Reply).flag[b] = "ready"
  BY <1>1, <1>2, FillCells
<1>4. /\ PoolRight(Fill(m, b, "ready", Reply))
      /\ "ready" # "swallowed" => Quieter(m, Fill(m, b, "ready", Reply), Buffers)
  BY ONLY <1>1, <1>2, Filled, PoolRight(m), b \in Buffers
<1> QED BY <1>3, <1>4

(* A segment finds a free buffer, or it is not sent.                        *)
LEMMA Packed ==
  ASSUME NEW m, PoolRight(m), NEW n \in FastTcpPack(m)
  PROVE  PoolRight(n) /\ Quieter(m, n, Buffers)
<1> DEFINE room == FreeOnes(m, Buffers \ {0})
<1>1. CASE n = m
  BY <1>1 DEF Quieter, SameDatagram
<1>2. CASE room # {} /\ n = Fill(m, Max(room), "ready", Reply)
  <2>1. room \subseteq Buffers
    BY DEF FreeOnes
  <2>2. Max(room) \in Buffers
    BY <1>2, <2>1, OneOfThem
  <2> QED BY <1>2, <2>2, Replied
<1> QED BY <1>1, <1>2 DEF FastTcpPack

-----------------------------------------------------------------------------
(* The upper layers: what was SWALLOWED is free, answered, or a reset that  *)
(* is parked; one that was parked before does not stay.                     *)
LEMMA TcpRight ==
  ASSUME NEW m, PoolRight(m), NEW b \in Buffers, m.flag[b] = "swallowed", NEW n \in Tcp(m, b)
  PROVE  /\ PoolRight(n) /\ Quieter(m, n, Buffers \ {b})
         /\ n.flag[b] # "fragment" /\ Parked(n, b)
         /\ ~m.pkt[b].sum => n.flag[b] # "swallowed"
<1>1. \A k \in {m} \cup FastTcpPack(m) :
        /\ PoolRight(FreeBuffer(k, b)) /\ Quieter(m, FreeBuffer(k, b), Buffers)
        /\ FreeBuffer(k, b).flag[b] = "free"
  <2> SUFFICES ASSUME NEW k \in {m} \cup FastTcpPack(m)
               PROVE  /\ PoolRight(FreeBuffer(k, b)) /\ Quieter(m, FreeBuffer(k, b), Buffers)
                      /\ FreeBuffer(k, b).flag[b] = "free"
    OBVIOUS
  <2>1. PoolRight(k) /\ Quieter(m, k, Buffers)
    BY Packed DEF Quieter, SameDatagram
  <2>2. PoolRight(FreeBuffer(k, b)) /\ Quieter(k, FreeBuffer(k, b), Buffers)
        /\ FreeBuffer(k, b).flag[b] = "free"
    BY <2>1, FreedOne
  <2> QED BY <2>1, <2>2, QuieterTwice
<1>2. \A k \in FastTcpPack(FreeBuffer(m, b)) :
        PoolRight(k) /\ Quieter(FreeBuffer(m, b), k, Buffers)
  BY <1>1, Packed
<1>3. CASE \E k \in {m} \cup FastTcpPack(m) : n = FreeBuffer(k, b)
  BY <1>1, <1>3 DEF Quieter, Parked
<1>4. CASE n \in FastTcpPack(FreeBuffer(m, b))
  <2>1. PoolRight(n) /\ Quieter(FreeBuffer(m, b), n, Buffers) /\ Quieter(m, FreeBuffer(m, b), Buffers)
    BY <1>1, <1>2, <1>4
  <2>2. Quieter(m, n, Buffers)
    BY <2>1, QuieterTwice
  <2>3. n.flag[b] \notin {"fragment", "swallowed"}
    BY <1>1, <2>1 DEF Quieter
  <2> QED BY <2>1, <2>2, <2>3 DEF Quieter, Parked
<1>5. CASE /\ Complete(m.pkt[b]) /\ m.pkt[b].sum /\ m.pkt[b].kind = "rst"
           /\ n = [m EXCEPT !.pkt[b].sum = FALSE]
  <2>1. m \in PoolShape /\ (\A c \in Buffers : CellRight(m, c))
    BY DEF PoolRight
  <2> DEFINE q == [m.pkt[b] EXCEPT !.sum = FALSE]
  <2>2. /\ n \in PoolShape /\ n.flag = m.flag /\ n.ptr = m.ptr /\ n.sound = m.sound
        /\ n.pkt[b] = q
        /\ \A c \in Buffers \ {b} : n.pkt[c] = m.pkt[c]
    <3>1. m.pkt[b] \in PacketShape /\ n = [m EXCEPT !.pkt = [@ EXCEPT ![b] = q]]
      BY <1>5, <2>1 DEF PoolShape
    <3>2. q \in PacketShape
      BY <3>1 DEF PacketShape
    <3> HIDE DEF q
    <3> QED BY <2>1, <3>1, <3>2 DEF PoolShape
  <2>3. /\ n.pkt[b].kind = "rst" /\ ~n.pkt[b].sum /\ n.pkt[b].got = m.pkt[b].got
    <3>1. m.pkt[b] \in PacketShape
      BY <2>1 DEF PoolShape
    <3> QED BY <1>5, <2>2, <3>1 DEF PacketShape
  <2>4. \A c \in Buffers : CellRight(n, c)
    BY <2>1, <2>2, <2>3 DEF CellRight, IsFragment
  <2>6. Quieter(m, n, Buffers \ {b})
    BY <2>2 DEF Quieter, SameDatagram
  <2> QED BY <1>5, <2>2, <2>3, <2>4, <2>6 DEF PoolRight, Parked, Complete
<1> QED BY <1>3, <1>4, <1>5 DEF Tcp

LEMMA UdpPacket ==
  ASSUME NEW m, PoolRight(m), NEW b \in Buffers, m.pkt[b].kind = "udp"
  PROVE  PoolRight(Udp(m, b)) /\ Quieter(m, Udp(m, b), Buffers) /\ Udp(m, b).flag[b] = "free"
<1> DEFINE k == FreeBuffer(m, b)
           n == [k EXCEPT !.sound = m.sound /\ Complete(m.pkt[b])]
<1>1. PoolRight(k) /\ Quieter(m, k, Buffers) /\ k.flag[b] = "free"
  BY FreedOne
<1>2. CASE Udp(m, b) = k
  BY <1>1, <1>2
<1>3. CASE Udp(m, b) = n /\ (m.pkt[b].sum => Complete(m.pkt[b]))
  <2> HIDE DEF k
  <2>1. /\ k \in PoolShape /\ (\A c \in Buffers : CellRight(k, c))
        /\ m \in PoolShape
    BY <1>1 DEF PoolRight
  <2>2. (m.sound /\ Complete(m.pkt[b])) \in BOOLEAN
    BY <2>1 DEF PoolShape, Complete
  <2>3. /\ n \in PoolShape /\ n.flag = k.flag /\ n.ptr = k.ptr /\ n.pkt = k.pkt
        /\ n.sound = (m.sound /\ Complete(m.pkt[b]))
    BY <2>1, <2>2 DEF PoolShape
  <2> HIDE DEF n
  <2>4. \A c \in Buffers : CellRight(n, c)
    BY <2>1, <2>3 DEF CellRight
  <2>6. Quieter(m, n, Buffers) /\ n.flag[b] = "free"
    BY <1>1, <2>3 DEF Quieter
  <2> QED BY <1>3, <2>3, <2>4, <2>6 DEF PoolRight
<1> QED BY <1>2, <1>3 DEF Udp

Handled(m, n, b) ==
    /\ PoolRight(n) /\ Quieter(m, n, Buffers \ {b})
    /\ n.flag[b] # "fragment" /\ Parked(n, b)

LEMMA FreeHandled ==
  ASSUME NEW m, PoolRight(m), NEW b \in Buffers
  PROVE  Handled(m, FreeBuffer(m, b), b) /\ FreeBuffer(m, b).flag[b] = "free"
  BY FreedOne DEF Handled, Quieter, Parked

LEMMA ReplyHandled ==
  ASSUME NEW m, PoolRight(m), NEW b \in Buffers
  PROVE  /\ Handled(m, Fill(m, b, "ready", Reply), b)
         /\ Fill(m, b, "ready", Reply).flag[b] = "ready"
  BY Replied DEF Handled, Quieter, Parked

LEMMA DecideRight ==
  ASSUME NEW m, PoolRight(m), NEW b \in Buffers, m.flag[b] = "swallowed", NEW n \in IpDecide(m, b)
  PROVE  /\ Handled(m, n, b)
         /\ m.pkt[b].kind = "rst" /\ ~m.pkt[b].sum => n.flag[b] # "swallowed"
<1>1. CASE n = Icmp(m, b)
  BY <1>1, FreeHandled, ReplyHandled DEF Icmp
<1>2. CASE n \in Tcp(m, b)
  BY <1>2, TcpRight DEF Handled
<1>3. CASE n = Udp(m, b) /\ m.pkt[b].kind = "udp"
  BY <1>3, UdpPacket DEF Handled, Quieter, Parked
<1>4. CASE n = ErrReply(m, b)
  BY <1>4, ReplyHandled DEF ErrReply
<1> QED BY <1>1, <1>2, <1>3, <1>4 DEF IpDecide

-----------------------------------------------------------------------------
(* Reassembly, of the fragment in b.  Before it nothing else is SWALLOWED,  *)
(* and no two other buffers hold pieces of one datagram.                    *)

Settled(m) == PoolRight(m) /\ Apart(m, Buffers) /\ \A c \in Buffers : Parked(m, c)

Joining(m, b) ==
    /\ PoolRight(m) /\ m.flag[b] = "fragment" /\ Apart(m, Buffers \ {b})
    /\ \A c \in Buffers : m.flag[c] # "swallowed"

(* What a buffer is joined with holds pieces of the same datagram.          *)
LEMMA FoundFrag ==
  ASSUME NEW m, NEW b \in Buffers, Joining(m, b), FindFrag(m, b) # {}
  PROVE  /\ Min(FindFrag(m, b)) \in Buffers \ {b}
         /\ m.flag[Min(FindFrag(m, b))] = "fragment"
         /\ SameDatagram(m.pkt[Min(FindFrag(m, b))], m.pkt[b])
<1>1. FindFrag(m, b) \subseteq Buffers
  BY DEF FindFrag
<1>2. Min(FindFrag(m, b)) \in FindFrag(m, b)
  BY <1>1, OneOfThem
<1> DEFINE c == Min(FindFrag(m, b))
<1> HIDE DEF c
<1>3. /\ c \in Buffers \ {b} /\ IsFragment(m.pkt[c])
      /\ m.pkt[c].id = m.pkt[b].id /\ m.pkt[c].kind = m.pkt[b].kind
  BY <1>2 DEF FindFrag, c
<1>4. m.flag[c] = "fragment"
  BY <1>3 DEF Joining, PoolRight, CellRight
<1> QED BY <1>3, <1>4 DEF c, SameDatagram

(* Once b is the only buffer with pieces of its datagram, or has none, the  *)
(* pool is settled.                                                         *)
LEMMA FreeSettles ==
  ASSUME NEW m, NEW b \in Buffers, PoolRight(m), Apart(m, Buffers \ {b}),
         \A c \in Buffers \ {b} : Parked(m, c)
  PROVE  Settled(FreeBuffer(m, b))
<1> DEFINE n == FreeBuffer(m, b)
<1>1. PoolRight(n) /\ Quieter(m, n, Buffers) /\ n.flag[b] = "free"
  BY FreedOne
<1> HIDE DEF n
<1>2. Quieter(m, n, Buffers \ {b})
  BY <1>1 DEF Quieter
<1>3. Apart(n, Buffers \ {b})
  BY <1>2, QuieterApart
<1>4. \A c \in Buffers \ {b} : Parked(n, c)
  BY <1>2, QuieterParked
<1> QED BY <1>1, <1>3, <1>4 DEF Settled, Apart, Parked, n

LEMMA StartRight ==
  ASSUME NEW m, NEW b \in Buffers, Joining(m, b), NEW n \in StartReassembly(m, b)
  PROVE  Settled(n)
<1> DEFINE old == FindFrag(m, b)
           k == IF old = {} THEN m ELSE FreeBuffer(m, Min(old))
<1>1. PoolRight(m)
  BY DEF Joining
<1>2. PoolRight(k) /\ Quieter(m, k, Buffers)
  <2>1. CASE old = {}
    BY <1>1, <2>1 DEF Quieter, SameDatagram
  <2>2. CASE old # {}
    BY <1>1, <2>2, FoundFrag, FreedOne
  <2> QED BY <2>1, <2>2
<1>3. \A c \in old : k.flag[c] # "fragment"
  <2> SUFFICES ASSUME NEW c \in old, k.flag[c] = "fragment" PROVE FALSE
    OBVIOUS
  <2> DEFINE d == Min(old)
  <2>1. /\ d \in Buffers \ {b} /\ m.flag[d] = "fragment" /\ SameDatagram(m.pkt[d], m.pkt[b])
        /\ k.flag[d] = "free"
    BY <1>1, FoundFrag, FreedOne
  <2> HIDE DEF d, k
  <2>2. c \in Buffers \ {b} /\ SameDatagram(m.pkt[c], m.pkt[b]) /\ m.flag[c] = "fragment"
    BY <1>2 DEF FindFrag, SameDatagram, Quieter
  <2>3. c # d
    BY <2>1
  <2> QED BY <2>1, <2>2, <2>3 DEF Joining, Apart, SameDatagram
<1>4. Settled(k)
  <2> HIDE DEF k
  <2>1. Apart(k, Buffers \ {b})
    <3>1. Quieter(m, k, Buffers \ {b})
      BY <1>2 DEF Quieter
    <3> QED BY <3>1, QuieterApart DEF Joining
  <2>2. ASSUME NEW c \in Buffers \ {b}, k.flag[c] = "fragment", k.flag[b] = "fragment",
               SameDatagram(k.pkt[b], k.pkt[c])
        PROVE  FALSE
    <3>1. SameDatagram(m.pkt[c], m.pkt[b]) /\ m.flag[c] = "fragment"
      BY <1>2, <2>2 DEF Quieter, SameDatagram
    <3>2. m.ptr[c] # "null" /\ IsFragment(m.pkt[c])
      BY <1>1, <3>1 DEF PoolRight, CellRight
    <3>3. c \in old
      BY <3>1, <3>2 DEF FindFrag, SameDatagram
    <3> QED BY <1>3, <2>2, <3>3
  <2>3. \A c \in Buffers : Parked(k, c)
    BY <1>2 DEF Joining, Quieter, Parked
  <2> QED BY <1>2, <2>1, <2>2, <2>3 DEF Settled, Apart, SameDatagram
<1>5. Settled(FreeBuffer(k, b))
  BY <1>4, FreeSettles DEF Settled, Apart
<1> HIDE DEF k
<1> QED BY <1>4, <1>5 DEF StartReassembly, k

LEMMA JoinRight ==
  ASSUME NEW m, NEW b \in Buffers, Joining(m, b), NEW here \in Buffers \ {b},
         m.flag[here] = "fragment", SameDatagram(m.pkt[here], m.pkt[b]), NEW n \in Join(m, b, here)
  PROVE  Settled(n)
<1> DEFINE k == [m EXCEPT !.pkt[here].got = @ \cup m.pkt[b].got]
           s == [k EXCEPT !.flag[here] = "swallowed"]
<1>1. m \in PoolShape /\ (\A c \in Buffers : CellRight(m, c))
  BY DEF Joining, PoolRight
<1>2. /\ k \in PoolShape /\ k.flag = m.flag /\ k.ptr = m.ptr /\ k.sound = m.sound
      /\ k.pkt[here] = [m.pkt[here] EXCEPT !.got = @ \cup m.pkt[b].got]
      /\ \A c \in Buffers \ {here} : k.pkt[c] = m.pkt[c]
  <2> DEFINE q == [m.pkt[here] EXCEPT !.got = @ \cup m.pkt[b].got]
  <2>1. m.pkt[here] \in PacketShape /\ m.pkt[b] \in PacketShape
    BY <1>1 DEF PoolShape
  <2>2. q \in PacketShape
    BY <2>1 DEF PacketShape
  <2>3. k = [m EXCEPT !.pkt = [@ EXCEPT ![here] = q]]
    BY <1>1, <2>1 DEF PoolShape, PacketShape
  <2> HIDE DEF k
  <2>4. k.pkt[here] = q
    <3> HIDE DEF q
    <3> QED BY <1>1, <2>2, <2>3 DEF PoolShape
  <2>5. /\ k \in PoolShape /\ k.flag = m.flag /\ k.ptr = m.ptr /\ k.sound = m.sound
        /\ \A c \in Buffers \ {here} : k.pkt[c] = m.pkt[c]
    <3> HIDE DEF q
    <3> QED BY <1>1, <2>2, <2>3 DEF PoolShape
  <2> QED BY <2>4, <2>5
<1>3. /\ k.pkt[here].kind = m.pkt[here].kind /\ k.pkt[here].id = m.pkt[here].id
      /\ k.pkt[here].sum = m.pkt[here].sum /\ IsFragment(k.pkt[here])
  <2>1. IsFragment(m.pkt[here]) /\ m.pkt[here] \in PacketShape
    BY <1>1 DEF CellRight, PoolShape
  <2> HIDE DEF k
  <2> QED BY <1>2, <2>1 DEF PacketShape, IsFragment
<1> HIDE DEF k
<1>4. /\ PoolRight(k) /\ Apart(k, Buffers \ {b}) /\ \A c \in Buffers : k.flag[c] # "swallowed"
  <2>1. \A c \in Buffers : CellRight(k, c)
    BY <1>1, <1>2, <1>3 DEF CellRight
  <2>3. \A c \in Buffers : k.flag[c] = m.flag[c] /\ k.pkt[c].kind = m.pkt[c].kind /\ k.pkt[c].id = m.pkt[c].id
    BY <1>2, <1>3
  <2> QED BY <1>2, <2>1, <2>3 DEF PoolRight, Joining, Apart, SameDatagram
<1>5. CASE n = FreeBuffer(SetTimer(k, here), b)
  <2> DEFINE j == SetTimer(k, here)
  <2>1. /\ j \in PoolShape /\ j.flag = k.flag /\ j.ptr = k.ptr /\ j.pkt = k.pkt /\ j.sound = k.sound
    BY <1>2, TimerCells
  <2> HIDE DEF j
  <2>2. PoolRight(j) /\ Apart(j, Buffers \ {b}) /\ \A c \in Buffers \ {b} : Parked(j, c)
    BY <1>4, <2>1 DEF PoolRight, CellRight, Apart, Parked
  <2> QED BY <1>5, <2>2, FreeSettles DEF j
<1>6. CASE \E u \in IpDecide(s, here) : n = FreeBuffer(u, b)
  <2> PICK u \in IpDecide(s, here) : n = FreeBuffer(u, b)
    BY <1>6
  <2>1. /\ s \in PoolShape /\ s.ptr = k.ptr /\ s.pkt = k.pkt /\ s.sound = k.sound
        /\ s.flag[here] = "swallowed"
        /\ \A c \in Buffers \ {here} : s.flag[c] = k.flag[c]
    BY <1>2 DEF PoolShape
  <2> HIDE DEF s
  <2>2. PoolRight(s)
    <3>1. k.flag[here] = "fragment"
      BY <1>2
    <3> QED BY <1>4, <2>1, <3>1 DEF PoolRight, CellRight
  <2>3. Handled(s, u, here)
    BY <2>1, <2>2, DecideRight
  <2>4. Apart(s, Buffers \ {b}) /\ \A c \in Buffers \ {here} : Parked(s, c)
    BY <1>4, <2>1 DEF Apart, Parked, SameDatagram
  <2>5. Apart(u, Buffers \ {b}) /\ \A c \in Buffers : Parked(u, c)
    <3>1. Quieter(s, u, Buffers \ {here}) /\ u.flag[here] # "fragment" /\ Parked(u, here)
      BY <2>3 DEF Handled
    <3> QED BY <2>4, <3>1 DEF Apart, Parked, Quieter, SameDatagram
  <2> QED BY <2>3, <2>5, FreeSettles DEF Handled
<1> QED BY <1>5, <1>6 DEF Join, k, s

LEMMA CoalesceRight ==
  ASSUME NEW m, NEW b \in Buffers, Joining(m, b), NEW n \in CoalesceFrags(m, b)
  PROVE  Settled(n)
<1>1. Settled(FreeBuffer(m, b))
  BY FreeSettles DEF Joining, Parked
<1>2. CASE 1 \in m.pkt[b].got
  BY <1>2, StartRight DEF CoalesceFrags
<1>3. CASE FindFrag(m, b) = {}
  BY <1>1, <1>2, <1>3 DEF CoalesceFrags
<1>4. CASE 1 \notin m.pkt[b].got /\ FindFrag(m, b) # {}
  <2>1. n \in Join(m, b, Min(FindFrag(m, b)))
    BY <1>4 DEF CoalesceFrags
  <2> QED BY <1>4, <2>1, FoundFrag, JoinRight
<1> QED BY <1>2, <1>3, <1>4

(* A frame that was just taken.                                             *)
LEMMA IpTaken ==
  ASSUME NEW m, PoolRight(m), NEW b \in Buffers, m.flag[b] = "swallowed",
         Apart(m, Buffers \ {b}), \A c \in Buffers \ {b} : m.flag[c] # "swallowed",
         NEW n \in Ip(m, b)
  PROVE  Settled(n)
<1>1. ASSUME Handled(m, n, b) PROVE Settled(n)
  <2>1. Quieter(m, n, Buffers \ {b}) /\ PoolRight(n) /\ n.flag[b] # "fragment" /\ Parked(n, b)
    BY <1>1 DEF Handled
  <2> QED BY <2>1 DEF Settled, Apart, Parked, Quieter, SameDatagram
<1>2. CASE n \in {FreeBuffer(m, b), ErrReply(m, b)}
  BY <1>1, <1>2, FreeHandled, ReplyHandled DEF ErrReply
<1>3. CASE n \in IpDecide(m, b)
  BY <1>1, <1>3, DecideRight
<1>4. CASE IsFragment(m.pkt[b]) /\ n \in CoalesceFrags(SetTimer([m EXCEPT !.flag[b] = "fragment"], b), b)
  <2> DEFINE f == [m EXCEPT !.flag[b] = "fragment"]
             s == SetTimer(f, b)
  <2>1. m \in PoolShape /\ (\A c \in Buffers : CellRight(m, c))
    BY DEF PoolRight
  <2>2. /\ f \in PoolShape /\ f.ptr = m.ptr /\ f.pkt = m.pkt /\ f.sound = m.sound
        /\ f.flag[b] = "fragment" /\ \A c \in Buffers \ {b} : f.flag[c] = m.flag[c]
    BY <2>1 DEF PoolShape
  <2> HIDE DEF f
  <2>3. /\ s \in PoolShape /\ s.flag = f.flag /\ s.ptr = f.ptr /\ s.pkt = f.pkt /\ s.sound = f.sound
    BY <2>2, TimerCells
  <2> HIDE DEF s
  <2>4. \A c \in Buffers : CellRight(s, c)
    BY <1>4, <2>1, <2>2, <2>3 DEF CellRight
  <2>6. Joining(s, b)
    BY <2>2, <2>3, <2>4 DEF Joining, PoolRight, Apart, SameDatagram
  <2> QED BY <1>4, <2>6, CoalesceRight DEF f, s
<1> QED BY <1>2, <1>3, <1>4 DEF Ip

(* A second look, at a fragment or at a parked reset, which does not stay.  *)
LEMMA IpAgain ==
  ASSUME NEW m, Settled(m), NEW b \in Buffers, m.flag[b] \in {"swallowed", "fragment"},
         NEW n \in Ip(m, b)
  PROVE  Settled(n) /\ Quieter(m, n, Buffers) /\ n.flag[b] # "swallowed"
<1>1. PoolRight(m) /\ m \in PoolShape
  BY DEF Settled, PoolRight
<1>2. ASSUME PoolRight(n), Quieter(m, n, Buffers) PROVE Settled(n)
  BY <1>2, QuieterApart, QuieterParked DEF Settled
<1>3. CASE n = FreeBuffer(m, b)
  BY <1>1, <1>2, <1>3, FreedOne
<1>4. CASE m.flag[b] = "fragment"
  <2> DEFINE k == Look(m)
  <2>1. /\ k \in PoolShape
        /\ k.flag = m.flag /\ k.ptr = m.ptr /\ k.pkt = m.pkt /\ k.sound = m.sound
    BY <1>1, LookCells
  <2>2. n = k \/ n = FreeBuffer(k, b)
    BY <1>4 DEF Ip
  <2> HIDE DEF k
  <2>3. PoolRight(k) /\ Quieter(m, k, Buffers)
    BY <1>1, <2>1 DEF PoolRight, CellRight, Quieter, SameDatagram
  <2>4. CASE n = k
    BY <1>2, <1>4, <2>1, <2>3, <2>4
  <2>5. CASE n = FreeBuffer(k, b)
    <3>1. PoolRight(n) /\ Quieter(k, n, Buffers) /\ n.flag[b] = "free"
      BY <2>3, <2>5, FreedOne
    <3> QED BY <1>2, <2>3, <3>1, QuieterTwice
  <2> QED BY <2>2, <2>4, <2>5
<1>5. CASE m.flag[b] = "swallowed" /\ n # FreeBuffer(m, b)
  <2>1. m.pkt[b].kind = "rst" /\ ~m.pkt[b].sum /\ Complete(m.pkt[b])
    BY <1>5 DEF Settled, Parked
  <2>2. Cardinality(AllPieces) > 1
    BY PoolAssumption, FS_Interval DEF AllPieces
  <2>3. n \in IpDecide(m, b)
    <3>1. CASE m.pkt[b].got = {}
      BY <1>5, <2>1, <3>1 DEF Ip, IsFragment
    <3>2. CASE m.pkt[b].got = AllPieces
      <4>1. AllPieces # {}
        BY PoolAssumption DEF AllPieces
      <4> QED BY <1>5, <2>1, <2>2, <3>2, <4>1 DEF Ip, IsFragment
    <3> QED BY <2>1, <3>1, <3>2 DEF Complete
  <2>4. Handled(m, n, b) /\ n.flag[b] # "swallowed"
    BY <1>1, <1>5, <2>1, <2>3, DecideRight
  <2>5. Quieter(m, n, Buffers)
    BY <2>4 DEF Handled, Quieter
  <2> QED BY <1>2, <2>4, <2>5 DEF Handled
<1> QED BY <1>3, <1>4, <1>5

-----------------------------------------------------------------------------
(* The invariant is kept by every step of a poll and between polls.         *)

LEMMA PoolInitInv == PoolInit => PoolInv
<1> SUFFICES ASSUME PoolInit PROVE PoolInv
  OBVIOUS
<1>1. None \in PacketShape /\ ~IsFragment(None) /\ None.kind # "udp"
  BY DEF None, Packet, PacketShape, PacketKinds, IsFragment
<1>2. 0 \in -1 .. FragTime /\ 0 \in Buffers
  BY PoolAssumption DEF Buffers
<1>3. /\ pool \in PoolShape /\ pool.sound = TRUE
      /\ \A b \in Buffers : pool.flag[b] = "free" /\ pool.ptr[b] = "null" /\ pool.pkt[b] = None
  BY <1>1, <1>2 DEF PoolInit, PoolShape
<1>4. PoolRight(pool)
  BY <1>1, <1>3 DEF PoolRight, CellRight
<1> QED BY <1>2, <1>3, <1>4 DEF PoolInit, PoolInv, Apart, Parked

(* Settled is what PoolInv says of the buffers.                             *)
LEMMA InvSettled == PoolInv <=>
    /\ Settled(pool)
    /\ phase \in {"idle", "frags", "rx"} /\ at \in Buffers
    /\ phase = "frags" => \A b \in Buffers : b < at => pool.flag[b] # "swallowed"
    /\ phase = "rx" => \A b \in Buffers : pool.flag[b] # "swallowed"
  BY DEF PoolInv, Settled

LEMMA QuieterSettled ==
  ASSUME NEW m, Settled(m), NEW n, PoolRight(n), Quieter(m, n, Buffers)
  PROVE  Settled(n)
  BY QuieterApart, QuieterParked DEF Settled

(* The buffer a frame goes into.                                            *)
LEMMA TargetBuffer ==
  ASSUME Target # {}
  PROVE  Max(Target) \in Target /\ Max(Target) \in Buffers
<1>1. Target \subseteq Buffers
  BY DEF Target, Filling, FreeOnes
<1> QED BY <1>1, OneOfThem

LEMMA TxWalkInv == PoolInv /\ TxWalk => PoolInv'
<1> SUFFICES ASSUME PoolInv, TxWalk PROVE PoolInv'
  OBVIOUS
<1>1. Settled(pool)
  BY InvSettled
<1>2. PoolRight(pool') /\ Quieter(pool, pool', Buffers)
  BY <1>1, Freed DEF TxWalk, SlipTx, Settled
<1>3. Settled(pool')
  BY <1>1, <1>2, QuieterSettled
<1>4. phase' = "frags" /\ at' = 0 /\ 0 \in Buffers /\ \A b \in Buffers : ~(b < 0)
  BY PoolAssumption DEF TxWalk, Buffers
<1> QED BY <1>3, <1>4 DEF PoolInv, Settled

LEMMA DoTcpipInv == PoolInv /\ DoTcpip => PoolInv'
<1> SUFFICES ASSUME PoolInv, DoTcpip PROVE PoolInv'
  OBVIOUS
<1>1. Settled(pool) /\ at \in Buffers /\ \A b \in Buffers : b < at => pool.flag[b] # "swallowed"
  BY InvSettled DEF DoTcpip
<1>2. Settled(pool') /\ Quieter(pool, pool', Buffers) /\ pool'.flag[at] # "swallowed"
  <2>1. CASE pool.flag[at] \in {"swallowed", "fragment"}
    BY <1>1, <2>1, IpAgain DEF DoTcpip
  <2>2. CASE pool.flag[at] \notin {"swallowed", "fragment"}
    <3>1. pool' = pool
      BY <2>2 DEF DoTcpip
    <3> QED BY <1>1, <2>2, <3>1 DEF Quieter, SameDatagram
  <2> QED BY <2>1, <2>2
<1>3. \A b \in Buffers : b <= at => pool'.flag[b] # "swallowed"
  BY <1>1, <1>2 DEF Quieter, Buffers
<1>4. CASE at = NBuf - 1
  <2>1. phase' = "rx" /\ at' = 0 /\ 0 \in Buffers /\ \A b \in Buffers : b <= at
    BY <1>4, PoolAssumption DEF DoTcpip, Buffers
  <2> QED BY <1>2, <1>3, <2>1 DEF PoolInv, Settled
<1>5. CASE at # NBuf - 1
  <2>1. /\ phase' = "frags" /\ at' = at + 1 /\ at + 1 \in Buffers
        /\ \A b \in Buffers : b < at + 1 => b <= at
    BY <1>1, <1>5, PoolAssumption DEF DoTcpip, Buffers
  <2> QED BY <1>2, <1>3, <2>1 DEF PoolInv, Settled
<1> QED BY <1>4, <1>5

(* What a poll or the program does to a pool, and where it then is.         *)
LEMMA ToIdle ==
  ASSUME PoolInv, Settled(pool'), phase' = "idle", at' = at
  PROVE  PoolInv'
  BY DEF PoolInv, Settled

LEMMA SacrificeInv == PoolInv /\ Sacrifice => PoolInv'
<1> SUFFICES ASSUME PoolInv, Sacrifice PROVE PoolInv'
  OBVIOUS
<1> DEFINE b == Max(Target)
<1>1. /\ Settled(pool) /\ pool \in PoolShape /\ \A c \in Buffers : pool.flag[c] # "swallowed"
      /\ \A c \in Buffers : CellRight(pool, c)
  BY InvSettled DEF Sacrifice, Settled, PoolRight
<1>2. b \in Buffers /\ pool.flag[b] = "free" /\ pool.ptr[b] = "null"
  <2>1. b \in Target /\ b \in Buffers
    BY TargetBuffer DEF Sacrifice
  <2> HIDE DEF b
  <2> QED BY <1>1, <2>1 DEF Sacrifice, Target, FreeOnes, CellRight
<1> HIDE DEF b
<1>3. pool' = [pool EXCEPT !.flag = [c \in Buffers |-> @[c]],
                           !.ptr = [c \in Buffers |-> IF c = b THEN "null" ELSE @[c]]]
  BY <1>1 DEF Sacrifice, b
<1>4. pool' = pool
  <2>1. /\ pool.flag = [c \in Buffers |-> pool.flag[c]]
        /\ pool.ptr = [c \in Buffers |-> IF c = b THEN "null" ELSE pool.ptr[c]]
    BY <1>1, <1>2 DEF PoolShape
  <2> QED BY <1>1, <1>3, <2>1 DEF PoolShape
<1> QED BY <1>1, <1>4, ToIdle DEF Sacrifice, PollEnds

LEMMA PartOfFrameInv == PoolInv /\ PartOfFrame => PoolInv'
<1> SUFFICES ASSUME PoolInv, PartOfFrame PROVE PoolInv'
  OBVIOUS
<1>1. Settled(pool) /\ PoolRight(pool)
  BY InvSettled DEF Settled
<1>2. None \in PacketShape /\ ~IsFragment(None) /\ None.kind # "udp" /\ "swallowing" \in Written
  BY DEF None, Packet, PacketShape, PacketKinds, IsFragment, Written
<1>3. Max(Target) \in Buffers
  BY TargetBuffer DEF PartOfFrame
<1>4. PoolRight(pool') /\ ("swallowing" # "swallowed" => Quieter(pool, pool', Buffers))
  BY <1>1, <1>2, <1>3, Filled DEF PartOfFrame
<1>5. Settled(pool')
  BY <1>1, <1>4, QuieterSettled
<1> QED BY <1>5, ToIdle DEF PartOfFrame, PollEnds

LEMMA EndOfFrameInv == PoolInv /\ Receive => PoolInv'
<1> SUFFICES ASSUME PoolInv, NEW p \in Packets \cup Fragments, EndOfFrame(p) PROVE PoolInv'
  BY DEF Receive
<1> DEFINE b == Max(Target)
           m == Fill(pool, b, "swallowed", p)
<1>1. /\ Settled(pool) /\ PoolRight(pool) /\ pool \in PoolShape
      /\ \A c \in Buffers : pool.flag[c] # "swallowed"
  BY InvSettled DEF EndOfFrame, Settled, PoolRight
<1>2. p \in PacketShape /\ "swallowed" \in Written
  <2>1. CASE p \in Packets
    <3>1. PICK k \in Whole : p = Packet(k, 0, {}, TRUE)
      BY <2>1 DEF Packets
    <3>2. k \in PacketKinds /\ {} \in SUBSET AllPieces
      BY <3>1 DEF PacketKinds
    <3>3. p \in PacketShape
      BY <3>1, <3>2 DEF Packet, PacketShape
    <3> QED BY <3>1, <3>3 DEF Packet, Written
  <2>2. CASE p \in Fragments
    <3>1. PICK k \in Fragmented, i \in Ids, a \in AllPieces, z \in BOOLEAN : p = Packet(k, i, {a}, z)
      <4>1. p \in {Packet(k, i, {a}, z) : k \in Fragmented, i \in Ids, a \in AllPieces, z \in BOOLEAN}
        BY <2>2 DEF Fragments, Packet
      <4> QED BY <4>1 DEF Packet
    <3>2. k \in PacketKinds /\ {a} \in SUBSET AllPieces
      BY <3>1 DEF Fragmented, PacketKinds, Whole
    <3>3. p \in PacketShape
      BY <3>1, <3>2 DEF Packet, PacketShape
    <3> QED BY <3>1, <3>3 DEF Packet, Written
  <2> QED BY <2>1, <2>2
<1>3. b \in Buffers
  BY TargetBuffer DEF EndOfFrame
<1> HIDE DEF b
<1>4. PoolRight(m) /\ Quieter(pool, m, Buffers \ {b}) /\ m.flag[b] = "swallowed"
  <2>1. PoolRight(m) /\ Quieter(pool, m, Buffers \ {b})
    BY <1>1, <1>2, <1>3, Filled
  <2>2. m.flag[b] = "swallowed"
    BY <1>1, <1>2, <1>3, FillCells
  <2> QED BY <2>1, <2>2
<1>5. PICK n \in Ip(m, b) : pool' = IF n.flag[b] = "ready" THEN SlipTx(n, {b}) ELSE n
  BY DEF EndOfFrame, b
<1> HIDE DEF m
<1>6. Settled(n)
  <2>1. Apart(pool, Buffers \ {b})
    BY <1>1 DEF Settled, Apart
  <2>2. Apart(m, Buffers \ {b}) /\ \A c \in Buffers \ {b} : m.flag[c] # "swallowed"
    BY <1>1, <1>4, <2>1, QuieterApart DEF Quieter
  <2> QED BY <1>3, <1>4, <2>2, IpTaken
<1>7. Settled(SlipTx(n, {b}))
  BY <1>6, Freed, QuieterSettled DEF SlipTx, Settled
<1> QED BY <1>5, <1>6, <1>7, ToIdle DEF EndOfFrame, PollEnds

LEMMA PoolStepInv == PoolInv /\ [PoolNext]_poolVars => PoolInv'
<1> SUFFICES ASSUME PoolInv, [PoolNext]_poolVars PROVE PoolInv'
  OBVIOUS
<1>1. CASE NoBuffer
  BY <1>1, InvSettled, ToIdle DEF NoBuffer, PollEnds
<1>2. CASE SendTo
  <2>1. PoolRight(pool') /\ Quieter(pool, pool', Buffers)
    BY <1>2, InvSettled, Packed DEF SendTo, Settled
  <2> QED BY <1>2, <2>1, InvSettled, QuieterSettled, ToIdle DEF SendTo
<1>3. CASE Tick
  <2>1. pool \in PoolShape /\ PoolRight(pool)
    BY InvSettled DEF Settled, PoolRight
  <2>2. /\ pool' \in PoolShape
        /\ pool'.flag = pool.flag /\ pool'.ptr = pool.ptr /\ pool'.pkt = pool.pkt
        /\ pool'.sound = pool.sound
    BY <1>3, <2>1, LookCells DEF Tick
  <2>3. PoolRight(pool') /\ Quieter(pool, pool', Buffers)
    BY <2>1, <2>2 DEF PoolRight, CellRight, Quieter, SameDatagram
  <2> QED BY <1>3, <2>3, InvSettled, QuieterSettled, ToIdle DEF Tick
<1>4. CASE UNCHANGED poolVars
  BY <1>4 DEF poolVars, PoolInv, PoolRight, Apart, Parked
<1> QED
  BY <1>1, <1>2, <1>3, <1>4, TxWalkInv, DoTcpipInv, SacrificeInv, PartOfFrameInv, EndOfFrameInv
  DEF PoolNext, Poll

LEMMA PoolInvariance == PoolSpec => []PoolInv
  BY PoolInitInv, PoolStepInv, PTL DEF PoolSpec

(* Memory, owner and contents of the packet buffers agree at every point of *)
(* a poll, and no datagram is ever put together in two buffers, whatever    *)
(* comes in and whenever memory fails (slip.c:132-160, ip.c:194).           *)
THEOREM BuffersAgree == PoolSpec => []BuffersSound
<1>1. PoolInv => BuffersSound
  <2> SUFFICES ASSUME PoolInv PROVE BuffersSound
    OBVIOUS
  <2>1. pool \in PoolShape /\ (\A b \in Buffers : CellRight(pool, b)) /\ Apart(pool, Buffers)
    BY DEF PoolInv, PoolRight
  <2>2. \A b \in Buffers : pool.pkt[b] \in PacketShape
    BY <2>1 DEF PoolShape
  <2>3. PoolTypeOK
    BY <2>1, <2>2 DEF PoolTypeOK, PoolInv, PoolShape, PacketShape
  <2>4. NothingStale
    BY <2>1 DEF NothingStale, CellRight
  <2>5. OneReassembly
    BY <2>1 DEF OneReassembly, Apart, SameDatagram
  <2> QED BY <2>3, <2>4, <2>5 DEF BuffersSound
<1> QED BY <1>1, PoolInvariance, PTL

-----------------------------------------------------------------------------
(* The ring of a datagram socket: walks and distances.                      *)

LEMMA ModRing ==
  ASSUME NEW a \in Int
  PROVE  /\ 0 <= a /\ a < Ring => a % Ring = a
         /\ Ring <= a /\ a < 2 * Ring => a % Ring = a - Ring
         /\ 0 - Ring <= a /\ a < 0 => a % Ring = a + Ring
<1>1. Ring \in Nat \ {0}
  BY UdpAssumption
<1>2. \A r \in 0 .. Ring - 1 : r % Ring = r /\ (r + Ring) % Ring = r /\ (r - Ring) % Ring = r
  BY <1>1
<1>3. CASE 0 <= a /\ a < Ring
  BY <1>1, <1>2, <1>3
<1>4. CASE Ring <= a /\ a < 2 * Ring
  <2>1. a - Ring \in 0 .. Ring - 1 /\ (a - Ring) + Ring = a
    BY <1>1, <1>4
  <2> QED BY <1>1, <1>2, <1>4, <2>1
<1>5. CASE 0 - Ring <= a /\ a < 0
  <2>1. a + Ring \in 0 .. Ring - 1 /\ (a + Ring) - Ring = a
    BY <1>1, <1>5
  <2> QED BY <1>1, <1>2, <1>5, <2>1
<1> QED BY <1>1, <1>3, <1>4, <1>5

LEMMA Walks ==
  ASSUME NEW i \in Slots, NEW k \in 0 .. Ring
  PROVE  Walk(i, k) = IF i + k < Ring THEN i + k ELSE i + k - Ring
<1> DEFINE a == i + k
<1>1. /\ a \in Int /\ 0 <= a /\ a < 2 * Ring
      /\ ~(a < Ring) => Ring <= a
  BY UdpAssumption DEF Slots
<1>2. Walk(i, k) = a % Ring
  BY DEF Walk
<1>3. Walk(i, k) = IF a < Ring THEN a ELSE a - Ring
  <2> HIDE DEF a
  <2> QED BY <1>1, <1>2, ModRing
<1> QED BY <1>1, <1>3, UdpAssumption DEF Slots

LEMMA Distances ==
  ASSUME NEW i \in Slots, NEW j \in Slots
  PROVE  Distance(i, j) = IF i <= j THEN j - i ELSE j - i + Ring
<1>1. /\ j - i \in Int /\ (i <= j => 0 <= j - i /\ j - i < Ring)
      /\ ~(i <= j) => 0 - Ring <= j - i /\ j - i < 0
  BY UdpAssumption DEF Slots
<1> QED BY <1>1, ModRing DEF Distance

(* A place of the ring is as good as its distance from the tail.            *)
LEMMA Offsets ==
  ASSUME NEW t \in Slots
  PROVE  /\ \A p \in Slots : Distance(t, p) \in 0 .. Ring - 1
         /\ Distance(t, t) = 0
         /\ \A p, q \in Slots : Distance(t, p) = Distance(t, q) => p = q
         /\ \A k \in 0 .. Ring - 1 : Walk(t, k) \in Slots /\ Distance(t, Walk(t, k)) = k
<1>1. ASSUME NEW k \in 0 .. Ring - 1
      PROVE  Walk(t, k) \in Slots /\ Distance(t, Walk(t, k)) = k
  <2>1. k \in 0 .. Ring /\ Walk(t, k) \in Slots
    BY Walks, UdpAssumption DEF Slots
  <2>2. Walk(t, k) = IF t + k < Ring THEN t + k ELSE t + k - Ring
    BY <2>1, Walks
  <2>3. Distance(t, Walk(t, k)) = IF t <= Walk(t, k) THEN Walk(t, k) - t ELSE Walk(t, k) - t + Ring
    BY <2>1, Distances
  <2> QED BY <2>1, <2>2, <2>3, UdpAssumption DEF Slots
<1>2. \A p \in Slots : Distance(t, p) \in 0 .. Ring - 1
  BY Distances, UdpAssumption DEF Slots
<1>3. \A p, q \in Slots : Distance(t, p) = Distance(t, q) => p = q
  BY Distances, UdpAssumption DEF Slots
<1>4. Distance(t, t) = 0
  BY Distances, UdpAssumption DEF Slots
<1> QED BY <1>1, <1>2, <1>3, <1>4

(* The tail walks on; the head walks on.                                    *)
LEMMA TailWalks ==
  ASSUME NEW t \in Slots, NEW k \in 0 .. Ring - 1, NEW p \in Slots
  PROVE  Distance(Walk(t, k), p) = IF k <= Distance(t, p) THEN Distance(t, p) - k
                                   ELSE Distance(t, p) - k + Ring
<1>1. k \in 0 .. Ring /\ Walk(t, k) \in Slots
  BY Offsets, UdpAssumption
<1>2. Walk(t, k) = IF t + k < Ring THEN t + k ELSE t + k - Ring
  BY <1>1, Walks
<1>3. Distance(t, p) = IF t <= p THEN p - t ELSE p - t + Ring
  BY Distances
<1>4. Distance(Walk(t, k), p) = IF Walk(t, k) <= p THEN p - Walk(t, k) ELSE p - Walk(t, k) + Ring
  BY <1>1, Distances
<1> QED BY <1>2, <1>3, <1>4, UdpAssumption DEF Slots

LEMMA HeadWalks ==
  ASSUME NEW t \in Slots, NEW h \in Slots, NEW k \in 0 .. Ring - 1, Distance(t, h) + k < Ring
  PROVE  Walk(h, k) \in Slots /\ Distance(t, Walk(h, k)) = Distance(t, h) + k
<1>1. k \in 0 .. Ring /\ Walk(h, k) \in Slots
  BY Offsets, UdpAssumption
<1>2. Walk(h, k) = IF h + k < Ring THEN h + k ELSE h + k - Ring
  BY <1>1, Walks
<1>3. Distance(t, h) = IF t <= h THEN h - t ELSE h - t + Ring
  BY Distances
<1>4. Distance(t, Walk(h, k)) = IF t <= Walk(h, k) THEN Walk(h, k) - t ELSE Walk(h, k) - t + Ring
  BY <1>1, Distances
<1> QED BY <1>1, <1>2, <1>3, <1>4, UdpAssumption DEF Slots

-----------------------------------------------------------------------------
(* The ring's invariant: records tile it from tail to head, and the count   *)
(* says at least how far that is, so the room udp() sees is really there.   *)

Datagram == [len : Nat, what : {"garbage", "sent"}]
RingShape == [ring : [Slots -> Datagram], head : Slots, tail : Slots, count : Int]
Depth(u) == Distance(u.tail, u.head)
RingRight(u) == u \in RingShape /\ Depth(u) <= u.count /\ Tiled(u)

LEMMA FreshRight == RingRight(Fresh) /\ Headers(Fresh) = {} /\ Depth(Fresh) = 0
<1>1. 0 \in Slots /\ Garbage \in Datagram
  BY UdpAssumption DEF Slots, Garbage, Datagram
<1>2. /\ Fresh \in RingShape /\ Fresh.tail = 0 /\ Fresh.head = 0 /\ Fresh.count = 0
      /\ \A p \in Slots : Fresh.ring[p] = Garbage
  BY <1>1 DEF Fresh, RingShape
<1>3. Headers(Fresh) = {}
  BY <1>2 DEF Headers
<1>4. Depth(Fresh) = 0
  BY <1>1, <1>2, Offsets DEF Depth
<1>5. Tiled(Fresh)
  <2>1. 0 \in Marks(Fresh)
    BY <1>2, <1>4 DEF Marks, Depth
  <2> QED BY <1>3, <2>1 DEF Tiled
<1> QED BY <1>2, <1>3, <1>4, <1>5 DEF RingRight

(* What a tiling says of each record.                                       *)
LEMMA Tiles ==
  ASSUME NEW u \in RingShape
  PROVE  Tiled(u) <=>
           /\ Depth(u) = 0 \/ u.tail \in Headers(u)
           /\ \A p \in Headers(u) :
                /\ \/ Distance(u.tail, p) + Header + u.ring[p].len = Depth(u)
                   \/ \E q \in Headers(u) :
                        Distance(u.tail, p) + Header + u.ring[p].len = Distance(u.tail, q)
                /\ Distance(u.tail, p) + Header + u.ring[p].len <= Depth(u)
                /\ \A q \in Headers(u) :
                     \/ Distance(u.tail, q) <= Distance(u.tail, p)
                     \/ Distance(u.tail, p) + Header + u.ring[p].len <= Distance(u.tail, q)
<1>1. u.tail \in Slots /\ u.head \in Slots
  BY DEF RingShape
<1>2. \A p \in Headers(u) : p \in Slots /\ Distance(u.tail, p) < Depth(u)
  BY DEF Headers, Depth
<1>3. /\ \A p \in Slots : Distance(u.tail, p) \in Int
      /\ \A p \in Slots : Distance(u.tail, p) = 0 => p = u.tail
      /\ Distance(u.tail, u.tail) = 0 /\ Depth(u) \in Int
  <2>1. /\ \A p \in Slots : Distance(u.tail, p) \in 0 .. Ring - 1
        /\ Distance(u.tail, u.tail) = 0
        /\ \A p, q \in Slots : Distance(u.tail, p) = Distance(u.tail, q) => p = q
    BY <1>1, Offsets
  <2> QED BY <1>1, <2>1, UdpAssumption DEF Depth
<1>4. \A k : k \in Marks(u) <=> k = Depth(u) \/ \E q \in Headers(u) : k = Distance(u.tail, q)
  BY DEF Marks, Depth
<1>5. 0 \in Marks(u) <=> Depth(u) = 0 \/ u.tail \in Headers(u)
  BY <1>2, <1>3, <1>4
<1>6. ASSUME NEW p \in Headers(u), NEW next \in Int
      PROVE  /\ next \in Marks(u) <=> next = Depth(u) \/ \E q \in Headers(u) : next = Distance(u.tail, q)
             /\ (\A k \in Marks(u) : k <= Distance(u.tail, p) \/ next <= k) <=>
                  /\ next <= Depth(u)
                  /\ \A q \in Headers(u) : Distance(u.tail, q) <= Distance(u.tail, p) \/ next <= Distance(u.tail, q)
  BY <1>2, <1>3, <1>4
<1>7. \A p \in Headers(u) : Distance(u.tail, p) + Header + u.ring[p].len \in Int
  BY <1>2, <1>3, UdpAssumption DEF RingShape, Datagram
<1> QED BY <1>5, <1>6, <1>7 DEF Tiled

(* A datagram that is stored becomes the last record.                       *)
LEMMA StoreRight ==
  ASSUME NEW u, RingRight(u), NEW n \in Lengths, Room(u, n)
  PROVE  LET s == Store(u, [len |-> n, what |-> "sent"])
         IN  /\ RingRight(s) /\ s.tail = u.tail
             /\ Depth(s) = Depth(u) + Header + n /\ Depth(s) <= Ring
             /\ s.count = u.count + Header + n
             /\ u.head \notin Headers(u) /\ Headers(s) = Headers(u) \cup {u.head}
             /\ \A p \in Headers(u) : s.ring[p] = u.ring[p]
             /\ s.ring[u.head] = [len |-> n, what |-> "sent"]
             /\ \A p \in Headers(u) : Distance(u.tail, p) < Distance(u.tail, u.head)
<1> DEFINE d == [len |-> n, what |-> "sent"]
           s == Store(u, d)
           size == Header + n
           D(p) == Distance(u.tail, p)
<1>1. /\ u \in RingShape /\ u.tail \in Slots /\ u.head \in Slots /\ u.count \in Int
      /\ u.ring \in [Slots -> Datagram] /\ Tiled(u) /\ Depth(u) <= u.count
  BY DEF RingRight, RingShape
<1>2. n \in Nat /\ size \in Nat /\ d \in Datagram /\ d # Garbage /\ size > 0
  BY UdpAssumption DEF Datagram, Garbage
<1>3. /\ \A p \in Slots : D(p) \in 0 .. Ring - 1
      /\ \A p, q \in Slots : D(p) = D(q) => p = q
  BY <1>1, Offsets
<1>4. Depth(u) + size < Ring /\ Depth(u) = D(u.head) /\ size \in 0 .. Ring - 1
  BY <1>1, <1>2, <1>3, UdpAssumption DEF Room, Depth
<1>5. /\ Walk(u.head, size) \in Slots /\ D(Walk(u.head, size)) = Depth(u) + size
  BY <1>1, <1>4, HeadWalks DEF Depth
<1>6. /\ s.tail = u.tail /\ s.head = Walk(u.head, size) /\ s.count = u.count + size
      /\ \A p \in Slots : s.ring[p] = IF p = u.head THEN d
                                      ELSE IF \E j \in 0 .. size - 1 : p = Walk(u.head, j) THEN Garbage
                                      ELSE u.ring[p]
      /\ s = [ring |-> s.ring, head |-> s.head, tail |-> s.tail, count |-> s.count]
      /\ s.ring = [p \in Slots |-> s.ring[p]]
  <2> DEFINE cells == Record(d, u.head, size)
  <2>1. /\ DOMAIN cells = {Walk(u.head, j) : j \in 0 .. size - 1}
        /\ \A q \in DOMAIN cells : cells[q] = IF q = u.head THEN d ELSE Garbage
    BY DEF Record
  <2>2. u.head \in DOMAIN cells
    <3>1. 0 \in 0 .. Ring /\ 0 \in 0 .. size - 1
      BY <1>2, UdpAssumption
    <3>2. Walk(u.head, 0) = u.head
      BY <1>1, <3>1, Walks, UdpAssumption DEF Slots
    <3> QED BY <2>1, <3>1, <3>2
  <2> HIDE DEF cells
  <2>3. s = [ring |-> [p \in Slots |-> IF p \in DOMAIN cells THEN cells[p] ELSE u.ring[p]],
             head |-> Walk(u.head, size), tail |-> u.tail, count |-> u.count + size]
    BY DEF Store, cells
  <2> HIDE DEF s, d
  <2> QED BY <2>1, <2>2, <2>3
<1> HIDE DEF s, d
<1>7. ASSUME NEW p \in Slots, D(p) < Depth(u), NEW j \in 0 .. size - 1
      PROVE  p # Walk(u.head, j)
  <2>1. j \in 0 .. Ring - 1 /\ Distance(u.tail, u.head) + j < Ring
    BY <1>1, <1>2, <1>3, <1>4, UdpAssumption DEF Depth
  <2>2. D(Walk(u.head, j)) = Depth(u) + j
    BY <1>1, <2>1, HeadWalks DEF Depth
  <2>3. D(p) \in Int /\ Depth(u) \in Int
    BY <1>3, <1>4, <1>1, UdpAssumption
  <2> QED BY <1>7, <2>2, <2>3
<1>8. ASSUME NEW p \in Slots, D(p) > Depth(u), D(p) < Depth(u) + size
      PROVE  \E j \in 0 .. size - 1 : p = Walk(u.head, j)
  <2> DEFINE j == D(p) - Depth(u)
  <2>1. j \in 0 .. size - 1 /\ j \in 0 .. Ring - 1 /\ Distance(u.tail, u.head) + j = D(p)
        /\ D(p) < Ring
    BY <1>1, <1>2, <1>3, <1>4, <1>8, UdpAssumption
  <2> HIDE DEF j
  <2>2. Walk(u.head, j) \in Slots /\ D(Walk(u.head, j)) = D(p)
    BY <1>1, <2>1, HeadWalks
  <2> QED BY <1>3, <2>1, <2>2
<1>9. \A p \in Headers(u) : p \in Slots /\ D(p) < Depth(u) /\ u.ring[p] # Garbage
  BY DEF Headers, Depth
<1>10. u.head \notin Headers(u)
  BY <1>1, <1>3, <1>4, <1>9
<1>11. /\ \A p \in Headers(u) : s.ring[p] = u.ring[p]
       /\ s.ring[u.head] = d
  <2>1. \A p \in Headers(u) : p # u.head
    BY <1>10
  <2> QED BY <1>1, <1>6, <1>7, <1>9, <2>1
<1>12. Depth(s) = Depth(u) + size /\ Depth(s) = D(s.head)
  BY <1>5, <1>6 DEF Depth
<1>13. Headers(s) = Headers(u) \cup {u.head}
  <2>1. \A p : p \in Headers(s) <=> p \in Slots /\ s.ring[p] # Garbage /\ D(p) < Depth(u) + size
    BY <1>6, <1>12 DEF Headers, Depth
  <2>2. ASSUME NEW p \in Headers(s) PROVE p \in Headers(u) \cup {u.head}
    <3>1. p \in Slots /\ s.ring[p] # Garbage /\ D(p) < Depth(u) + size
      BY <2>1, <2>2
    <3>2. CASE p = u.head
      BY <3>2
    <3>3. CASE p # u.head
      <4>1. ~(\E j \in 0 .. size - 1 : p = Walk(u.head, j)) /\ s.ring[p] = u.ring[p]
        BY <1>6, <3>1, <3>3
      <4>2. ~(D(p) > Depth(u))
        BY <1>8, <3>1, <4>1
      <4>3. D(p) # Depth(u)
        BY <1>1, <1>3, <1>4, <3>1, <3>3
      <4>4. D(p) < Depth(u)
        BY <1>1, <1>3, <1>4, <3>1, <4>2, <4>3, UdpAssumption
      <4> QED BY <3>1, <4>1, <4>4 DEF Headers, Depth
    <3> QED BY <3>2, <3>3
  <2>3. ASSUME NEW p \in Headers(u) PROVE p \in Headers(s)
    <3>1. D(p) < Depth(u) + size
      BY <1>1, <1>2, <1>3, <1>4, <1>9, UdpAssumption
    <3> QED BY <1>9, <1>11, <2>1, <3>1
  <2>4. u.head \in Headers(s)
    <3>1. D(u.head) < Depth(u) + size
      BY <1>1, <1>2, <1>3, <1>4, UdpAssumption
    <3> QED BY <1>1, <1>2, <1>11, <2>1, <3>1
  <2> QED BY <2>2, <2>3, <2>4
<1>14. s \in RingShape
  <2>1. \A p \in Slots : s.ring[p] \in Datagram
    BY <1>1, <1>2, <1>6 DEF Garbage, Datagram
  <2> QED BY <1>1, <1>2, <1>5, <1>6, <2>1 DEF RingShape
<1>15. Depth(s) <= s.count
  BY <1>1, <1>2, <1>3, <1>4, <1>6, <1>12, UdpAssumption
<1>16. Tiled(s)
  <2>1. /\ Depth(u) = 0 \/ u.tail \in Headers(u)
        /\ \A p \in Headers(u) :
             /\ \/ D(p) + Header + u.ring[p].len = Depth(u)
                \/ \E q \in Headers(u) : D(p) + Header + u.ring[p].len = D(q)
             /\ D(p) + Header + u.ring[p].len <= Depth(u)
             /\ \A q \in Headers(u) : D(q) <= D(p) \/ D(p) + Header + u.ring[p].len <= D(q)
    BY <1>1, Tiles
  <2>2. s.tail \in Headers(s)
    <3>1. CASE Depth(u) = 0
      <4>1. D(u.tail) = 0
        BY <1>1, Offsets
      <4>2. u.tail = u.head
        BY <1>1, <1>3, <1>4, <3>1, <4>1
      <4> QED BY <1>6, <1>13, <4>2
    <3> QED BY <1>6, <1>13, <2>1, <3>1
  <2>3. D(u.head) + Header + s.ring[u.head].len = Depth(s)
    <3>1. s.ring[u.head].len = n
      BY <1>11 DEF d
    <3> QED BY <1>1, <1>2, <1>3, <1>4, <1>12, <3>1, UdpAssumption
  <2>4. \A p \in Headers(u) :
           /\ D(p) \in Int /\ u.ring[p].len \in Int /\ s.ring[p].len = u.ring[p].len
           /\ D(p) < D(u.head) /\ D(u.head) < Depth(s)
    <3>1. \A p \in Headers(u) : u.ring[p].len \in Int
      BY <1>1, <1>9 DEF Datagram
    <3> QED BY <1>1, <1>2, <1>3, <1>4, <1>9, <1>11, <1>12, <3>1, UdpAssumption
  <2>5. \A p \in Headers(s) :
           /\ \/ D(p) + Header + s.ring[p].len = Depth(s)
              \/ \E q \in Headers(s) : D(p) + Header + s.ring[p].len = D(q)
           /\ D(p) + Header + s.ring[p].len <= Depth(s)
           /\ \A q \in Headers(s) : D(q) <= D(p) \/ D(p) + Header + s.ring[p].len <= D(q)
    <3>1. ASSUME NEW p \in Headers(u)
          PROVE  /\ \E q \in Headers(s) : D(p) + Header + s.ring[p].len = D(q)
                 /\ D(p) + Header + s.ring[p].len <= D(u.head)
                 /\ D(p) + Header + s.ring[p].len <= Depth(s)
                 /\ \A q \in Headers(s) : D(q) <= D(p) \/ D(p) + Header + s.ring[p].len <= D(q)
      <4>1. D(p) + Header + s.ring[p].len <= D(u.head)
        BY <1>4, <2>1, <2>4
      <4>2. \E q \in Headers(s) : D(p) + Header + s.ring[p].len = D(q)
        BY <1>4, <1>13, <2>1, <2>4
      <4>3. D(p) + Header + s.ring[p].len \in Int /\ D(u.head) \in Int /\ Depth(s) \in Int
        BY <1>1, <1>2, <1>3, <1>4, <1>12, <2>4, UdpAssumption
      <4>4. D(p) + Header + s.ring[p].len <= Depth(s)
        BY <2>4, <4>1, <4>3
      <4>5. \A q \in Headers(s) : D(q) <= D(p) \/ D(p) + Header + s.ring[p].len <= D(q)
        BY <1>13, <2>1, <2>4, <4>1
      <4> QED BY <4>1, <4>2, <4>4, <4>5
    <3>2. \A q \in Headers(s) : D(q) <= D(u.head)
      BY <1>1, <1>3, <1>13, <2>4, UdpAssumption
    <3>3. Depth(s) <= Depth(s)
      BY <1>1, <1>2, <1>3, <1>4, <1>12, UdpAssumption
    <3> QED BY <1>13, <2>3, <3>1, <3>2, <3>3
  <2>6. s.tail = u.tail
    BY <1>6
  <2> QED BY <1>14, <2>2, <2>5, <2>6, Tiles
<1>17. /\ Depth(s) <= Ring /\ Depth(s) = Depth(u) + Header + n
       /\ s.count = u.count + Header + n
  BY <1>1, <1>2, <1>3, <1>4, <1>6, <1>12, UdpAssumption
<1> QED BY <1>4, <1>6, <1>9, <1>10, <1>11, <1>13, <1>14, <1>15, <1>16, <1>17 DEF RingRight, s, d

(* Where something waits the tail stands at its header, and a read takes    *)
(* exactly this record off the ring.                                        *)
LEMMA ReadRight ==
  ASSUME NEW u, RingRight(u), Headers(u) # {}
  PROVE  LET r == RecvFrom(u, First(u).len)
             k == Header + u.ring[u.tail].len
         IN  /\ u.tail \in Headers(u) /\ u.ring[u.tail] \in Datagram
             /\ k <= Depth(u) /\ Depth(u) < Ring /\ u.count > 0
             /\ RingRight(r) /\ r.ring = u.ring /\ Depth(r) = Depth(u) - k
             /\ r.count = u.count - (k - 1)
             /\ Headers(r) = Headers(u) \ {u.tail}
             /\ \A p \in Headers(r) : Distance(r.tail, p) = Distance(u.tail, p) - k
<1> DEFINE r == RecvFrom(u, First(u).len)
           k == Header + u.ring[u.tail].len
           D(p) == Distance(u.tail, p)
           E(p) == Distance(r.tail, p)
<1>1. /\ u \in RingShape /\ u.tail \in Slots /\ u.head \in Slots /\ u.count \in Int
      /\ u.ring \in [Slots -> Datagram] /\ Tiled(u) /\ Depth(u) <= u.count
  BY DEF RingRight, RingShape
<1>2. /\ \A p \in Slots : D(p) \in 0 .. Ring - 1
      /\ \A p, q \in Slots : D(p) = D(q) => p = q
      /\ D(u.tail) = 0
  BY <1>1, Offsets
<1>3. /\ Depth(u) = D(u.head) /\ Depth(u) \in 0 .. Ring - 1
  BY <1>1, <1>2 DEF Depth
<1>4. /\ Depth(u) = 0 \/ u.tail \in Headers(u)
      /\ \A p \in Headers(u) :
           /\ \/ D(p) + Header + u.ring[p].len = Depth(u)
              \/ \E q \in Headers(u) : D(p) + Header + u.ring[p].len = D(q)
           /\ D(p) + Header + u.ring[p].len <= Depth(u)
           /\ \A q \in Headers(u) : D(q) <= D(p) \/ D(p) + Header + u.ring[p].len <= D(q)
  BY <1>1, Tiles
<1>5. \A p \in Headers(u) : p \in Slots /\ D(p) < Depth(u) /\ u.ring[p] # Garbage
  BY DEF Headers, Depth
<1>6. u.tail \in Headers(u)
  <2>1. PICK p \in Headers(u) : TRUE
    OBVIOUS
  <2>2. D(p) < Depth(u) /\ D(p) \in 0 .. Ring - 1
    BY <1>2, <1>5, <2>1
  <2> QED BY <1>3, <1>4, <2>2, UdpAssumption
<1>7. /\ u.ring[u.tail] \in Datagram /\ k \in Nat /\ k > 0 /\ k <= Depth(u) /\ k \in 0 .. Ring - 1
  <2>1. u.ring[u.tail].len \in Nat
    BY <1>1 DEF Datagram
  <2>2. D(u.tail) + Header + u.ring[u.tail].len <= Depth(u)
    BY <1>4, <1>6
  <2> QED BY <1>1, <1>2, <1>3, <2>1, <2>2, UdpAssumption
<1>8. /\ r.tail = Walk(u.tail, k) /\ r.head = u.head /\ r.ring = u.ring
      /\ r.count = u.count - (k - 1)
  <2>1. u.ring[u.tail].len \in Nat
    BY <1>1 DEF Datagram
  <2> QED BY <1>1, <2>1, UdpAssumption DEF RecvFrom, First, RingShape
<1>9. r \in RingShape
  <2>1. Walk(u.tail, k) \in Slots
    <3> HIDE DEF k
    <3> QED BY <1>1, <1>7, Offsets
  <2>2. r = [u EXCEPT !.tail = Walk(u.tail, Header + u.ring[u.tail].len),
                      !.count = u.count - (u.ring[u.tail].len + Header - 1)]
    BY <1>1 DEF RecvFrom, First, RingShape
  <2>3. u.count - (u.ring[u.tail].len + Header - 1) \in Int
    <3>1. u.ring[u.tail].len \in Nat
      BY <1>1 DEF Datagram
    <3> QED BY <1>1, <3>1, UdpAssumption
  <2> HIDE DEF r
  <2> QED BY <1>1, <2>1, <2>2, <2>3 DEF RingShape
<1> HIDE DEF r, k
<1>10. \A p \in Slots : E(p) = IF k <= D(p) THEN D(p) - k ELSE D(p) - k + Ring
  BY <1>1, <1>7, <1>8, TailWalks
<1>11. Depth(r) = Depth(u) - k /\ Depth(r) = E(u.head) /\ Depth(r) \in Int
  BY <1>1, <1>3, <1>7, <1>8, <1>10 DEF Depth
<1>12. Headers(r) = Headers(u) \ {u.tail}
  <2>1. \A p : p \in Headers(r) <=> p \in Slots /\ u.ring[p] # Garbage /\ E(p) < Depth(u) - k
    BY <1>8, <1>11 DEF Headers, Depth
  <2>2. ASSUME NEW p \in Headers(r) PROVE p \in Headers(u) \ {u.tail}
    <3>1. p \in Slots /\ u.ring[p] # Garbage /\ E(p) < Depth(u) - k
      BY <2>1, <2>2
    <3>2. k <= D(p) /\ D(p) < Depth(u)
      BY <1>2, <1>3, <1>7, <1>10, <3>1, UdpAssumption
    <3>3. p # u.tail
      BY <1>2, <1>7, <3>2
    <3> QED BY <3>1, <3>2, <3>3 DEF Headers, Depth
  <2>3. ASSUME NEW p \in Headers(u), p # u.tail PROVE p \in Headers(r)
    <3>1. p \in Slots /\ D(p) < Depth(u) /\ u.ring[p] # Garbage /\ D(p) \in 0 .. Ring - 1
      BY <1>2, <1>5
    <3>2. D(p) # 0
      BY <1>1, <1>2, <2>3, <3>1
    <3>3. D(p) <= D(u.tail) \/ D(u.tail) + Header + u.ring[u.tail].len <= D(p)
      BY <1>4, <1>6
    <3>4. k <= D(p)
      BY <1>2, <1>7, <3>1, <3>2, <3>3, UdpAssumption DEF k, Datagram
    <3>5. E(p) < Depth(u) - k
      BY <1>3, <1>7, <1>10, <3>1, <3>4
    <3> QED BY <2>1, <3>1, <3>5
  <2> QED BY <2>2, <2>3
<1>13. \A p \in Headers(r) : p \in Slots /\ E(p) = D(p) - k /\ D(p) \in 0 .. Ring - 1 /\ k <= D(p)
  <2> SUFFICES ASSUME NEW p \in Headers(r)
               PROVE  p \in Slots /\ E(p) = D(p) - k /\ D(p) \in 0 .. Ring - 1 /\ k <= D(p)
    OBVIOUS
  <2>1. p \in Slots /\ E(p) < Depth(r)
    BY DEF Headers, Depth
  <2>2. D(p) \in 0 .. Ring - 1
    BY <1>2, <2>1
  <2> QED BY <1>3, <1>7, <1>10, <1>11, <2>1, <2>2, UdpAssumption
<1>14. Depth(r) <= r.count
  BY <1>1, <1>3, <1>7, <1>8, <1>11
<1>15. Tiled(r)
  <2>1. Depth(r) = 0 \/ r.tail \in Headers(r)
    <3>1. CASE k = Depth(u)
      BY <1>3, <1>11, <3>1
    <3>2. CASE k # Depth(u)
      <4>1. D(u.tail) + Header + u.ring[u.tail].len = k
        BY <1>1, <1>2, UdpAssumption DEF k, Datagram
      <4>2. PICK q \in Headers(u) : k = D(q)
        BY <1>4, <1>6, <3>2, <4>1
      <4>3. q \in Slots /\ q # u.tail
        BY <1>2, <1>5, <1>7, <4>2
      <4>4. Walk(u.tail, k) \in Slots /\ D(Walk(u.tail, k)) = k
        BY <1>1, <1>7, Offsets
      <4>5. q = r.tail
        BY <1>2, <1>8, <4>2, <4>3, <4>4
      <4> QED BY <1>12, <4>3, <4>5
    <3> QED BY <3>1, <3>2
  <2>2. ASSUME NEW p \in Headers(r)
        PROVE  /\ \/ E(p) + Header + r.ring[p].len = Depth(r)
                  \/ \E q \in Headers(r) : E(p) + Header + r.ring[p].len = E(q)
               /\ E(p) + Header + r.ring[p].len <= Depth(r)
               /\ \A q \in Headers(r) : E(q) <= E(p) \/ E(p) + Header + r.ring[p].len <= E(q)
    <3>1. /\ p \in Headers(u) /\ r.ring[p] = u.ring[p] /\ p \in Slots
          /\ E(p) = D(p) - k /\ D(p) \in 0 .. Ring - 1
      BY <1>8, <1>12, <1>13
    <3>2. u.ring[p].len \in Nat
      BY <1>1, <3>1 DEF Datagram
    <3> DEFINE e == D(p) + Header + u.ring[p].len
    <3>3. e \in Int /\ E(p) + Header + r.ring[p].len = e - k /\ e > 0 /\ e > D(p)
      BY <1>7, <3>1, <3>2, UdpAssumption
    <3>4. /\ e = Depth(u) \/ \E q \in Headers(u) : e = D(q)
          /\ e <= Depth(u)
          /\ \A q \in Headers(u) : D(q) <= D(p) \/ e <= D(q)
      BY <1>4, <3>1
    <3> HIDE DEF e
    <3>5. e - k <= Depth(r)
      BY <1>3, <1>7, <1>11, <3>3, <3>4
    <3>6. \A q \in Headers(r) : E(q) <= E(p) \/ e - k <= E(q)
      BY <1>7, <1>12, <1>13, <3>1, <3>3, <3>4
    <3>7. e - k = Depth(r) \/ \E q \in Headers(r) : e - k = E(q)
      <4>1. CASE e = Depth(u)
        BY <1>11, <4>1
      <4>2. CASE e # Depth(u)
        <5>1. PICK q \in Headers(u) : e = D(q)
          BY <3>4, <4>2
        <5>2. q # u.tail
          BY <1>2, <3>3, <5>1
        <5> QED BY <1>12, <1>13, <5>1, <5>2
      <4> QED BY <4>1, <4>2
    <3> QED BY <3>3, <3>5, <3>6, <3>7
  <2> QED BY <1>9, <2>1, <2>2, Tiles
<1>16. Depth(u) < Ring /\ u.count > 0
  BY <1>1, <1>3, <1>7, UdpAssumption
<1> QED BY <1>6, <1>7, <1>8, <1>9, <1>11, <1>12, <1>13, <1>14, <1>15, <1>16 DEF RingRight, r, k

-----------------------------------------------------------------------------
(* The waiting datagrams as a sequence: the ranks of the headers run from 0 *)
(* without a gap, so every place of the sequence belongs to one header.     *)

LEMMA RingRanks ==
  ASSUME NEW u \in RingShape
  PROVE  /\ Cardinality(Headers(u)) \in Nat
         /\ Cardinality(Headers(u)) = 0 <=> Headers(u) = {}
         /\ IsFiniteSet(Headers(u))
         /\ \A p \in Headers(u) : Rank(u, p) \in 0 .. Cardinality(Headers(u)) - 1
         /\ \A p, q \in Headers(u) : Rank(u, p) = Rank(u, q) => p = q
         /\ \A i \in 0 .. Cardinality(Headers(u)) - 1 : \E p \in Headers(u) : Rank(u, p) = i
<1> DEFINE H == Headers(u)
           n == Cardinality(H)
           D(p) == Distance(u.tail, p)
           B(p) == {q \in H : D(q) < D(p)}
           rank == [p \in H |-> Rank(u, p)]
<1>1. H \in SUBSET Slots
  BY DEF Headers
<1>2. IsFiniteSet(Slots)
  <2>1. 0 \in Int /\ Ring - 1 \in Int
    BY UdpAssumption
  <2> QED BY <2>1, FS_Interval DEF Slots
<1>3. /\ \A p \in H : D(p) \in Int
      /\ \A p, q \in H : D(p) = D(q) => p = q
  <2>1. u.tail \in Slots
    BY DEF RingShape
  <2>2. /\ \A p \in Slots : D(p) \in 0 .. Ring - 1
        /\ \A p, q \in Slots : D(p) = D(q) => p = q
    BY <2>1, Offsets
  <2> QED BY <1>1, <2>2, UdpAssumption
<1>4. \A p \in H : Rank(u, p) = Cardinality(B(p))
  BY DEF Rank
<1> HIDE DEF H
<1>5. IsFiniteSet(H) /\ n \in Nat /\ (n = 0 <=> H = {})
  BY <1>1, <1>2, FS_Subset, FS_CardinalityType, FS_EmptySet
<1>6. ASSUME NEW p \in H PROVE IsFiniteSet(B(p)) /\ Cardinality(B(p)) \in 0 .. n - 1
  <2>1. B(p) \in SUBSET H /\ p \notin B(p)
    BY <1>3
  <2>2. IsFiniteSet(B(p)) /\ Cardinality(B(p)) <= n /\ (Cardinality(B(p)) = n => B(p) = H)
    BY <2>1, <1>5, FS_Subset
  <2>3. Cardinality(B(p)) \in Nat
    BY <2>2, FS_CardinalityType
  <2> QED BY <1>5, <2>1, <2>2, <2>3
<1>7. ASSUME NEW p \in H, NEW q \in H, D(p) < D(q) PROVE Cardinality(B(p)) # Cardinality(B(q))
  <2>1. \A x \in H : D(x) < D(p) => D(x) < D(q)
    BY <1>3, <1>7
  <2>2. B(p) \in SUBSET B(q) /\ p \in B(q) /\ p \notin B(p)
    BY <1>3, <1>7, <2>1
  <2> QED BY <1>6, <2>2, FS_Subset
<1>8. ASSUME NEW p \in H, NEW q \in H, Rank(u, p) = Rank(u, q) PROVE p = q
  <2>1. ~(D(p) < D(q)) /\ ~(D(q) < D(p))
    BY <1>4, <1>7, <1>8
  <2> QED BY <1>3, <2>1
<1>9. rank \in Injection(H, 0 .. n - 1)
  <2>1. rank \in [H -> 0 .. n - 1]
    BY <1>4, <1>6
  <2>2. \A p, q \in H : rank[p] = rank[q] => p = q
    BY <1>8
  <2> QED BY <2>1, <2>2 DEF Injection, IsInjective
<1>10. IsFiniteSet(0 .. n - 1) /\ Cardinality(0 .. n - 1) = n
  <2>1. n - 1 \in Int /\ 0 \in Int /\ (0 > n - 1 => n = 0) /\ (n - 1) - 0 + 1 = n
    BY <1>5
  <2> HIDE DEF n
  <2> QED BY <2>1, FS_Interval
<1>11. \A i \in 0 .. n - 1 : \E p \in H : rank[p] = i
  <2>1. rank \in Surjection(H, 0 .. n - 1)
    BY <1>5, <1>9, <1>10, FS_Injection
  <2> QED BY <2>1 DEF Surjection
<1>12. \A p \in H : Rank(u, p) \in 0 .. n - 1
  BY <1>4, <1>6
<1>13. \A i \in 0 .. n - 1 : \E p \in H : Rank(u, p) = i
  BY <1>11
<1>14. \A p, q \in H : Rank(u, p) = Rank(u, q) => p = q
  BY <1>8
<1>15. H = Headers(u)
  BY DEF H
<1> QED BY <1>5, <1>12, <1>13, <1>14, <1>15

(* The lengths of what waits, and what stands where.                        *)
WaitingLens(u) == Lens(Waiting(u))

LEMMA WaitingAt ==
  ASSUME NEW u \in RingShape
  PROVE  /\ WaitingLens(u) \in Seq(Nat) /\ Len(WaitingLens(u)) = Cardinality(Headers(u))
         /\ \A p \in Headers(u) : WaitingLens(u)[Rank(u, p) + 1] = u.ring[p].len
<1> DEFINE n == Cardinality(Headers(u))
           at0(i) == CHOOSE p \in Headers(u) : Rank(u, p) = i - 1
           w == [i \in 1 .. n |-> u.ring[at0(i)].len]
<1>1. WaitingLens(u) = w
  BY DEF WaitingLens, Lens, Waiting
<1>2. /\ n \in Nat
      /\ \A p \in Headers(u) : Rank(u, p) \in 0 .. n - 1
      /\ \A p, q \in Headers(u) : Rank(u, p) = Rank(u, q) => p = q
      /\ \A i \in 0 .. n - 1 : \E p \in Headers(u) : Rank(u, p) = i
  BY RingRanks
<1>3. \A p \in Headers(u) : u.ring[p].len \in Nat
  BY DEF Headers, RingShape, Datagram
<1>4. ASSUME NEW i \in 1 .. n PROVE at0(i) \in Headers(u) /\ Rank(u, at0(i)) = i - 1
  <2>1. i - 1 \in 0 .. n - 1
    BY <1>2
  <2>2. \E p \in Headers(u) : Rank(u, p) = i - 1
    BY <1>2, <2>1
  <2> QED BY <2>2
<1>5. ASSUME NEW p \in Headers(u) PROVE at0(Rank(u, p) + 1) = p /\ Rank(u, p) + 1 \in 1 .. n
  <2> DEFINE i == Rank(u, p) + 1
  <2>1. i \in 1 .. n /\ i - 1 = Rank(u, p)
    BY <1>2
  <2>2. at0(i) \in Headers(u) /\ Rank(u, at0(i)) = i - 1
    <3> HIDE DEF i, at0
    <3> QED BY <1>4, <2>1
  <2> HIDE DEF at0
  <2> QED BY <1>2, <2>1, <2>2
<1>6. w \in [1 .. n -> Nat]
  <2> HIDE DEF at0
  <2> QED BY <1>3, <1>4
<1>7. w \in Seq(Nat) /\ Len(w) = n
  <2> HIDE DEF w, n
  <2> QED BY <1>2, <1>6
<1>8. \A p \in Headers(u) : w[Rank(u, p) + 1] = u.ring[p].len
  <2> HIDE DEF at0
  <2> QED BY <1>5
<1> QED BY <1>1, <1>7, <1>8

LEMMA SameLens ==
  ASSUME NEW v \in Seq(Nat), NEW w \in Seq(Nat), Len(v) = Len(w), \A i \in 1 .. Len(v) : v[i] = w[i]
  PROVE  v = w
  OBVIOUS

(* A stored datagram comes last.                                            *)
LEMMA StoredLast ==
  ASSUME NEW u, RingRight(u), NEW n \in Lengths, Room(u, n)
  PROVE  WaitingLens(Store(u, [len |-> n, what |-> "sent"])) = Append(WaitingLens(u), n)
<1> DEFINE s == Store(u, [len |-> n, what |-> "sent"])
           H == Headers(u)
           c == Cardinality(H)
           v == WaitingLens(u)
           w == WaitingLens(s)
<1>1. /\ RingRight(s) /\ s.tail = u.tail
      /\ u.head \notin H /\ Headers(s) = H \cup {u.head}
      /\ \A p \in H : s.ring[p] = u.ring[p]
      /\ s.ring[u.head] = [len |-> n, what |-> "sent"]
      /\ \A p \in H : Distance(u.tail, p) < Distance(u.tail, u.head)
  BY StoreRight
<1>2. u \in RingShape /\ s \in RingShape /\ n \in Nat
  BY <1>1, UdpAssumption DEF RingRight
<1> HIDE DEF s
<1>3. /\ c \in Nat /\ IsFiniteSet(H)
      /\ \A p \in H : Rank(u, p) \in 0 .. c - 1
      /\ \A i \in 0 .. c - 1 : \E p \in H : Rank(u, p) = i
  BY <1>2, RingRanks
<1>4. Cardinality(Headers(s)) = c + 1
  <2>1. Headers(s) = H \cup {u.head} /\ u.head \notin H /\ IsFiniteSet(H)
    BY <1>1, <1>3
  <2> HIDE DEF H
  <2>2. Cardinality(H \cup {u.head}) = Cardinality(H) + 1
    BY <2>1, FS_AddElement
  <2> QED BY <2>1, <2>2
<1>5. /\ v \in Seq(Nat) /\ Len(v) = c /\ \A p \in H : v[Rank(u, p) + 1] = u.ring[p].len
      /\ w \in Seq(Nat) /\ Len(w) = c + 1
      /\ \A p \in Headers(s) : w[Rank(s, p) + 1] = s.ring[p].len
  BY <1>2, <1>4, WaitingAt
<1>6. /\ \A p \in H : Distance(u.tail, p) \in Int
      /\ Distance(u.tail, u.head) \in Int
  <2>1. u.tail \in Slots /\ u.head \in Slots /\ \A p \in H : p \in Slots
    BY <1>2 DEF RingShape, Headers
  <2>2. \A p \in Slots : Distance(u.tail, p) \in 0 .. Ring - 1
    BY <2>1, Offsets
  <2> QED BY <2>1, <2>2
<1>7. ASSUME NEW p \in H PROVE Rank(s, p) = Rank(u, p)
  <2>1. ~(Distance(u.tail, u.head) < Distance(u.tail, p))
    BY <1>1, <1>6
  <2>2. {q \in Headers(s) : Distance(s.tail, q) < Distance(s.tail, p)}
          = {q \in H : Distance(u.tail, q) < Distance(u.tail, p)}
    BY <1>1, <2>1
  <2> QED BY <2>2 DEF Rank
<1>8. Rank(s, u.head) = c
  <2>1. ~(Distance(u.tail, u.head) < Distance(u.tail, u.head))
    BY <1>6
  <2>2. {q \in Headers(s) : Distance(s.tail, q) < Distance(s.tail, u.head)} = H
    BY <1>1, <2>1
  <2> QED BY <2>2 DEF Rank
<1> HIDE DEF H, c, v, w
<1>9. w[c + 1] = n
  BY <1>1, <1>5, <1>8
<1>10. ASSUME NEW i \in 1 .. c PROVE w[i] = v[i]
  <2>1. i - 1 \in 0 .. c - 1
    BY <1>3
  <2>2. PICK p \in H : Rank(u, p) = i - 1
    BY <1>3, <2>1
  <2>3. Rank(u, p) + 1 = i /\ Rank(s, p) + 1 = i
    BY <1>3, <1>7, <2>2
  <2>4. v[i] = u.ring[p].len
    BY <1>5, <2>3
  <2>5. w[i] = s.ring[p].len
    BY <1>1, <1>5, <2>3
  <2> QED BY <1>1, <2>4, <2>5
<1>11. w = Append(v, n)
  <2> DEFINE a == Append(v, n)
  <2>1. /\ a \in Seq(Nat) /\ Len(a) = c + 1 /\ a[c + 1] = n
        /\ \A i \in 1 .. c : a[i] = v[i]
    BY <1>2, <1>3, <1>5
  <2> HIDE DEF a
  <2>2. \A i \in 1 .. Len(w) : i \in 1 .. c \/ i = c + 1
    BY <1>3, <1>5
  <2>3. \A i \in 1 .. Len(w) : w[i] = a[i]
    BY <1>9, <1>10, <2>1, <2>2
  <2> QED BY <1>5, <2>1, <2>3, SameLens DEF a
<1> QED BY <1>11 DEF v, w, s

(* What is read stood first.                                                *)
LEMMA ReadFirst ==
  ASSUME NEW u, RingRight(u), Headers(u) # {}
  PROVE  /\ WaitingLens(u) # <<>> /\ Head(WaitingLens(u)) = u.ring[u.tail].len
         /\ WaitingLens(RecvFrom(u, First(u).len)) = Tail(WaitingLens(u))
<1> DEFINE r == RecvFrom(u, First(u).len)
           H == Headers(u)
           c == Cardinality(H)
           v == WaitingLens(u)
           w == WaitingLens(r)
           k == Header + u.ring[u.tail].len
<1>1. /\ u.tail \in H /\ RingRight(r) /\ r.ring = u.ring
      /\ Headers(r) = H \ {u.tail}
      /\ \A p \in Headers(r) : Distance(r.tail, p) = Distance(u.tail, p) - k
      /\ u.ring[u.tail] \in Datagram
  BY ReadRight
<1>2. u \in RingShape /\ r \in RingShape /\ u.tail \in Slots /\ k \in Nat
  BY <1>1, UdpAssumption DEF RingRight, RingShape, Datagram
<1> HIDE DEF r, k
<1>3. /\ c \in Nat /\ IsFiniteSet(H) /\ c # 0
      /\ \A p \in H : Rank(u, p) \in 0 .. c - 1
      /\ Cardinality(Headers(r)) \in Nat /\ IsFiniteSet(Headers(r))
      /\ \A p \in Headers(r) : Rank(r, p) \in 0 .. Cardinality(Headers(r)) - 1
      /\ \A i \in 0 .. c - 1 : \E p \in H : Rank(u, p) = i
  BY <1>2, RingRanks
<1>4. Cardinality(Headers(r)) = c - 1
  <2> HIDE DEF H
  <2> QED BY <1>1, <1>3, FS_RemoveElement
<1>5. /\ v \in Seq(Nat) /\ Len(v) = c /\ \A p \in H : v[Rank(u, p) + 1] = u.ring[p].len
      /\ w \in Seq(Nat) /\ Len(w) = c - 1
      /\ \A p \in Headers(r) : w[Rank(r, p) + 1] = r.ring[p].len
  BY <1>2, <1>4, WaitingAt
<1>6. /\ \A p \in H : Distance(u.tail, p) \in Nat /\ (Distance(u.tail, p) = 0 => p = u.tail)
      /\ Distance(u.tail, u.tail) = 0
  <2>1. \A p \in H : p \in Slots
    BY DEF Headers
  <2>2. /\ \A p \in Slots : Distance(u.tail, p) \in 0 .. Ring - 1
        /\ \A p, q \in Slots : Distance(u.tail, p) = Distance(u.tail, q) => p = q
        /\ Distance(u.tail, u.tail) = 0
    BY <1>2, Offsets
  <2> QED BY <1>2, <2>1, <2>2, UdpAssumption
<1>7. Rank(u, u.tail) = 0
  <2>1. {q \in H : Distance(u.tail, q) < Distance(u.tail, u.tail)} = {}
    BY <1>6
  <2>2. Cardinality({}) = 0
    BY FS_EmptySet
  <2> QED BY <2>1, <2>2 DEF Rank
<1>8. ASSUME NEW p \in Headers(r) PROVE Rank(u, p) = Rank(r, p) + 1
  <2> DEFINE B == {q \in Headers(r) : Distance(r.tail, q) < Distance(r.tail, p)}
             A == {q \in H : Distance(u.tail, q) < Distance(u.tail, p)}
  <2>1. p \in H /\ p # u.tail /\ Distance(u.tail, p) > 0
    BY <1>1, <1>6
  <2>2. A = B \cup {u.tail}
    <3>1. \A q \in Headers(r) : Distance(r.tail, q) < Distance(r.tail, p) <=> Distance(u.tail, q) < Distance(u.tail, p)
      <4>1. Distance(u.tail, p) \in Nat /\ Distance(r.tail, p) = Distance(u.tail, p) - k
        BY <1>1, <1>6, <2>1
      <4>2. \A q \in Headers(r) : Distance(u.tail, q) \in Nat /\ Distance(r.tail, q) = Distance(u.tail, q) - k
        BY <1>1, <1>6
      <4> QED BY <1>2, <4>1, <4>2
    <3> QED BY <1>1, <1>6, <2>1, <3>1
  <2>3. IsFiniteSet(B) /\ u.tail \notin B /\ B \in SUBSET Headers(r)
    BY <1>1, <1>3, FS_Subset
  <2>4. Cardinality(A) = Cardinality(B) + 1
    <3> HIDE DEF B
    <3> QED BY <2>2, <2>3, FS_AddElement
  <2> QED BY <2>4 DEF Rank
<1> HIDE DEF H, c, v, w
<1>9. v # <<>> /\ Head(v) = u.ring[u.tail].len
  <2>1. v[1] = u.ring[u.tail].len
    <3>1. v[Rank(u, u.tail) + 1] = u.ring[u.tail].len
      BY <1>1, <1>5
    <3> QED BY <1>7, <3>1
  <2> QED BY <1>3, <1>5, <2>1
<1>10. ASSUME NEW i \in 1 .. c - 1 PROVE w[i] = v[i + 1]
  <2>1. i \in 0 .. c - 1
    BY <1>3
  <2>2. PICK p \in H : Rank(u, p) = i
    BY <1>3, <2>1
  <2>3. p \in Headers(r)
    BY <1>1, <1>3, <1>7, <2>2
  <2>4. Rank(r, p) + 1 = i
    BY <1>8, <2>2, <2>3
  <2>5. v[i + 1] = u.ring[p].len
    BY <1>5, <2>2
  <2>6. w[i] = r.ring[p].len
    BY <1>5, <2>3, <2>4
  <2> QED BY <1>1, <2>5, <2>6
<1>11. w = Tail(v)
  <2> DEFINE a == Tail(v)
  <2>1. /\ a \in Seq(Nat) /\ Len(a) = c - 1
        /\ \A i \in 1 .. c - 1 : a[i] = v[i + 1]
    BY <1>3, <1>5, <1>9
  <2> HIDE DEF a
  <2>2. \A i \in 1 .. Len(w) : w[i] = a[i]
    BY <1>5, <1>10, <2>1
  <2> QED BY <1>5, <2>1, <2>2, SameLens DEF a
<1> QED BY <1>9, <1>11 DEF v, w, r

-----------------------------------------------------------------------------
(* The program's datagram socket, step by step.                             *)

UdpRight ==
    /\ udp \in RingShape /\ taken \in Nat \cup {-1} /\ astray \in BOOLEAN
    /\ ~astray => RingRight(udp)

(* What the refinement shows of the ring, once something was read and not.  *)
Shown == <<IF astray THEN <<>> ELSE Lens(Waiting(udp)),
           IF astray THEN 0 ELSE Distance(udp.tail, udp.head), taken,
           ~astray /\ udp.count # Distance(udp.tail, udp.head), astray>>

LEMMA MinTwo ==
  ASSUME NEW a \in Nat, NEW b \in Nat
  PROVE  Min({a, b}) = IF a <= b THEN a ELSE b
BY DEF Min

(* Nothing waits exactly if no header stands on the ring, and then the tail *)
(* has come to the head.                                                    *)
LEMMA NothingWaits ==
  ASSUME NEW u, RingRight(u)
  PROVE  /\ Headers(u) = {} <=> Waiting(u) = <<>>
         /\ Headers(u) = {} => WaitingLens(u) = <<>> /\ Depth(u) = 0
<1>1. u \in RingShape /\ Tiled(u)
  BY DEF RingRight
<1>2. Lens(<<>>) = <<>>
  BY DEF Lens
<1>3. ASSUME Headers(u) = {} PROVE Waiting(u) = <<>>
  <2>1. Cardinality(Headers(u)) = 0
    BY <1>1, <1>3, RingRanks
  <2>2. 1 .. Cardinality(Headers(u)) = {}
    BY <2>1
  <2> QED BY <2>2 DEF Waiting
<1>4. ASSUME Headers(u) # {} PROVE Waiting(u) # <<>>
  BY <1>2, <1>4, ReadFirst DEF WaitingLens
<1>5. ASSUME Headers(u) = {} PROVE Depth(u) = 0
  BY <1>1, <1>5, Tiles
<1> QED BY <1>2, <1>3, <1>4, <1>5 DEF WaitingLens

LEMMA DepthInt ==
  ASSUME NEW u \in RingShape
  PROVE  Depth(u) \in 0 .. Ring - 1
<1>1. u.tail \in Slots /\ u.head \in Slots
  BY DEF RingShape
<1> QED BY <1>1, Offsets DEF Depth

(* A datagram that comes in is stored whole or dropped.                     *)
LEMMA ArriveStep ==
  ASSUME UdpRight, NEW n \in Lengths, Arrive(n)
  PROVE  /\ UdpRight'
         /\ \/ UNCHANGED udpVars
            \/ /\ ~astray /\ n \in 0 .. Ring
               /\ WaitingLens(udp') = Append(WaitingLens(udp), n)
               /\ Depth(udp') = Depth(udp) + Header + n /\ Depth(udp') <= Ring
               /\ udp'.count = udp.count + Header + n /\ udp.count \in Int
               /\ Depth(udp) \in Int /\ Header + n \in Int
               /\ UNCHANGED <<taken, astray>>
<1>1. /\ udp' = Store(udp, [len |-> n, what |-> "sent"]) /\ taken' = taken
      /\ ~astray /\ astray' = astray
  BY DEF Arrive
<1>2. CASE ~Room(udp, n)
  BY <1>1, <1>2 DEF Store, UdpRight, udpVars
<1>3. CASE Room(udp, n)
  <2>1. RingRight(udp) /\ n \in Nat /\ udp \in RingShape
    BY <1>1, UdpAssumption DEF UdpRight
  <2>2. /\ RingRight(udp') /\ Depth(udp') = Depth(udp) + Header + n /\ Depth(udp') <= Ring
        /\ udp'.count = udp.count + Header + n
    BY <1>1, <1>3, <2>1, StoreRight
  <2>3. WaitingLens(udp') = Append(WaitingLens(udp), n)
    BY <1>1, <1>3, <2>1, StoredLast
  <2>4. Depth(udp) \in Nat /\ udp.count \in Int /\ Header + n \in Int
    BY <2>1, DepthInt, UdpAssumption DEF RingShape
  <2>5. n \in 0 .. Ring
    BY <2>1, <2>2, <2>4, UdpAssumption
  <2>6. UdpRight'
    BY <1>1, <2>2 DEF UdpRight, RingRight
  <2> QED BY <1>1, <2>2, <2>3, <2>4, <2>5, <2>6
<1> QED BY <1>2, <1>3

(* A read finds nothing at a fresh socket, or takes the first datagram, all *)
(* of it or what its buffer holds, or goes past the last one.               *)
LEMMA ReadStep ==
  ASSUME UdpRight, NEW len \in Lengths, Read(len)
  PROVE  /\ UdpRight' /\ ~astray
         /\ \/ /\ WaitingLens(udp) = <<>> /\ udp.count = Depth(udp)
               /\ taken' = -1 /\ UNCHANGED <<udp, astray>>
            \/ /\ WaitingLens(udp) # <<>> /\ WaitingLens(udp') = Tail(WaitingLens(udp))
               /\ Depth(udp') = Depth(udp) - Header - Head(WaitingLens(udp))
               /\ Head(WaitingLens(udp)) \in 0 .. Ring
               /\ taken' = Min({len, Head(WaitingLens(udp))})
               /\ udp'.count # Depth(udp') /\ ~astray'
            \/ /\ WaitingLens(udp) = <<>> /\ udp.count # Depth(udp)
               /\ taken' \in Nat /\ astray'
<1>1. /\ ~astray /\ RingRight(udp) /\ udp \in RingShape /\ len \in Nat
      /\ udp.count \in Int /\ Depth(udp) \in Nat /\ Depth(udp) <= udp.count
  BY UdpAssumption, DepthInt DEF Read, UdpRight, RingRight, RingShape
<1>2. CASE udp.count = 0
  <2>1. taken' = -1 /\ udp' = udp /\ astray' = astray
    BY <1>2 DEF Read, SockDepth
  <2>2. Headers(udp) = {}
    BY <1>1, <1>2, ReadRight
  <2> QED BY <1>1, <1>2, <2>1, <2>2, NothingWaits DEF UdpRight
<1>3. CASE udp.count # 0 /\ Headers(udp) # {}
  <2> DEFINE r == RecvFrom(udp, First(udp).len)
             k == Header + udp.ring[udp.tail].len
  <2>1. /\ udp.ring[udp.tail] \in Datagram
        /\ k <= Depth(udp) /\ Depth(udp) < Ring /\ udp.count > 0
        /\ RingRight(r) /\ Depth(r) = Depth(udp) - k /\ r.count = udp.count - (k - 1)
    BY <1>1, <1>3, ReadRight
  <2>2. /\ WaitingLens(udp) # <<>> /\ Head(WaitingLens(udp)) = udp.ring[udp.tail].len
        /\ WaitingLens(r) = Tail(WaitingLens(udp))
    BY <1>1, <1>3, ReadFirst
  <2>3. Waiting(udp) # <<>>
    BY <1>1, <1>3, NothingWaits
  <2>4. udp' = r /\ taken' = Min({len, udp.ring[udp.tail].len}) /\ astray' = FALSE
    BY <1>3, <2>3 DEF Read, SockDepth, First, AtTail
  <2>5. udp.ring[udp.tail].len \in Nat
    BY <2>1 DEF Datagram
  <2>6. udp.ring[udp.tail].len \in 0 .. Ring
    <3> DEFINE l == udp.ring[udp.tail].len
               d == Depth(udp)
    <3>1. /\ l \in Nat /\ d \in Nat /\ Header \in Nat /\ Ring \in Nat
          /\ Header + l <= d /\ d < Ring
      BY <1>1, <2>1, <2>5, UdpAssumption
    <3>2. l \in 0 .. Ring
      <4> HIDE DEF l, d
      <4> QED BY <3>1
    <3> QED BY <3>2
  <2>7. taken' \in Nat
    <3> DEFINE l == udp.ring[udp.tail].len
    <3>1. len \in Nat /\ l \in Nat /\ taken' = Min({len, l})
      BY <1>1, <2>4, <2>5
    <3> HIDE DEF l
    <3>2. Min({len, l}) \in {len, l}
      BY <3>1, MinTwo
    <3> QED BY <3>1, <3>2
  <2>8. Depth(r) = Depth(udp) - Header - udp.ring[udp.tail].len /\ r.count # Depth(r)
    BY <1>1, <2>1, <2>5, UdpAssumption
  <2> HIDE DEF r
  <2>9. UdpRight'
    BY <2>1, <2>4, <2>7 DEF UdpRight, RingRight
  <2> QED BY <1>1, <2>2, <2>4, <2>6, <2>8, <2>9
<1>4. CASE udp.count # 0 /\ Headers(udp) = {}
  <2>1. Waiting(udp) = <<>> /\ WaitingLens(udp) = <<>> /\ Depth(udp) = 0
    BY <1>1, <1>4, NothingWaits
  <2>2. PICK n \in Lengths : taken' = Min({len, n}) /\ udp' = RecvFrom(udp, n) /\ astray' = TRUE
    BY <1>4, <2>1 DEF Read, SockDepth, AtTail
  <2>3. n \in Nat /\ udp.tail \in Nat /\ Ring \in Nat \ {0} /\ Header \in Nat
    BY <1>1, UdpAssumption DEF RingShape, Slots
  <2>4. Walk(udp.tail, Header + n) \in Slots /\ udp.count - (n + Header - 1) \in Int
    <3>1. \A a \in Nat : a % Ring \in 0 .. Ring - 1
      BY <2>3
    <3>2. udp.tail + (Header + n) \in Nat
      BY <2>3
    <3> QED BY <1>1, <2>3, <3>1, <3>2 DEF Walk, Slots
  <2>5. udp' \in RingShape
    BY <1>1, <2>2, <2>4 DEF RecvFrom, RingShape
  <2>6. taken' \in Nat
    BY <1>1, <2>2, <2>3, MinTwo
  <2> QED BY <1>1, <1>4, <2>1, <2>2, <2>5, <2>6 DEF UdpRight
<1> QED BY <1>2, <1>3, <1>4

LEMMA ReopenStep ==
  ASSUME Reopen
  PROVE  UdpRight' /\ Shown' = <<<<>>, 0, -1, FALSE, FALSE>>
<1>1. RingRight(Fresh) /\ Headers(Fresh) = {} /\ Fresh \in RingShape /\ Fresh.count = 0
  BY FreshRight DEF RingRight, Fresh
<1>2. Lens(Waiting(Fresh)) = <<>> /\ Distance(Fresh.tail, Fresh.head) = 0
  BY <1>1, NothingWaits DEF WaitingLens, Depth
<1> QED BY <1>1, <1>2 DEF Reopen, UdpRight, Shown

LEMMA UdpStart ==
  ASSUME UdpInit
  PROVE  UdpRight /\ Shown = <<<<>>, 0, -1, FALSE, FALSE>>
<1>1. RingRight(Fresh) /\ Headers(Fresh) = {} /\ Fresh \in RingShape /\ Fresh.count = 0
  BY FreshRight DEF RingRight, Fresh
<1>2. Lens(Waiting(Fresh)) = <<>> /\ Distance(Fresh.tail, Fresh.head) = 0
  BY <1>1, NothingWaits DEF WaitingLens, Depth
<1> QED BY <1>1, <1>2 DEF UdpInit, UdpRight, Shown

LEMMA UdpStep ==
  ASSUME UdpRight, [UdpNext]_udpVars
  PROVE  UdpRight'
<1>1. CASE UNCHANGED udpVars
  BY <1>1 DEF udpVars, UdpRight
<1> QED BY <1>1, ArriveStep, ReadStep, ReopenStep DEF UdpNext

(* DatagramsSound, for every ring, header and set of lengths, although the  *)
(* count drifts from what the ring holds: the tail stands at a header       *)
(* whenever something waits (socket.c:1084).                                *)
THEOREM SocketsReadable == UdpSpec => []DatagramsSound
<1>1. UdpInit => UdpRight
  BY UdpStart
<1>2. UdpRight /\ [UdpNext]_udpVars => UdpRight'
  BY UdpStep
<1>3. UdpRight => DatagramsSound
  BY DEF UdpRight, RingRight, RingShape, DatagramsSound, UdpTypeOK, RecordsAligned
<1> QED BY <1>1, <1>2, <1>3, PTL DEF UdpSpec

(* ImplementsDatagrams, for every ring and every length: a program gets     *)
(* datagrams whole, once and in order, and only the read of a socket that   *)
(* was emptied goes wrong, none other (udp.c:136, socket.c:1049).           *)
THEOREM SocketIsADatagramQueue == UdpSpec => ImplementsDatagrams
<1> USE DEF WaitingLens, Depth
<1>1. UdpInit => UdpRight /\ Promise!Init
  BY UdpStart DEF Shown, Promise!Init, Promise!Fresh
<1>2. UdpRight /\ [UdpNext]_udpVars => UdpRight'
  BY UdpStep
<1>3. UdpRight /\ [UdpNext]_udpVars => [Promise!Next]_Shown
  <2> SUFFICES ASSUME UdpRight, [UdpNext]_udpVars PROVE [Promise!Next]_Shown
    OBVIOUS
  <2>1. CASE UNCHANGED udpVars
    BY <2>1 DEF udpVars, Shown
  <2>2. ASSUME NEW n \in Lengths, Arrive(n) PROVE [Promise!Next]_Shown
    <3>1. CASE UNCHANGED udpVars
      BY <3>1 DEF udpVars, Shown
    <3>2. CASE ~UNCHANGED udpVars
      <4>1. (udp.count # Depth(udp)) <=> (udp'.count # Depth(udp'))
        <5> HIDE DEF Depth
        <5>1. /\ Depth(udp') = Depth(udp) + Header + n /\ udp'.count = udp.count + Header + n
              /\ Depth(udp) \in Int /\ udp.count \in Int /\ Header + n \in Int
          BY <2>2, <3>2, ArriveStep
        <5>2. /\ Depth(udp') = Depth(udp) + (Header + n) /\ udp'.count = udp.count + (Header + n)
          BY <5>1, UdpAssumption
        <5> QED BY <5>1, <5>2
      <4> QED BY <2>2, <3>2, <4>1, ArriveStep DEF Promise!Next, Promise!Put
    <3> QED BY <3>1, <3>2
  <2>3. ASSUME NEW len \in Lengths, Read(len) PROVE Promise!Next
    <3>1. CASE WaitingLens(udp) = <<>> /\ udp.count = Depth(udp)
      BY <2>3, <3>1, ReadStep DEF Promise!Next, Promise!TakeNothing
    <3>2. CASE WaitingLens(udp) = <<>> /\ udp.count # Depth(udp)
      BY <2>3, <3>2, ReadStep DEF Promise!Next, Promise!Spoil
    <3>3. CASE WaitingLens(udp) # <<>>
      <4> DEFINE v == WaitingLens(udp)
                 n == IF len <= Ring THEN len ELSE Ring
      <4>1. /\ v # <<>> /\ WaitingLens(udp') = Tail(v)
            /\ Depth(udp') = Depth(udp) - Header - Head(v)
            /\ Head(v) \in 0 .. Ring /\ taken' = Min({len, Head(v)})
            /\ udp'.count # Depth(udp') /\ ~astray /\ ~astray'
        BY <2>3, <3>3, ReadStep
      <4>2. n \in 0 .. Ring /\ Min({len, Head(v)}) = Min({n, Head(v)})
        <5>1. len \in Nat /\ Ring \in Nat /\ Head(v) \in Nat /\ Head(v) <= Ring
          BY <4>1, UdpAssumption
        <5> HIDE DEF v
        <5>2. n \in Nat
          BY <5>1
        <5>3. Min({len, Head(v)}) = IF len <= Head(v) THEN len ELSE Head(v)
          BY <5>1, MinTwo
        <5>4. Min({n, Head(v)}) = IF n <= Head(v) THEN n ELSE Head(v)
          <6> HIDE DEF n
          <6> QED BY <5>1, <5>2, MinTwo
        <5> QED BY <5>1, <5>3, <5>4
      <4>3. \A S : Promise!Min(S) = Min(S)
        BY DEF Promise!Min, Min
      <4>4. taken' = Promise!Min({n, Head(v)})
        <5> HIDE DEF n, v
        <5> QED BY <4>1, <4>2, <4>3
      <4>5. Promise!Take(n)
        <5>1. taken' = Promise!Min({n, Head(Lens(Waiting(udp)))})
          BY <4>4
        <5>2. /\ Lens(Waiting(udp)) # <<>> /\ Lens(Waiting(udp')) = Tail(Lens(Waiting(udp)))
              /\ Distance(udp'.tail, udp'.head)
                   = Distance(udp.tail, udp.head) - Header - Head(Lens(Waiting(udp)))
              /\ (udp'.count # Distance(udp'.tail, udp'.head)) = TRUE
              /\ astray = FALSE /\ astray' = FALSE
          <6>1. astray \in BOOLEAN /\ astray' \in BOOLEAN
            BY <2>3, ReadStep DEF UdpRight
          <6> QED BY <4>1, <6>1
        <5> HIDE DEF n, v, WaitingLens, Depth
        <5> QED BY <5>1, <5>2 DEF Promise!Take
      <4> QED BY <4>2, <4>5 DEF Promise!Next
    <3> QED BY <3>1, <3>2, <3>3
  <2>4. CASE Reopen
    BY <2>4, ReopenStep DEF Shown, Promise!Next, Promise!Renew, Promise!Fresh
  <2> QED BY <2>1, <2>2, <2>3, <2>4 DEF UdpNext
<1> QED BY <1>1, <1>2, <1>3, PTL DEF UdpSpec, ImplementsDatagrams, Promise!Spec, Promise!vars, Shown

-----------------------------------------------------------------------------
(* The resolver: what is allocated and whether its socket is open follows   *)
(* from where findhost is.                                                  *)

Message == [to : {"server", "client"}, name : Names, kind : Kinds \cup {"query"}]
Text == IF reverse THEN {"query"} ELSE {}

LookupTypes ==
    /\ pc \in {"idle", "alloc", "socket", "send", "wait"} /\ try \in 0 .. MaxTries
    /\ reverse \in BOOLEAN
    /\ asked \in Names \cup {NULL} /\ found \in Names \cup {NULL}
    /\ inbox \in [open : BOOLEAN, queue : Seq(Message)]
    /\ net \in SUBSET Message /\ late \in BOOLEAN

LookupRight ==
    /\ pc # "idle" => asked \in Names
    /\ inbox.open <=> pc \in {"send", "wait"}
    /\ pc = "idle" => heap = IF found = NULL THEN {} ELSE Owned
    /\ pc = "alloc" => heap = Text
    /\ pc \in {"socket", "send", "wait"} => heap = Held(4) \cup Text

LookupInv == LookupTypes /\ LookupRight

LEMMA HeldBlocks ==
  /\ Held(0) = {} /\ Held(1) = {"workspace"} /\ Held(2) = {"workspace", "result"}
  /\ Held(3) = {"workspace", "result", "hostip"}
  /\ Held(4) = {"workspace", "result", "hostip", "hostname"}
<1>1. /\ Blocks[1] = "workspace" /\ Blocks[2] = "result" /\ Blocks[3] = "hostip"
      /\ Blocks[4] = "hostname"
  BY DEF Blocks
<1>2. /\ 1 .. 0 = {} /\ 1 .. 1 = {1} /\ 1 .. 2 = {1, 2} /\ 1 .. 3 = {1, 2, 3}
      /\ 1 .. 4 = {1, 2, 3, 4}
  OBVIOUS
<1> QED BY <1>1, <1>2 DEF Held

(* Every label of findhost frees what was allocated on the way to it.       *)
LEMMA ReturnFrees ==
  ASSUME NEW label, NEW h, NEW answer \in Names \cup {NULL},
         h \in SUBSET (FreedFrom(label) \cup {"query"}),
         answer = NULL, Return(h, label, answer)
  PROVE  heap' = {} /\ found' = NULL /\ pc' = "idle"
BY DEF Return

LEMMA ClosedSocket ==
  ASSUME NEW i
  PROVE  /\ Close(i) \in [open : BOOLEAN, queue : Seq(Message)]
         /\ ~Close(i).open /\ Close(i).queue = <<>>
BY DEF Close

LEMMA LookupStart == Init => LookupInv
<1> SUFFICES ASSUME Init PROVE LookupInv
  OBVIOUS
<1>1. /\ pc = "idle" /\ asked = NULL /\ reverse = FALSE /\ try = 0
      /\ heap = {} /\ inbox = [open |-> FALSE, queue |-> <<>>] /\ net = {} /\ found = NULL
      /\ late = FALSE
  BY DEF Init
<1>2. inbox \in [open : BOOLEAN, queue : Seq(Message)] /\ ~inbox.open
  BY <1>1
<1>3. LookupTypes
  <2>1. 0 \in 0 .. MaxTries
    BY ResolverAssumption
  <2> QED BY <1>1, <1>2, <2>1 DEF LookupTypes
<1>4. LookupRight
  BY <1>1, <1>2 DEF LookupRight
<1> QED BY <1>3, <1>4 DEF LookupInv

LEMMA AskStep ==
  ASSUME LookupInv, NEW n \in Names, NEW r \in BOOLEAN, GetHostAndIp(n, r)
  PROVE  LookupInv'
<1>1. pc = "idle" /\ ~inbox.open
  BY DEF GetHostAndIp, LookupInv, LookupRight
<1>2. /\ asked' = n /\ reverse' = r /\ found' = NULL /\ try' = 1 /\ inbox' = inbox /\ net' = net
      /\ late' = late
      /\ \/ heap' = {} /\ pc' = pc
         \/ heap' = (IF r THEN {"query"} ELSE {}) /\ pc' = "alloc"
  BY DEF GetHostAndIp
<1>3. LookupTypes'
  BY <1>1, <1>2, ResolverAssumption DEF LookupInv, LookupTypes
<1>4. LookupRight'
  BY <1>1, <1>2 DEF LookupRight, Text
<1> QED BY <1>3, <1>4 DEF LookupInv

LEMMA AllocateStep ==
  ASSUME LookupInv, NEW k \in 0 .. 4, Allocate(k)
  PROVE  LookupInv'
<1> DEFINE h == heap \cup Held(k)
           label == <<"no_workspace", "success", "oom1", "oom2">>[k + 1]
<1>1. /\ pc = "alloc" /\ heap = Text /\ ~inbox.open /\ asked \in Names
      /\ UNCHANGED <<asked, reverse, try, inbox, net, late>>
  BY DEF Allocate, LookupInv, LookupRight
<1>2. CASE k = 4
  <2>1. heap' = Held(4) \cup Text /\ pc' = "socket" /\ found' = found
    BY <1>1, <1>2 DEF Allocate
  <2> QED BY <1>1, <2>1 DEF LookupInv, LookupTypes, LookupRight, Text
<1>3. CASE k # 4
  <2>1. Return(h, label, NULL)
    BY <1>3 DEF Allocate
  <2>2. h \in SUBSET (FreedFrom(label) \cup {"query"})
    <3>1. k = 0 \/ k = 1 \/ k = 2 \/ k = 3
      BY <1>3
    <3>2. Text \in SUBSET {"query"}
      BY DEF Text
    <3>3. CASE k = 0
      <4>1. label = "no_workspace"
        BY <3>3
      <4> QED BY <1>1, <3>2, <3>3, <4>1, HeldBlocks
    <3>4. CASE k = 1
      <4>1. label = "success"
        BY <3>4
      <4>2. FreedFrom(label) = {"workspace"}
        BY <4>1 DEF FreedFrom
      <4> QED BY <1>1, <3>2, <3>4, <4>2, HeldBlocks
    <3>5. CASE k = 2
      <4>1. label = "oom1"
        BY <3>5
      <4>2. FreedFrom(label) = {"result", "workspace"}
        BY <4>1 DEF FreedFrom
      <4> QED BY <1>1, <3>2, <3>5, <4>2, HeldBlocks
    <3>6. CASE k = 3
      <4>1. label = "oom2"
        BY <3>6
      <4>2. FreedFrom(label) = {"hostip", "result", "workspace"}
        BY <4>1 DEF FreedFrom
      <4> QED BY <1>1, <3>2, <3>6, <4>2, HeldBlocks
    <3> QED BY <3>1, <3>3, <3>4, <3>5, <3>6
  <2>3. heap' = {} /\ found' = NULL /\ pc' = "idle"
    <3> HIDE DEF h, label
    <3> QED BY <2>1, <2>2, ReturnFrees
  <2> QED BY <1>1, <2>3 DEF LookupInv, LookupTypes, LookupRight
<1> QED BY <1>2, <1>3

(* error_cleanup, with all four blocks allocated.                           *)
LEMMA GiveUp ==
  ASSUME LookupInv, pc \in {"socket", "send", "wait"}, Return(heap, "error_cleanup", NULL)
  PROVE  heap' = {} /\ found' = NULL /\ pc' = "idle"
<1>1. heap \in SUBSET (FreedFrom("error_cleanup") \cup {"query"})
  BY HeldBlocks DEF LookupInv, LookupRight, FreedFrom, Text
<1> QED BY <1>1, ReturnFrees

LEMMA OpenSocketStep ==
  ASSUME LookupInv, NEW ok \in BOOLEAN, OpenSocket(ok)
  PROVE  LookupInv'
<1>1. /\ pc = "socket" /\ heap = Held(4) \cup Text /\ ~inbox.open /\ asked \in Names
      /\ UNCHANGED <<asked, reverse, try, net>>
  BY DEF OpenSocket, LookupInv, LookupRight
<1>2. CASE ok
  <2>1. /\ inbox' = [inbox EXCEPT !.open = TRUE] /\ pc' = "send"
        /\ late' \in BOOLEAN /\ UNCHANGED <<heap, found>>
    BY <1>2 DEF OpenSocket
  <2>2. inbox' \in [open : BOOLEAN, queue : Seq(Message)] /\ inbox'.open
    BY <2>1 DEF LookupInv, LookupTypes
  <2> QED BY <1>1, <2>1, <2>2 DEF LookupInv, LookupTypes, LookupRight, Text
<1>3. CASE ~ok
  <2>1. heap' = {} /\ found' = NULL /\ pc' = "idle" /\ inbox' = inbox /\ late' = late
    BY <1>1, <1>3, GiveUp DEF OpenSocket
  <2> QED BY <1>1, <2>1 DEF LookupInv, LookupTypes, LookupRight
<1> QED BY <1>2, <1>3

LEMMA SendQueryStep ==
  ASSUME LookupInv, NEW ok \in BOOLEAN, SendQuery(ok)
  PROVE  LookupInv'
<1>1. /\ pc = "send" /\ heap = Held(4) \cup Text /\ inbox.open /\ asked \in Names
      /\ UNCHANGED <<asked, reverse, try, late>>
  BY DEF SendQuery, LookupInv, LookupRight
<1>2. CASE ok
  <2> DEFINE q == [to |-> "server", name |-> asked, kind |-> "query"]
  <2>1. net' = net \cup {q} /\ pc' = "wait" /\ UNCHANGED <<heap, found, inbox>>
    BY <1>2 DEF SendQuery
  <2>2. q \in Message
    BY <1>1 DEF Message
  <2> HIDE DEF q
  <2> QED BY <1>1, <2>1, <2>2 DEF LookupInv, LookupTypes, LookupRight, Text
<1>3. CASE ~ok
  <2>1. heap' = {} /\ found' = NULL /\ pc' = "idle" /\ inbox' = Close(inbox) /\ net' = net
    BY <1>1, <1>3, GiveUp DEF SendQuery
  <2> QED BY <1>1, <2>1, ClosedSocket DEF LookupInv, LookupTypes, LookupRight
<1> QED BY <1>2, <1>3

LEMMA TimeoutStep ==
  ASSUME LookupInv, Timeout
  PROVE  LookupInv'
<1>1. /\ pc = "wait" /\ heap = Held(4) \cup Text /\ inbox.open /\ asked \in Names
      /\ UNCHANGED <<asked, reverse, net, late>>
  BY DEF Timeout, LookupInv, LookupRight
<1>2. CASE try < MaxTries
  <2>1. try' = try + 1 /\ pc' = "send" /\ UNCHANGED <<heap, found, inbox>>
    BY <1>2 DEF Timeout
  <2>2. try' \in 0 .. MaxTries
    BY <1>2, <2>1, ResolverAssumption DEF LookupInv, LookupTypes
  <2> QED BY <1>1, <2>1, <2>2 DEF LookupInv, LookupTypes, LookupRight, Text
<1>3. CASE ~(try < MaxTries)
  <2>1. heap' = {} /\ found' = NULL /\ pc' = "idle" /\ inbox' = Close(inbox) /\ try' = try
    BY <1>1, <1>3, GiveUp DEF Timeout
  <2> QED BY <1>1, <2>1, ClosedSocket DEF LookupInv, LookupTypes, LookupRight
<1> QED BY <1>2, <1>3

(* What is read is a message someone sent.                                  *)
LEMMA AnswerRead ==
  ASSUME LookupInv, inbox.queue # <<>>
  PROVE  Head(inbox.queue) \in Message
BY DEF LookupInv, LookupTypes

LEMMA TakeAnswerStep ==
  ASSUME LookupInv, TakeAnswer
  PROVE  LookupInv' /\ (found' = NULL \/ found' = Head(inbox.queue).name)
<1> DEFINE a == Head(inbox.queue)
<1>1. /\ pc = "wait" /\ heap = Held(4) \cup Text /\ inbox.open /\ asked \in Names
      /\ inbox' = Close(inbox) /\ UNCHANGED <<asked, reverse, try, net, late>>
      /\ inbox.queue # <<>>
  BY DEF TakeAnswer, LookupInv, LookupRight
<1>2. CASE a.kind = "record"
  <2>1. Return(heap, "success", a.name)
    BY <1>2 DEF TakeAnswer
  <2>2. a.name \in Names
    BY <1>1, AnswerRead DEF Message
  <2>3. heap' = Owned /\ found' = a.name /\ pc' = "idle"
    <3>1. /\ heap' = heap \ (FreedFrom("success") \cup {"query"})
          /\ found' = a.name /\ pc' = "idle"
      BY <2>1 DEF Return
    <3>2. FreedFrom("success") = {"workspace"}
      BY DEF FreedFrom
    <3>3. Text \in SUBSET {"query"}
      BY DEF Text
    <3> QED BY <1>1, <3>1, <3>2, <3>3, HeldBlocks DEF Owned
  <2> HIDE DEF a
  <2>4. LookupInv'
    BY <1>1, <2>2, <2>3, ClosedSocket, ResolverAssumption DEF LookupInv, LookupTypes, LookupRight
  <2> QED BY <2>3, <2>4 DEF a
<1>3. CASE ~(a.kind = "record")
  <2>1. heap' = {} /\ found' = NULL /\ pc' = "idle"
    BY <1>1, <1>3, GiveUp DEF TakeAnswer
  <2> QED BY <1>1, <2>1, ClosedSocket DEF LookupInv, LookupTypes, LookupRight
<1> QED BY <1>2, <1>3

LEMMA NetworkStep ==
  ASSUME LookupInv, Network
  PROVE  LookupInv'
<1>1. PICK m \in net : Lose(m) \/ ArriveAnswer(m) \/ (\E k \in Kinds : Answer(m, k))
  BY DEF Network
<1>2. m \in Message /\ UNCHANGED <<pc, asked, reverse, try, heap, found, late>>
  BY <1>1 DEF LookupInv, LookupTypes, Lose, ArriveAnswer, Answer
<1>3. net' \in SUBSET Message
  <2>1. \A k \in Kinds : [m EXCEPT !.to = "client", !.kind = k] \in Message
    BY <1>2 DEF Message
  <2>2. \/ net' = net \ {m}
        \/ \E a \in Message : net' = (net \ {m}) \cup {a}
    BY <1>1, <2>1 DEF Lose, ArriveAnswer, Answer
  <2>3. net \in SUBSET Message
    BY DEF LookupInv, LookupTypes
  <2> QED BY <2>2, <2>3
<1>4. inbox' \in [open : BOOLEAN, queue : Seq(Message)] /\ inbox'.open = inbox.open
  <2>1. inbox \in [open : BOOLEAN, queue : Seq(Message)]
    BY DEF LookupInv, LookupTypes
  <2>2. CASE inbox' = inbox
    BY <2>1, <2>2
  <2>3. CASE inbox' = [inbox EXCEPT !.queue = Append(@, m)]
    <3>1. Append(inbox.queue, m) \in Seq(Message)
      BY <1>2, <2>1
    <3> QED BY <2>1, <2>3, <3>1
  <2> QED BY <1>1, <2>2, <2>3 DEF Lose, ArriveAnswer, Answer
<1>5. LookupTypes'
  BY <1>2, <1>3, <1>4 DEF LookupInv, LookupTypes
<1>6. LookupRight'
  BY <1>2, <1>4 DEF LookupInv, LookupRight, Text
<1> QED BY <1>5, <1>6 DEF LookupInv

LEMMA LookupStep ==
  ASSUME LookupInv, [Next]_vars
  PROVE  LookupInv'
<1>1. CASE UNCHANGED vars
  BY <1>1 DEF vars, LookupInv, LookupTypes, LookupRight, Text
<1>2. CASE \E n \in Names, r \in BOOLEAN : GetHostAndIp(n, r)
  BY <1>2, AskStep
<1>3. CASE FindHost
  <2>1. CASE \E k \in 0 .. 4 : Allocate(k)
    BY <2>1, AllocateStep
  <2>2. CASE \E ok \in BOOLEAN : OpenSocket(ok) \/ SendQuery(ok)
    BY <2>2, OpenSocketStep, SendQueryStep
  <2> QED BY <1>3, <2>1, <2>2, TimeoutStep, TakeAnswerStep DEF FindHost
<1>4. CASE Network
  BY <1>4, NetworkStep
<1> QED BY <1>1, <1>2, <1>3, <1>4 DEF Next, Lookup

(* LookupSound, for any names and as many tries and messages as one likes,  *)
(* whatever is lost or late: every way out of findhost gives back what it   *)
(* took (netutil.c:261).                                                    *)
THEOREM LookupsAreSound == Spec => []LookupSound
<1>1. LookupInv => LookupSound
  <2> SUFFICES ASSUME LookupInv PROVE LookupSound
    OBVIOUS
  <2>1. heap \in SUBSET (Owned \cup {"workspace", "query"})
    BY HeldBlocks DEF LookupInv, LookupTypes, LookupRight, Owned, Text
  <2>2. TypeOK
    BY <2>1 DEF TypeOK, LookupInv, LookupTypes
  <2>3. NothingLeaks
    BY DEF NothingLeaks, LookupInv, LookupRight
  <2> QED BY <2>2, <2>3 DEF LookupSound
<1> QED BY <1>1, LookupStart, LookupStep, PTL DEF Spec

-----------------------------------------------------------------------------
(* Where nothing was under way when the socket was opened, all that comes   *)
(* to it belongs to the present question; a closed socket holds nothing.    *)

Present ==
    /\ pc = "idle" /\ found \notin {NULL, asked} => late
    /\ pc \notin {"send", "wait"} => inbox.queue = <<>>
    /\ pc \in {"send", "wait"} /\ ~late =>
         /\ \A m \in net : m.name = asked
         /\ \A i \in 1 .. Len(inbox.queue) : inbox.queue[i].name = asked

LEMMA PresentStep ==
  ASSUME LookupInv, Present, [Next]_vars
  PROVE  Present'
<1>1. CASE UNCHANGED vars
  BY <1>1 DEF vars, Present
<1>2. CASE \E n \in Names, r \in BOOLEAN : GetHostAndIp(n, r)
  BY <1>2 DEF GetHostAndIp, Present
<1>3. ASSUME NEW k \in 0 .. 4, Allocate(k) PROVE Present'
  BY <1>3 DEF Allocate, Return, Present
<1>4. ASSUME NEW ok \in BOOLEAN, OpenSocket(ok) PROVE Present'
  <2>1. CASE ok
    <3>1. /\ inbox' = [inbox EXCEPT !.open = TRUE] /\ late' = (net # {})
          /\ pc' = "send" /\ net' = net /\ inbox.queue = <<>>
      BY <1>4, <2>1 DEF OpenSocket, Present
    <3>2. inbox'.queue = <<>>
      BY <3>1 DEF LookupInv, LookupTypes
    <3>3. ~late' => net' = {}
      BY <3>1
    <3> QED BY <3>1, <3>2, <3>3 DEF Present
  <2>2. CASE ~ok
    BY <1>4, <2>2 DEF OpenSocket, Return, Present
  <2> QED BY <2>1, <2>2
<1>5. ASSUME NEW ok \in BOOLEAN, SendQuery(ok) PROVE Present'
  <2>1. CASE ok
    BY <1>5, <2>1 DEF SendQuery, Present
  <2>2. CASE ~ok
    BY <1>5, <2>2, ClosedSocket DEF SendQuery, Return, Present
  <2> QED BY <2>1, <2>2
<1>6. CASE Timeout
  <2>1. CASE try < MaxTries
    BY <1>6, <2>1 DEF Timeout, Present
  <2>2. CASE ~(try < MaxTries)
    BY <1>6, <2>2, ClosedSocket DEF Timeout, Return, Present
  <2> QED BY <2>1, <2>2
<1>7. CASE TakeAnswer
  <2>1. /\ pc = "wait" /\ inbox.queue # <<>> /\ inbox.queue \in Seq(Message)
        /\ inbox' = Close(inbox) /\ asked' = asked /\ late' = late /\ pc' = "idle"
    BY <1>7 DEF TakeAnswer, Return, LookupInv, LookupTypes
  <2>2. 1 \in 1 .. Len(inbox.queue) /\ Head(inbox.queue) = inbox.queue[1]
    BY <2>1
  <2>3. found' = NULL \/ found' = Head(inbox.queue).name
    BY <1>7, TakeAnswerStep
  <2>4. ~late => Head(inbox.queue).name = asked
    BY <2>1, <2>2 DEF Present
  <2> QED BY <2>1, <2>3, <2>4, ClosedSocket DEF Present
<1>8. CASE Network
  <2>1. PICK m \in net : Lose(m) \/ ArriveAnswer(m) \/ (\E k \in Kinds : Answer(m, k))
    BY <1>8 DEF Network
  <2>2. m \in Message /\ UNCHANGED <<pc, asked, found, late>>
    BY <2>1 DEF LookupInv, LookupTypes, Lose, ArriveAnswer, Answer
  <2>3. ASSUME NEW o \in net' PROVE \E n \in net : o.name = n.name
    <3>1. CASE o \in net
      BY <3>1
    <3>2. CASE o \notin net
      <4>1. PICK k \in Kinds : o = [m EXCEPT !.to = "client", !.kind = k]
        BY <2>1, <2>3, <3>2 DEF Lose, ArriveAnswer, Answer
      <4> QED BY <2>2, <4>1 DEF Message
    <3> QED BY <3>1, <3>2
  <2>4. \/ inbox' = inbox
        \/ inbox' = [inbox EXCEPT !.queue = Append(@, m)] /\ inbox.open
    BY <2>1 DEF Lose, ArriveAnswer, Answer
  <2>5. CASE inbox' = inbox
    BY <2>2, <2>3, <2>5 DEF Present
  <2>6. CASE inbox' = [inbox EXCEPT !.queue = Append(@, m)] /\ inbox.open
    <3>1. inbox.queue \in Seq(Message) /\ inbox'.queue = Append(inbox.queue, m)
      BY <2>6 DEF LookupInv, LookupTypes
    <3>2. \A i \in 1 .. Len(inbox'.queue) :
            \/ inbox'.queue[i] = m
            \/ i \in 1 .. Len(inbox.queue) /\ inbox'.queue[i] = inbox.queue[i]
      BY <2>2, <3>1
    <3>3. pc \in {"send", "wait"}
      BY <2>6 DEF LookupInv, LookupRight
    <3> QED BY <2>2, <2>3, <3>2, <3>3 DEF Present
  <2> QED BY <2>4, <2>5, <2>6
<1> QED BY <1>1, <1>2, <1>3, <1>4, <1>5, <1>6, <1>7, <1>8 DEF Next, Lookup, FindHost

(* AnswerBelongs, for any names, tries and messages, lost, late and         *)
(* reordered as they may be (netutil.c:182): a wrong address needs a        *)
(* message of an earlier lookup that was under way when this one began to   *)
(* listen.                                                                  *)
THEOREM AnswersBelong == Spec => []AnswerBelongs
<1>1. Init => LookupInv /\ Present
  <2>1. Init => Present
    BY DEF Init, Present
  <2> QED BY <2>1, LookupStart
<1>2. LookupInv /\ Present /\ [Next]_vars => (LookupInv /\ Present)'
  BY LookupStep, PresentStep
<1>3. Present => AnswerBelongs
  BY DEF Present, AnswerBelongs
<1> QED BY <1>1, <1>2, <1>3, PTL DEF Spec
=============================================================================
