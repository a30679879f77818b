--------------------------- MODULE TcpLink_proofs ---------------------------
(***************************************************************************)
(* What the client's program writes is what the server's socket accepts,   *)
(* over any network, and the client lets nothing go that the server has    *)
(* not got.                                                                *)
(***************************************************************************)
EXTENDS TcpLink, SequenceTheorems, TLAPS

USE DEF STATE_CLOSED, STATE_BIND, STATE_BOUND, STATE_LISTEN, STATE_NOTINIT, STATE_UDP,
        STATE_SYN_SENT, STATE_SYN_RECEIVED, STATE_ESTABLISHED, STATE_CLOSEWAIT, STATE_CLOSING,
        STATE_FINWAIT1, STATE_FINWAIT2, STATE_LAST_ACK, STATE_PEER_RESET, STATE_TIME_WAIT,
        ACK, PSH, RST, SYN, FIN

-----------------------------------------------------------------------------
(* Arithmetic of numbers that wrap.                                         *)

LEMMA Divided == ASSUME NEW M \in Nat \ {0}, NEW x \in Int
                 PROVE  x \div M \in Int /\ x % M \in 0 .. M - 1 /\ x = M * (x \div M) + (x % M)
  BY SMTT(30)

LEMMA Multiples == ASSUME NEW M \in Nat \ {0}, NEW p \in Int, NEW q \in Int,
                          M * p - M * q < M, M * q - M * p < M
                   PROVE  p = q
<1>1. ASSUME NEW a \in Int, NEW b \in Int, a > b PROVE M * a - M * b >= M
  <2>1. a - b >= 1 BY <1>1
  <2>2. M * (a - b) >= M BY <2>1, SMTT(30)
  <2>3. M * (a - b) = M * a - M * b BY SMTT(30)
  <2> QED BY <2>2, <2>3
<1>2. CASE p > q BY <1>1, <1>2
<1>3. CASE q > p BY <1>1, <1>3
<1> QED BY <1>2, <1>3

(* Numbers closer than the modulus are told apart by their remainders.      *)
LEMMA NearEqual == ASSUME NEW M \in Nat \ {0}, NEW x \in Int, NEW y \in Int,
                      x % M = y % M, x - y < M, y - x < M
               PROVE  x = y
<1> DEFINE p == x \div M  q == y \div M
<1>1. p \in Int /\ q \in Int /\ x = M * p + (x % M) /\ y = M * q + (y % M) /\ x % M \in Int
  BY Divided
<1>2. M * p \in Int /\ M * q \in Int BY <1>1, SMTT(30)
<1> HIDE DEF p, q
<1>3. M * p - M * q = x - y BY <1>1, <1>2
<1>4. p = q BY <1>1, <1>3, <1>2, Multiples
<1> QED BY <1>4, <1>1

LEMMA Small == ASSUME NEW M \in Nat \ {0}, NEW x \in 0 .. M - 1 PROVE x % M = x
  BY SMTT(30)

LEMMA ModAdd == ASSUME NEW M \in Nat \ {0}, NEW x \in Int, NEW n \in Int
                PROVE  ((x % M) + n) % M = (x + n) % M
<1> DEFINE p == x \div M  y == (x % M) + n  z == x + n
           q == y \div M  r == z \div M
<1>1. p \in Int /\ x = M * p + (x % M) /\ x % M \in Int BY Divided
<1>2. y \in Int /\ z \in Int BY <1>1
<1>3. q \in Int /\ r \in Int /\ y = M * q + (y % M) /\ z = M * r + (z % M)
      /\ y % M \in 0 .. M - 1 /\ z % M \in 0 .. M - 1
  BY <1>2, Divided
<1>4. M * p \in Int /\ M * q \in Int /\ M * r \in Int /\ M * (p + q) \in Int
      /\ M * (p + q) = M * p + M * q
  BY <1>1, <1>3, SMTT(30)
<1>5. z = M * p + y BY <1>1
<1> HIDE DEF p, y, z, q, r
<1>6. M * (p + q) - M * r = (z % M) - (y % M) BY <1>3, <1>4, <1>5, <1>2
<1>7. p + q = r BY <1>1, <1>3, <1>4, <1>6, Multiples
<1>8. M * (p + q) = M * r BY <1>7
<1> DEFINE g == M * (p + q)  k == M * r  u == z % M  v == y % M
<1>9. g \in Int /\ k \in Int /\ g = k BY <1>4, <1>8
<1>13. u \in Int /\ v \in Int BY <1>3
<1>14. g - k = u - v BY <1>6
<1> HIDE DEF g, k, u, v
<1>10. u = v BY <1>9, <1>13, <1>14
<1>11. z % M = y % M BY <1>10 DEF u, v
<1> QED BY <1>11 DEF y, z

LEMMA Remainder == ASSUME NEW M \in Nat \ {0}, NEW a \in 0 .. M - 1, NEW q \in Int, NEW y \in Int, y = a + M * q
                   PROVE  y % M = a
<1> DEFINE p == y \div M
<1>1. p \in Int /\ y % M \in 0 .. M - 1 /\ y = M * p + (y % M) BY Divided
<1>2. M * p \in Int /\ M * q \in Int BY <1>1, SMTT(30)
<1> HIDE DEF p
<1>3. M * p - M * q < M /\ M * q - M * p < M BY <1>1, <1>2
<1>4. p = q BY <1>1, <1>3, Multiples
<1> QED BY <1>1, <1>2, <1>4

-----------------------------------------------------------------------------
(* Sequence number k of the stream that began with number i; the states a  *)
(* socket of this link is ever in; sockets, segments and queues of them.    *)
Num(i, k) == Word32(i + k)
Words == 0 .. SeqSpace - 1
Reached == {STATE_CLOSED, STATE_LISTEN, STATE_NOTINIT, STATE_SYN_SENT, STATE_SYN_RECEIVED,
            STATE_ESTABLISHED, STATE_CLOSING, STATE_LAST_ACK, STATE_TIME_WAIT}
Socket == [st : Reached, par : BOOLEAN, ip : BOOLEAN, own : BOOLEAN, dfree : BOOLEAN,
           seq : Words, ack : Words, flags : SUBSET Flags, dlen : Int, wcount : Int, base : Int,
           rcount : Int, taken : Int, most : Int, intact : BOOLEAN, exp : BOOLEAN, err : Int]
Segments == [fl : SUBSET Flags, seq : Words, ack : Words, dat : Int, len : Int]
Results == [c : Socket, out : Seq(Segments), up : BOOLEAN]
Queues(M) == IF Routed THEN SUBSET M ELSE Seq(M)

LEMMA Numbers ==
  /\ SeqSpace \in Nat \ {0} /\ LongSpace \in Nat \ {0} /\ SeqSpace <= LongSpace
  /\ \A x \in Int : Word32(x) \in Words /\ ULong(x) \in 0 .. LongSpace - 1
  /\ \A x, n \in Int : Word32(Word32(x) + n) = Word32(x + n)
  /\ \A x, y \in Int : Word32(x) = Word32(y) /\ x - y < SeqSpace /\ y - x < SeqSpace => x = y
  /\ \A x \in Words : Word32(x) = x
<1>1. SeqSpace \in Nat \ {0} /\ LongSpace \in Nat \ {0} /\ SeqSpace <= LongSpace
  BY TcpAssumption
<1>2. ASSUME NEW x \in Int PROVE Word32(x) \in Words /\ ULong(x) \in 0 .. LongSpace - 1
  BY <1>1, Divided DEF Word32, ULong, Words
<1>3. ASSUME NEW x \in Int, NEW n \in Int PROVE Word32(Word32(x) + n) = Word32(x + n)
  BY <1>1, ModAdd DEF Word32
<1>4. ASSUME NEW x \in Int, NEW y \in Int, Word32(x) = Word32(y), x - y < SeqSpace, y - x < SeqSpace
      PROVE  x = y
  <2>1. x % SeqSpace = y % SeqSpace BY <1>4 DEF Word32
  <2>2. x - y < SeqSpace /\ y - x < SeqSpace BY <1>4
  <2>3. SeqSpace \in Nat \ {0} BY <1>1
  <2> QED BY <2>1, <2>2, <2>3, NearEqual
<1>5. ASSUME NEW x \in Words PROVE Word32(x) = x
  BY <1>1, Small DEF Word32, Words
<1> QED BY <1>1, <1>2, <1>3, <1>4, <1>5

(* Values that handlers put into a socket.                                  *)
LEMMA Known ==
  /\ 0 \in Int /\ 1 \in Int /\ MaxErr - 1 \in Int
  /\ STATE_CLOSED \in Reached /\ STATE_LISTEN \in Reached /\ STATE_SYN_SENT \in Reached
  /\ STATE_SYN_RECEIVED \in Reached /\ STATE_ESTABLISHED \in Reached /\ STATE_CLOSING \in Reached
  /\ STATE_LAST_ACK \in Reached /\ STATE_TIME_WAIT \in Reached
  /\ {} \in SUBSET Flags /\ {ACK} \in SUBSET Flags /\ {PSH, ACK} \in SUBSET Flags
  /\ {ACK, FIN} \in SUBSET Flags /\ {SYN, ACK} \in SUBSET Flags /\ {RST} \in SUBSET Flags
  /\ {SYN} \in SUBSET Flags
<1>1. MaxErr - 1 \in Int BY TcpAssumption
<1>2. {} \in SUBSET Flags /\ {ACK} \in SUBSET Flags /\ {PSH, ACK} \in SUBSET Flags
      /\ {ACK, FIN} \in SUBSET Flags /\ {SYN, ACK} \in SUBSET Flags /\ {RST} \in SUBSET Flags
      /\ {SYN} \in SUBSET Flags
  BY DEF Flags
<1> QED BY <1>1, <1>2 DEF Reached

(* What sendsocket does with n bytes: the socket after, and the segment.     *)
Sent(c, n, e) ==
  [c |-> [c EXCEPT !.dlen = c.dlen + n, !.exp = e],
   out |-> IF c.ip
           THEN <<[fl |-> c.flags, seq |-> IF n = 0 THEN c.seq ELSE Word32(c.seq + c.dlen),
                   ack |-> c.ack, dat |-> IF n = 0 THEN 0 ELSE c.base + c.dlen, len |-> n]>>
           ELSE << >>,
   up |-> c.ip]

(* It sends what there is, in the four states in which data may leave.      *)
LEMMA Sends ==
  ASSUME NEW c \in Socket
  PROVE  /\ SendSocket(c) \in Results
         /\ \E n \in Int, e \in BOOLEAN :
              /\ SendSocket(c) = Sent(c, n, e)
              /\ n # 0 => /\ c.st \in {STATE_SYN_SENT, STATE_SYN_RECEIVED, STATE_ESTABLISHED, STATE_CLOSING}
                         /\ c.wcount # c.dlen /\ n <= c.wcount - c.dlen
                         /\ (c.wcount > c.dlen => n > 0)
<1> DEFINE unsent == Unsent(c)
           more == MayPush(c)
           n == Portion(c)
           e == IF more THEN TRUE ELSE c.exp
           d == IF more THEN [c EXCEPT !.seq = Word32(@ + c.dlen),
                                  !.dlen = @ + n, !.exp = TRUE]
                   ELSE c
           dat == IF n = 0 THEN 0 ELSE c.base + c.dlen
           b == [c EXCEPT !.dlen = c.dlen + n, !.exp = e]
           m == [fl |-> c.flags, seq |-> d.seq, ack |-> c.ack, dat |-> dat, len |-> n]
<1>1. c.st \in Nat /\ c.wcount \in Int /\ c.dlen \in Int /\ unsent \in Int /\ Mss \in Nat \ {0}
      /\ unsent = c.wcount - c.dlen /\ c.seq \in Int /\ c.base \in Int /\ c.flags \in SUBSET Flags /\ c.ack \in Words /\ c.seq \in Words
      /\ c.ip \in BOOLEAN
      /\ c.st \in Reached
  BY TcpAssumption DEF Socket, Words, Reached, Unsent
<1>2. n \in Int BY <1>1 DEF Portion
<1>3. SendSocket(c) = [FastTcpPack(d, c.flags, c.st, dat, n) EXCEPT !.c.seq = c.seq]
  BY Zenon DEF SendSocket
<1>23. more => unsent # 0 BY DEF MayPush
<1>4. n # 0 => more BY <1>1 DEF Portion
<1>5. more => n <= unsent /\ (unsent > 0 => n > 0) BY <1>1 DEF Portion
<1>6. n = 0 => ~more BY <1>1, <1>23 DEF Portion
<1>7. Word32(c.seq + c.dlen) \in Words
  <2>1. c.seq + c.dlen \in Int BY <1>1
  <2> QED BY <2>1, Numbers
<1>8. more => c.st > STATE_UDP /\ c.st < STATE_FINWAIT1 BY DEF MayPush
<1> HIDE DEF n, more, unsent
<1>9. d \in Socket /\ d.ip = c.ip /\ d.ack = c.ack
      /\ d.seq = (IF n = 0 THEN c.seq ELSE Word32(c.seq + c.dlen))
  <2>1. CASE n = 0 
    <3>1. d = c BY <1>4, <1>6, <2>1
    <3> QED BY <3>1, <2>1
  <2>2. CASE n # 0
    <3>0. c.dlen + n \in Int BY <1>1, <1>2
    <3>1. d = [c EXCEPT !.seq = Word32(c.seq + c.dlen), !.dlen = c.dlen + n, !.exp = TRUE]
      BY <1>4, <1>6, <2>2 DEF Socket
    <3>2. d \in Socket BY <3>0, <3>1, <1>7 DEF Socket
    <3> QED BY <3>1, <2>2, <3>2 DEF Socket
  <2> QED BY <2>1, <2>2
<1>10. dat \in Int BY <1>1
<1>17. c.dlen + n \in Int BY <1>1, <1>2
<1>16. e \in BOOLEAN BY DEF Socket
<1>11. b \in Socket BY <1>17, <1>16 DEF Socket
<1> HIDE DEF dat
<1>12. FastTcpPack(d, c.flags, c.st, dat, n) =
         [c |-> [d EXCEPT !.flags = c.flags, !.st = c.st], out |-> IF c.ip THEN <<m>> ELSE << >>, up |-> c.ip]
  BY <1>9, <1>1 DEF FastTcpPack, Socket
<1>13. [[d EXCEPT !.flags = c.flags, !.st = c.st] EXCEPT !.seq = c.seq] = b
  <2>1. CASE n = 0
    <3>1. d = c /\ e = c.exp BY <1>4, <1>6, <2>1
    <3>2. c.dlen + n = c.dlen BY <2>1, <1>1
    <3>3. b = [c EXCEPT !.dlen = c.dlen, !.exp = c.exp] BY <3>1, <3>2
    <3> QED BY <3>1, <3>3 DEF Socket
  <2>2. CASE n # 0
    <3>1. d = [c EXCEPT !.seq = Word32(c.seq + c.dlen), !.dlen = c.dlen + n, !.exp = TRUE] /\ e = TRUE
      BY <1>4, <1>6, <2>2 DEF Socket
    <3> QED BY <3>1 DEF Socket
  <2> QED BY <2>1, <2>2
<1> DEFINE r == [c |-> [d EXCEPT !.flags = c.flags, !.st = c.st], out |-> IF c.ip THEN <<m>> ELSE << >>, up |-> c.ip]
<1>18. [r EXCEPT !.c.seq = c.seq] = [c |-> [[d EXCEPT !.flags = c.flags, !.st = c.st] EXCEPT !.seq = c.seq], out |-> IF c.ip THEN <<m>> ELSE << >>, up |-> c.ip]
  OBVIOUS
<1>14. SendSocket(c) = [c |-> b, out |-> IF c.ip THEN <<m>> ELSE << >>, up |-> c.ip]
  BY <1>3, <1>12, <1>13, <1>18
<1>15. m \in Segments BY <1>1, <1>2, <1>7, <1>9, <1>10 DEF Segments
<1>20. SendSocket(c) \in Results BY <1>14, <1>15, <1>11, <1>1 DEF Results
<1>21. n # 0 => /\ c.st \in {STATE_SYN_SENT, STATE_SYN_RECEIVED, STATE_ESTABLISHED, STATE_CLOSING}
                 /\ unsent # 0 /\ n <= unsent
                 /\ (unsent > 0 => n > 0)
  BY <1>1, <1>4, <1>5, <1>8, <1>23 DEF Reached
<1>22. SendSocket(c) = Sent(c, n, e) BY <1>9, <1>14 DEF Sent, dat
<1> HIDE DEF e
<1> QED BY <1>2, <1>16, <1>20, <1>21, <1>22, <1>1 DEF unsent

(* Taking the data of a segment touches the receiving side only.            *)
LEMMA Takes ==
  ASSUME NEW c \in Socket, NEW m \in Segments
  PROVE  LET d == Take(c, m) IN
         /\ d \in Socket /\ d.st = c.st /\ d.par = c.par /\ d.ip = c.ip /\ d.seq = c.seq
         /\ d.flags = c.flags /\ d.base = c.base /\ d.dlen = c.dlen /\ d.wcount = c.wcount
         /\ m.len = 0 => d = c
         /\ m.len # 0 =>
              /\ d.ack = Word32(c.ack + m.len) /\ d.taken = c.taken + m.len
              /\ d.most = (IF c.most > c.taken + m.len THEN c.most ELSE c.taken + m.len)
              /\ c.intact /\ m.dat = c.taken => d.intact
<1> DEFINE d == Take(c, m)
<1>1. CASE m.len = 0 BY <1>1 DEF Take
<1>2. CASE m.len # 0
  <2> DEFINE mo == IF c.most > c.taken + m.len THEN c.most ELSE c.taken + m.len
  <2>1. PICK b \in BOOLEAN : b = (c.intact /\ m.dat = c.taken) OBVIOUS
  <2>2. d = [c EXCEPT !.ack = Word32(c.ack + m.len), !.rcount = c.rcount + m.len,
                 !.taken = c.taken + m.len, !.most = mo, !.intact = b]
    BY <1>2, <2>1 DEF Take, Socket
  <2>3. c.ack \in Int /\ m.len \in Int /\ c.rcount \in Int /\ c.taken \in Int /\ c.most \in Int
    BY DEF Socket, Segments, Words
  <2>4. c.rcount + m.len \in Int /\ c.taken + m.len \in Int /\ mo \in Int /\ c.ack + m.len \in Int BY <2>3
  <2>5. Word32(c.ack + m.len) \in Words BY <2>4, Numbers
  <2> HIDE DEF d, mo
  <2>6. d \in Socket BY <2>2, <2>4, <2>5, Zenon DEF Socket
  <2>7. /\ d.st = c.st /\ d.par = c.par /\ d.ip = c.ip /\ d.seq = c.seq
        /\ d.flags = c.flags /\ d.base = c.base /\ d.dlen = c.dlen /\ d.wcount = c.wcount
        /\ d.ack = Word32(c.ack + m.len) /\ d.taken = c.taken + m.len /\ d.most = mo /\ d.intact = b
    BY <2>2, Zenon DEF Socket
  <2> QED BY <1>2, <2>1, <2>6, <2>7 DEF d, mo
<1> QED BY <1>1, <1>2

-----------------------------------------------------------------------------
(* The client.  It sends with the numbers of the stream that began with i,  *)
(* counts no more in flight than it has buffered, no more buffered than was *)
(* written, has let nothing go beyond what the server ever accepted (most), *)
(* and sends its FIN only in states that acknowledgements no longer move.   *)
Quiet == Total[Server] = 0
Past(c) == c.st \in {STATE_CLOSED, STATE_CLOSING, STATE_LAST_ACK, STATE_TIME_WAIT}

Sender(i, c, w, most) ==
  /\ c \in Socket /\ ~c.par /\ c.st \notin {STATE_LISTEN, STATE_NOTINIT}
  /\ c.st \in {STATE_SYN_SENT, STATE_SYN_RECEIVED} =>
       c.seq = i /\ c.base = 0 /\ c.wcount = 0 /\ c.dlen = 0
  /\ c.st \in {STATE_ESTABLISHED, STATE_CLOSING} =>
       /\ c.seq = Num(i, 1 + c.base) 
       /\ 0 <= c.dlen /\ c.dlen <= c.wcount /\ c.wcount <= MaxTailW /\ c.base + c.wcount <= w
  /\ c.st \in {STATE_ESTABLISHED, STATE_CLOSING, STATE_LAST_ACK, STATE_TIME_WAIT} => SYN \notin c.flags
  /\ c.st \in {STATE_SYN_SENT, STATE_SYN_RECEIVED, STATE_ESTABLISHED} => FIN \notin c.flags
  /\ 0 <= c.base /\ c.base <= most
  /\ Quiet => c.intact /\ c.most = 0

FromClient(i, w, past) ==
  {m \in Segments :
     RST \notin m.fl =>
       /\ SYN \in m.fl => m.seq = i /\ m.len = 0
       /\ SYN \notin m.fl /\ m.len # 0 =>
            m.dat >= 0 /\ m.len > 0 /\ m.dat + m.len <= w /\ m.seq = Num(i, 1 + m.dat)
       /\ FIN \in m.fl => past}

Client1(i, r, w, most) ==
  r \in Results /\ Sender(i, r.c, w, most) /\ r.out \in Seq(FromClient(i, w, Past(r.c)))

(* The fields Sender looks at.                                              *)
Alike(c, d) ==
  /\ d \in Socket /\ d.st = c.st /\ d.par = c.par /\ d.seq = c.seq /\ d.flags = c.flags /\ d.base = c.base
  /\ d.dlen = c.dlen /\ d.wcount = c.wcount
  /\ Quiet => (c.intact => d.intact) /\ d.most = c.most

LEMMA ClientSends ==
  ASSUME NEW i \in Words, NEW w \in Nat, NEW most \in Int, NEW c, Sender(i, c, w, most), c.st # STATE_CLOSED
  PROVE  /\ Client1(i, SendSocket(c), w, most)
         /\ SendSocket(c).c.st = c.st /\ SendSocket(c).c.flags = c.flags
<1> DEFINE r == SendSocket(c)
<1>1. c \in Socket BY DEF Sender
<1>2. PICK n \in Int, e \in BOOLEAN :
         /\ r = Sent(c, n, e)
         /\ n # 0 => /\ c.st \in {STATE_SYN_SENT, STATE_SYN_RECEIVED, STATE_ESTABLISHED, STATE_CLOSING}
                    /\ c.wcount # c.dlen /\ n <= c.wcount - c.dlen
                    /\ (c.wcount > c.dlen => n > 0)
  BY <1>1, Sends
<1>3. r \in Results BY <1>1, Sends
<1> HIDE DEF r
<1>4. r.c = [c EXCEPT !.dlen = c.dlen + n, !.exp = e] /\ r.up = c.ip BY <1>2 DEF Sent
<1>5. c.dlen \in Int /\ c.wcount \in Int /\ c.base \in Int /\ c.seq \in Words /\ c.flags \in SUBSET Flags
  BY <1>1 DEF Socket
<1>6. n # 0 => /\ c.st \in {STATE_ESTABLISHED, STATE_CLOSING}
               /\ 0 < n /\ c.dlen + n <= c.wcount
               /\ c.seq = Num(i, 1 + c.base) /\ 0 <= c.dlen /\ c.base + c.wcount <= w
               /\ SYN \notin c.flags
  BY <1>2, <1>5 DEF Sender
<1>7. Sender(i, r.c, w, most)
  <2>1. r.c \in Socket BY <1>3 DEF Results
  <2>2. /\ r.c.st = c.st /\ r.c.par = c.par /\ r.c.seq = c.seq /\ r.c.flags = c.flags /\ r.c.base = c.base
        /\ r.c.dlen = c.dlen + n /\ r.c.wcount = c.wcount /\ r.c.intact = c.intact /\ r.c.most = c.most
    BY <1>4, <1>1 DEF Socket
  <2>3. CASE n = 0
    <3>1. r.c.dlen = c.dlen BY <2>2, <2>3, <1>5
    <3> QED BY <2>1, <2>2, <3>1 DEF Sender
  <2>4. CASE n # 0
    <3>1. 0 <= c.dlen + n BY <1>6, <1>5, <2>4
    <3> QED BY <2>1, <2>2, <3>1, <1>6, <2>4 DEF Sender
  <2> QED BY <2>3, <2>4
<1>8. r.out \in Seq(FromClient(i, w, Past(r.c)))
  <2>1. CASE ~c.ip
    <3>1. r.out = << >> BY <1>2, <2>1 DEF Sent
    <3> QED BY <3>1
  <2>2. CASE c.ip
    <3> DEFINE m == [fl |-> c.flags, seq |-> IF n = 0 THEN c.seq ELSE Word32(c.seq + c.dlen),
                     ack |-> c.ack, dat |-> IF n = 0 THEN 0 ELSE c.base + c.dlen, len |-> n]
    <3>1. r.out = << m >> BY <1>2, <2>2 DEF Sent
    <3>2. m \in Segments
      <4>1. m = r.out[1] BY <3>1
      <4>2. r.out \in Seq(Segments) BY <1>3 DEF Results
      <4> QED BY <4>1, <4>2, <3>1
    <3>3. n # 0 => m.seq = Num(i, 1 + m.dat) /\ m.dat >= 0 /\ m.dat + m.len <= w
      <4>1. CASE n # 0
        <5>1. m.dat = c.base + c.dlen /\ m.seq = Word32(Word32(i + (1 + c.base)) + c.dlen) /\ m.len = n
          BY <4>1, <1>6 DEF Num
        <5>2. i \in Int BY Numbers DEF Words
        <5>7. i + (1 + c.base) \in Int BY <5>2, <1>5
        <5>3. m.seq = Word32((i + (1 + c.base)) + c.dlen) BY <5>1, <5>7, <1>5, Numbers
        <5>4. (i + (1 + c.base)) + c.dlen = i + (1 + m.dat) BY <5>1, <5>2, <1>5
        <5>5. m.seq = Num(i, 1 + m.dat) BY <5>3, <5>4 DEF Num
        <5>6. m.dat >= 0 /\ m.dat + m.len <= w BY <5>1, <1>6, <1>5, <4>1 DEF Sender
        <5> QED BY <5>5, <5>6
      <4> QED BY <4>1
    <3>4. FIN \in c.flags => Past(c)
      BY <1>1 DEF Past, Sender, Socket, Reached
    <3>5. SYN \in c.flags => c.seq = i /\ n = 0
      <4>1. SYN \in c.flags => n = 0 BY <1>6
      <4>2. SYN \in c.flags => c.seq = i BY <1>1 DEF Sender, Socket, Reached
      <4> QED BY <4>1, <4>2
    <3>7. r.c.st = c.st BY <1>4, <1>1 DEF Socket
    <3>8. m.fl = c.flags /\ m.len = n /\ (n = 0 => m.seq = c.seq) OBVIOUS
    <3> HIDE DEF m
    <3>6. m \in FromClient(i, w, Past(r.c))
      BY <3>2, <3>3, <3>4, <3>5, <3>7, <3>8, <1>6 DEF FromClient, Past
    <3> QED BY <3>1, <3>6
  <2> QED BY <2>1, <2>2
<1>9. r.c.st = c.st /\ r.c.flags = c.flags BY <1>1, <1>4 DEF Socket
<1> QED BY <1>3, <1>7, <1>8, <1>9 DEF Client1, r

LEMMA Alikes ==
  ASSUME NEW i, NEW w, NEW most, NEW c, NEW d, Sender(i, c, w, most), Alike(c, d)
  PROVE  Sender(i, d, w, most) /\ Past(d) = Past(c)
BY DEF Sender, Alike, Past

LEMMA Retouched ==
  ASSUME NEW i, NEW w, NEW most, NEW r, NEW d, Client1(i, r, w, most), Alike(r.c, d)
  PROVE  Client1(i, [r EXCEPT !.c = d], w, most)
<1>1. Sender(i, d, w, most) /\ Past(d) = Past(r.c) BY Alikes DEF Client1
<1>2. [r EXCEPT !.c = d] = [c |-> d, out |-> r.out, up |-> r.up] BY DEF Client1, Results
<1>3. [r EXCEPT !.c = d] \in Results BY <1>2 DEF Client1, Results, Alike
<1> QED BY <1>1, <1>2, <1>3 DEF Client1

LEMMA Dones ==
  ASSUME NEW i, NEW w, NEW most, NEW c, Sender(i, c, w, most)
  PROVE  Client1(i, Done(c), w, most) /\ Done(c).c = c
BY DEF Client1, Done, Results, Sender

LEMMA ClientResets ==
  ASSUME NEW i \in Words, NEW w \in Nat, NEW most \in Int, NEW c, Sender(i, c, w, most)
  PROVE  /\ Client1(i, Done([Nuke(c) EXCEPT !.dlen = 0]), w, most) /\ Client1(i, Done(Nuke(c)), w, most)
         /\ Past(Nuke(c))
         /\ Client1(i, TcpRst([c EXCEPT !.dlen = 0, !.wcount = 0, !.rcount = 0]), w, most)
<1> DEFINE d == Nuke(c)
           e == [d EXCEPT !.dlen = 0]
           z == [c EXCEPT !.dlen = 0, !.wcount = 0, !.rcount = 0]
           f == [z EXCEPT !.flags = {RST}, !.st = STATE_CLOSED]
           m == [fl |-> {RST}, seq |-> c.seq, ack |-> c.ack, dat |-> 0, len |-> 0]
<1>1. c \in Socket BY DEF Sender
<1>2. ~c.par BY DEF Sender
<1>3. PICK b \in BOOLEAN : b = (c.dfree \/ ~c.own) OBVIOUS
<1>4. d = [c EXCEPT !.st = STATE_CLOSED, !.own = FALSE, !.dfree = b,
                    !.wcount = 0, !.rcount = 0, !.exp = FALSE]
  BY <1>1, <1>2, <1>3 DEF Nuke, Socket
<1> HIDE DEF d
<1>5. d \in Socket BY <1>1, <1>4, Known, ZenonT(40) DEF Socket
<1>6. e \in Socket BY <1>5, Known, Zenon DEF Socket
<1>7. z \in Socket BY <1>1, Known, Zenon DEF Socket
<1>8. f \in Socket BY <1>7, Known, Zenon DEF Socket
<1>20. d.st = STATE_CLOSED /\ d.base = c.base /\ d.par = c.par /\ d.intact = c.intact /\ d.most = c.most
  BY <1>1, <1>4, Zenon DEF Socket
<1>21. e.st = d.st /\ e.base = d.base /\ e.par = d.par /\ e.intact = d.intact /\ e.most = d.most
  BY <1>5, Zenon DEF Socket
<1>9. /\ d.st = STATE_CLOSED /\ d.base = c.base /\ d.par = c.par /\ d.intact = c.intact /\ d.most = c.most
      /\ e.st = STATE_CLOSED /\ e.base = c.base /\ e.par = c.par /\ e.intact = c.intact /\ e.most = c.most
  BY <1>20, <1>21
<1>10. /\ f.st = STATE_CLOSED /\ f.base = c.base /\ f.par = c.par /\ f.intact = c.intact /\ f.most = c.most
  BY <1>1, <1>7, Zenon DEF Socket
<1>11. TcpRst(z) = [c |-> f, out |-> IF c.ip THEN << m >> ELSE << >>, up |-> c.ip]
  BY <1>1 DEF TcpRst, FastTcpPack, Socket
<1>12. m \in FromClient(i, w, Past(f)) /\ m \in Segments
  BY <1>1, Known DEF Socket, Segments, FromClient
<1>13. c.ip \in BOOLEAN BY <1>1 DEF Socket
<1> HIDE DEF e, f, m, z
<1>14. Sender(i, d, w, most) /\ Sender(i, e, w, most) BY <1>5, <1>6, <1>9 DEF Sender
<1>15. Sender(i, f, w, most) BY <1>8, <1>10 DEF Sender
<1>16. (IF c.ip THEN << m >> ELSE << >>) \in Seq(Segments)
       /\ (IF c.ip THEN << m >> ELSE << >>) \in Seq(FromClient(i, w, Past(f)))
  BY <1>12
<1>17. Client1(i, TcpRst(z), w, most) BY <1>8, <1>11, <1>13, <1>15, <1>16 DEF Client1, Results
<1>18. Past(d) BY <1>9 DEF Past
<1> QED BY <1>14, <1>17, <1>18, Dones DEF d, e, z

(* What processtcpdata does in ESTABLISHED.                                 *)
LEMMA Processed ==
  ASSUME NEW c, c.st = STATE_ESTABLISHED, NEW m
  PROVE  LET d == Take(c, m)
             e == [d EXCEPT !.ack = Word32(@ + 1), !.st = STATE_CLOSING, !.exp = TRUE]
             f == IF FIN \notin m.fl THEN d ELSE e
         IN  ProcessTcpData(c, m) = IF ~Exact(c, m) THEN SendSocket(c)
                                    ELSE IF m.len > 0 \/ f.st # c.st THEN SendSocket(f) ELSE Done(f)
<1> DEFINE d == Take(c, m)
           e == [d EXCEPT !.ack = Word32(@ + 1), !.st = STATE_CLOSING, !.exp = TRUE]
           f == IF FIN \notin m.fl THEN d ELSE e
<1>13. c.st = STATE_ESTABLISHED OBVIOUS
<1> HIDE DEF d, e
<1>11. ProcessTcpData(c, m) = IF ~Exact(c, m) THEN SendSocket(c)
                              ELSE IF m.len > 0 \/ f.st # c.st THEN SendSocket(f) ELSE Done(f)
  <2> DEFINE x == [d EXCEPT !.ack = Word32(@ + 1), !.st = STATE_TIME_WAIT, !.exp = TRUE, !.flags = {ACK}]
             y == [d EXCEPT !.ack = Word32(@ + 1), !.st = STATE_CLOSING, !.exp = TRUE, !.flags = {ACK, FIN}]
             z == [d EXCEPT !.ack = Word32(@ + 1)]
             g == IF FIN \notin m.fl THEN d ELSE
                  CASE c.st = STATE_FINWAIT2 -> x
                    [] c.st = STATE_ESTABLISHED -> e
                    [] c.st = STATE_FINWAIT1 /\ ACK \notin m.fl -> y
                    [] OTHER -> z
             h == [d EXCEPT !.exp = TRUE, !.flags = {ACK}, !.st = STATE_FINWAIT2]
  <2> HIDE DEF x, y, z
  <2>1. g = f BY <1>13
  <2> USE DEF x, y, z
  <2>2. ProcessTcpData(c, m) =
          IF ~Exact(c, m) THEN SendSocket(c)
          ELSE IF c.st = STATE_FINWAIT1 /\ (FIN \notin m.fl \/ ACK \in m.fl) THEN Done(h)
          ELSE IF m.len > 0 \/ g.st # c.st \/ c.st = STATE_FINWAIT1 THEN SendSocket(g) ELSE Done(g)
    BY Zenon DEF ProcessTcpData, d, e
  <2> HIDE DEF f, g, h
  <2> QED BY <2>1, <2>2, <1>13
<1> QED BY <1>11 DEF d, e

LEMMA ClientData ==
  ASSUME NEW i \in Words, NEW w \in Nat, NEW most \in Int, NEW c, Sender(i, c, w, most),
         c.st = STATE_ESTABLISHED, NEW m \in Segments, Quiet => m.len = 0
  PROVE  Client1(i, ProcessTcpData(c, m), w, most)
<1> DEFINE d == Take(c, m)
           e == [d EXCEPT !.ack = Word32(@ + 1), !.st = STATE_CLOSING, !.exp = TRUE]
           f == IF FIN \notin m.fl THEN d ELSE e
<1>13. c.st = STATE_ESTABLISHED OBVIOUS
<1>1. c \in Socket BY DEF Sender
<1>2. d \in Socket /\ Alike(c, d)
  BY <1>1, Takes DEF Alike
<1> HIDE DEF d
<1>3. d.ack + 1 \in Int BY <1>2 DEF Socket, Words
<1>4. Word32(d.ack + 1) \in Words BY <1>3, Numbers
<1>5. e \in Socket BY <1>2, <1>4, Known, ZenonT(40) DEF Socket
<1>6. /\ e.st = STATE_CLOSING /\ e.par = d.par /\ e.seq = d.seq /\ e.flags = d.flags /\ e.base = d.base
      /\ e.dlen = d.dlen /\ e.wcount = d.wcount /\ e.intact = d.intact /\ e.most = d.most
  BY <1>2, Zenon DEF Socket
<1>7. Sender(i, d, w, most) BY <1>2, Alikes
<1>8. d.st = STATE_ESTABLISHED BY <1>2 DEF Alike
<1> HIDE DEF e
<1>9. Sender(i, e, w, most) BY <1>5, <1>6, <1>7, <1>8 DEF Sender
<1>10. Sender(i, f, w, most) /\ f.st # STATE_CLOSED BY <1>7, <1>9, <1>8, <1>6
<1>11. ProcessTcpData(c, m) = IF ~Exact(c, m) THEN SendSocket(c)
                              ELSE IF m.len > 0 \/ f.st # c.st THEN SendSocket(f) ELSE Done(f)
  BY <1>13, Processed DEF d, e
<1> HIDE DEF f
<1>12. c.st # STATE_CLOSED BY <1>13
<1>14. Client1(i, SendSocket(c), w, most) BY <1>12, ClientSends
<1>15. Client1(i, SendSocket(f), w, most) BY <1>10, ClientSends
<1>16. Client1(i, Done(f), w, most) BY <1>10, Dones
<1> QED BY <1>11, <1>14, <1>15, <1>16

(* An acknowledgement of bytes in flight names bytes the server has         *)
(* accepted, and lets go just those.                                        *)
Acked(i, a, most, past) == \E t \in 0 .. most : a = Num(i, 1 + t) \/ (past /\ a = Num(i, 2 + t))

FromServer(i, most, past) ==
  {m \in Segments : /\ RST \notin m.fl /\ ACK \in m.fl => Acked(i, m.ack, most, past)
                    /\ Quiet => m.len = 0}

Short == Total[Client] < SeqSpace /\ (LongSpace = SeqSpace \/ LongSpace >= 2 * SeqSpace)

(* Segment m leaves all but n of the bytes in flight unanswered.             *)
Answered(i, c, w, most, m, n) ==
  /\ Short /\ i \in Words /\ w \in 0 .. Total[Client] /\ most \in 0 .. Total[Client]
  /\ Sender(i, c, w, most) /\ c.st = STATE_ESTABLISHED /\ m \in Segments
  /\ Outstanding(c, m) <= c.dlen /\ n = c.dlen - Outstanding(c, m)
  /\ \E t \in 0 .. most : m.ack = Num(i, 1 + t)

LEMMA Releases ==
  ASSUME NEW i, NEW c, NEW w, NEW most, NEW m, NEW n, Answered(i, c, w, most, m, n)
  PROVE  Sender(i, Release(c, n), w, most) /\ Release(c, n).st = STATE_ESTABLISHED
<1> DEFINE S == SeqSpace  L == LongSpace
           left == Outstanding(c, m)
           d == Release(c, n)
           x == c.seq + c.dlen
           y == c.seq + n
<1>0. /\ Short /\ i \in Words /\ w \in 0 .. Total[Client] /\ most \in 0 .. Total[Client]
      /\ Sender(i, c, w, most) /\ c.st = STATE_ESTABLISHED /\ m \in Segments
  BY DEF Answered
<1>1. c \in Socket BY <1>0 DEF Sender
<1>2. c.seq \in Words /\ c.dlen \in Int /\ c.wcount \in Int /\ c.base \in Int /\ m.ack \in Words
      /\ i \in Words /\ Total[Client] \in Nat /\ w \in Int /\ most \in Int
  BY <1>0, <1>1, LinkAssumption DEF Socket, Segments, Host
<1>3. c.seq = Num(i, 1 + c.base) /\ 0 <= c.dlen /\ c.dlen <= c.wcount /\ c.base + c.wcount <= w
      /\ 0 <= c.base /\ c.wcount <= MaxTailW
  BY <1>0 DEF Sender
<1>4. S \in Nat \ {0} /\ L \in Nat \ {0} /\ (L = S \/ L >= 2 * S) /\ Total[Client] < S
  BY <1>0, TcpAssumption DEF Short
<1>5. c.seq \in Int /\ m.ack \in Int /\ i \in Int /\ x \in Int /\ c.seq \in 0 .. S - 1 /\ m.ack \in 0 .. S - 1
  BY <1>2, <1>4 DEF Words
<1>6. left = (x - m.ack) % L /\ left \in 0 .. L - 1
  <2>1. left = ((x % L) + (0 - m.ack)) % L
    <3>1. x % L \in Int BY <1>4, <1>5, Divided
    <3> QED BY <3>1, <1>5 DEF Outstanding, ULong
  <2>2. 0 - m.ack \in Int BY <1>5
  <2>3. left = (x + (0 - m.ack)) % L BY <2>1, <2>2, <1>4, <1>5, ModAdd
  <2>4. x + (0 - m.ack) = x - m.ack /\ x - m.ack \in Int BY <1>5
  <2>5. left = (x - m.ack) % L BY <2>3, <2>4
  <2> QED BY <2>5, <2>4, <1>4, Divided
<1>7. left <= c.dlen /\ n = c.dlen - left BY DEF Answered
<1> DEFINE q == (x - m.ack) \div L
<1>8. x - m.ack = L * q + left /\ q \in Int
  <2>1. x - m.ack \in Int BY <1>5
  <2> QED BY <2>1, <1>4, <1>6, Divided
<1> HIDE DEF q, left
<1>9. n \in 0 .. c.dlen /\ y \in Int /\ c.dlen < S BY <1>0, <1>2, <1>3, <1>4, <1>5, <1>6, <1>7
<1>10. L * q \in Int BY <1>4, <1>8, SMTT(30)
<1>11. y = m.ack + L * q BY <1>2, <1>5, <1>6, <1>7, <1>8, <1>9, <1>10
<1>12. y % S = m.ack
  <2>1. CASE L = S
    <3>1. y = m.ack + S * q BY <2>1, <1>11
    <3> HIDE DEF y
    <3>2. y \in Int /\ q \in Int /\ m.ack \in 0 .. S - 1 /\ S \in Nat \ {0} BY <1>4, <1>5, <1>8, <1>9
    <3> QED BY <3>1, <3>2, Remainder, ZenonT(30)
  <2>2. CASE L >= 2 * S
    <3>1. L * 0 = 0 /\ 0 \in Int BY <1>4, SMTT(30)
    <3>2. y - m.ack < 2 * S /\ m.ack - y < 2 * S BY <1>2, <1>5, <1>9, <1>4
    <3>3. L * q - L * 0 < L /\ L * 0 - L * q < L BY <3>1, <3>2, <1>11, <2>2, <1>10, <1>9, <1>4, <1>5
    <3>4. q = 0 BY <3>1, <3>3, <1>4, <1>8, Multiples
    <3>5. y = m.ack BY <3>4, <3>1, <1>11, <1>5
    <3> QED BY <3>5, <1>4, <1>5, Small
  <2> QED BY <2>1, <2>2, <1>4
<1>13. Word32(y) = Num(i, 1 + (c.base + n))
  <2>1. i + (1 + c.base) \in Int /\ n \in Int BY <1>2, <1>5, <1>9
  <2>4. c.seq = Word32(i + (1 + c.base)) BY <1>3 DEF Num
  <2>5. Word32(Word32(i + (1 + c.base)) + n) = Word32((i + (1 + c.base)) + n) BY <2>1, Numbers, Zenon
  <2>2. Word32(y) = Word32((i + (1 + c.base)) + n) BY <2>4, <2>5, Zenon DEF y
  <2>3. (i + (1 + c.base)) + n = i + (1 + (c.base + n)) BY <2>1, <1>2, <1>5
  <2> QED BY <2>2, <2>3 DEF Num
<1>14. PICK t \in 0 .. most : m.ack = Num(i, 1 + t) BY DEF Answered
<1>15. c.base + n = t
  <2>1. Word32(i + (1 + (c.base + n))) = Word32(i + (1 + t)) BY <1>12, <1>13, <1>14 DEF Num, Word32
  <2>2. c.base + n \in Int /\ 0 <= c.base + n /\ c.base + n <= w BY <1>2, <1>3, <1>9
  <2>3. t \in Int /\ 0 <= t /\ t <= Total[Client] BY <1>0, <1>2
  <2>4. w <= Total[Client] BY <1>0, <1>2
  <2> DEFINE u == i + (1 + (c.base + n))  v == i + (1 + t)
  <2>5. u \in Int /\ v \in Int /\ u - v < SeqSpace /\ v - u < SeqSpace BY <2>2, <2>3, <2>4, <1>2, <1>4, <1>5
  <2>6. Word32(u) = Word32(v) BY <2>1
  <2> HIDE DEF u, v
  <2>7. u = v BY <2>5, <2>6, Numbers
  <2> QED BY <2>7, <2>2, <2>3, <1>5 DEF u, v
<1>16. c.base + n <= most BY <1>15, <1>2
<1>17. PICK b \in BOOLEAN : b = (c.dlen # n) OBVIOUS
<1>18. Word32(y) \in Words BY <1>9, Numbers
<1>19. d = [c EXCEPT !.flags = {ACK}, !.err = 0, !.wcount = c.wcount - n, !.dlen = c.dlen - n,
                     !.base = c.base + n, !.seq = Word32(y), !.exp = b]
  BY <1>1, <1>17 DEF Release, Socket
<1>20. c.wcount - n \in Int /\ c.dlen - n \in Int /\ c.base + n \in Int BY <1>2, <1>9
<1> HIDE DEF d, y
<1>21. d \in Socket BY <1>1, <1>18, <1>19, <1>20, Known, ZenonT(40) DEF Socket
<1>22. /\ d.flags = {ACK} /\ d.wcount = c.wcount - n /\ d.dlen = c.dlen - n /\ d.base = c.base + n
       /\ d.seq = Word32(y) /\ d.st = c.st /\ d.par = c.par /\ d.intact = c.intact /\ d.most = c.most
  BY <1>1, <1>19, Zenon DEF Socket
<1>23. /\ 0 <= d.dlen /\ d.dlen <= d.wcount /\ d.wcount <= MaxTailW /\ d.base + d.wcount <= w
       /\ 0 <= d.base /\ d.base <= most
  BY <1>22, <1>3, <1>9, <1>16, <1>2, TcpAssumption
<1>24. d.st = STATE_ESTABLISHED BY <1>0, <1>22
<1>25. d.seq = Num(i, 1 + d.base) BY <1>22, <1>13
<1>26. SYN \notin d.flags /\ FIN \notin d.flags BY <1>22
<1>27. ~d.par /\ (Quiet => d.intact /\ d.most = 0) BY <1>0, <1>22 DEF Sender
<1>28. Sender(i, d, w, most) BY <1>21, <1>23, <1>24, <1>25, <1>26, <1>27 DEF Sender
<1> QED BY <1>28, <1>24 DEF d, left

(* Answers of reset, and one operation after another.                       *)
LEMMA Answers ==
  ASSUME NEW i, NEW w, NEW past, NEW m \in Segments
  PROVE  RstSpecial(m) \in Seq(Segments) /\ RstSpecial(m) \in Seq(FromClient(i, w, past))
<1> DEFINE a == [fl |-> {RST}, seq |-> m.ack, ack |-> m.seq, dat |-> 0, len |-> 0]
<1>1. a \in Segments BY Known DEF Segments
<1>2. RST \in a.fl OBVIOUS
<1>3. RstSpecial(m) = << a >> BY DEF RstSpecial
<1> HIDE DEF a
<1>4. a \in FromClient(i, w, past) BY <1>1, <1>2 DEF FromClient
<1> QED BY <1>1, <1>3, <1>4

LEMMA Further ==
  ASSUME NEW i, NEW w, NEW most, NEW r, Client1(i, r, w, most),
         NEW s, s \in Seq(Segments), s \in Seq(FromClient(i, w, Past(r.c)))
  PROVE  Client1(i, [r EXCEPT !.out = s \o @], w, most)
<1>1. r = [c |-> r.c, out |-> r.out, up |-> r.up] /\ r \in Results BY DEF Client1, Results
<1>2. [r EXCEPT !.out = s \o @] = [c |-> r.c, out |-> s \o r.out, up |-> r.up]
  <2> DEFINE q == s \o r.out
  <2>1. [r EXCEPT !.out = s \o @] = [r EXCEPT !.out = q] OBVIOUS
  <2> HIDE DEF q
  <2>2. [r EXCEPT !.out = q] = [c |-> r.c, out |-> q, up |-> r.up] BY <1>1 DEF Results
  <2> QED BY <2>1, <2>2 DEF q
<1>3. s \o r.out \in Seq(Segments) /\ s \o r.out \in Seq(FromClient(i, w, Past(r.c)))
  BY <1>1 DEF Client1, Results
<1>4. [r EXCEPT !.out = s \o @] \in Results BY <1>1, <1>2, <1>3 DEF Results
<1> QED BY <1>2, <1>3, <1>4 DEF Client1

LEMMA Wider ==
  /\ \A i, w, past : FromClient(i, w, past) \subseteq FromClient(i, w, TRUE)
  /\ \A i, w, past : FromClient(i, w, FALSE) \subseteq FromClient(i, w, past)
  /\ \A A, B : A \subseteq B => Seq(A) \subseteq Seq(B)
BY DEF FromClient

LEMMA Then ==
  ASSUME NEW i, NEW w, NEW most, NEW r, Client1(i, r, w, most), NEW t, Client1(i, t, w, most),
         Past(r.c) => Past(t.c)
  PROVE  Client1(i, [c |-> t.c, out |-> r.out \o t.out, up |-> r.up /\ t.up], w, most)
<1>1. r \in Results /\ t \in Results BY DEF Client1
<1>2. r.out \o t.out \in Seq(Segments) BY <1>1 DEF Results
<1>3. Past(r.c) \in BOOLEAN /\ Past(t.c) \in BOOLEAN BY DEF Past
<1>4. FromClient(i, w, Past(r.c)) \subseteq FromClient(i, w, Past(t.c))
  BY <1>3 DEF FromClient
<1>5. r.out \in Seq(FromClient(i, w, Past(t.c))) BY <1>4, Wider DEF Client1
<1>6. t.out \in Seq(FromClient(i, w, Past(t.c))) BY DEF Client1
<1>7. r.out \o t.out \in Seq(FromClient(i, w, Past(t.c))) BY <1>5, <1>6
<1>8. PICK u \in BOOLEAN : u = (r.up /\ t.up) OBVIOUS
<1> QED BY <1>1, <1>2, <1>7, <1>8 DEF Client1, Results

-----------------------------------------------------------------------------
(* What the client makes of a segment from the server, state by state.      *)
ClientStep(i, c, r, w, most) == Client1(i, r, w, most) /\ (Past(c) => Past(r.c))

LEMMA ClientSynSent ==
  ASSUME NEW i \in Words, NEW w \in Nat, NEW most \in Int, NEW c, Sender(i, c, w, most),
         NEW m \in Segments, c.st = STATE_SYN_SENT
  PROVE  ClientStep(i, c, SynSentProc(c, m), w, most)
<1> DEFINE r == SendSocket(c)
           acked == ACK \in m.fl /\ m.ack = ULong(c.seq + 1)
           d == [c EXCEPT !.flags = {ACK}, !.err = 0]
           x == [d EXCEPT !.st = STATE_ESTABLISHED, !.seq = Word32(@ + 1),
                          !.ack = Word32(m.seq + 1), !.exp = FALSE]
           y == [d EXCEPT !.st = STATE_SYN_RECEIVED, !.ack = Word32(@ + 1)]
           e == IF acked THEN x ELSE y
<1>0. c.st = STATE_SYN_SENT OBVIOUS
<1>1. c \in Socket BY DEF Sender
<1>2. d \in Socket BY <1>1, Known, Zenon DEF Socket
<1>3. /\ d.flags = {ACK} /\ d.st = c.st /\ d.par = c.par /\ d.seq = c.seq /\ d.base = c.base /\ d.ack = c.ack
      /\ d.dlen = c.dlen /\ d.wcount = c.wcount /\ d.intact = c.intact /\ d.most = c.most
  BY <1>1, Zenon DEF Socket
<1> HIDE DEF d
<1>4. Word32(d.seq + 1) \in Words /\ Word32(d.ack + 1) \in Words /\ Word32(m.seq + 1) \in Words
  <2>1. d.seq + 1 \in Int /\ d.ack + 1 \in Int /\ m.seq + 1 \in Int BY <1>2 DEF Socket, Segments, Words
  <2> QED BY <2>1, Numbers
<1>5. x \in Socket /\ y \in Socket
  <2>1. STATE_ESTABLISHED \in Reached /\ STATE_SYN_RECEIVED \in Reached BY Known
  <2>2. x \in Socket BY <1>2, <1>4, <2>1, ZenonT(40) DEF Socket
  <2>3. y \in Socket BY <1>2, <1>4, <2>1, ZenonT(40) DEF Socket
  <2> QED BY <2>2, <2>3
<1>6. /\ x.flags = {ACK} /\ x.st = STATE_ESTABLISHED /\ x.par = c.par /\ x.seq = Word32(c.seq + 1)
      /\ x.base = c.base /\ x.dlen = c.dlen /\ x.wcount = c.wcount /\ x.intact = c.intact /\ x.most = c.most
  BY <1>2, <1>3, Zenon DEF Socket
<1>7. /\ y.flags = {ACK} /\ y.st = STATE_SYN_RECEIVED /\ y.par = c.par /\ y.seq = c.seq
      /\ y.base = c.base /\ y.dlen = c.dlen /\ y.wcount = c.wcount /\ y.intact = c.intact /\ y.most = c.most
  BY <1>2, <1>3, Zenon DEF Socket
<1> HIDE DEF x, y
<1>8. c.seq = i /\ c.base = 0 /\ c.wcount = 0 /\ c.dlen = 0 /\ ~c.par /\ (Quiet => c.intact /\ c.most = 0)
      /\ c.base <= most
  BY <1>0 DEF Sender
<1>9. Sender(i, x, w, most)
  <2>1. x.seq = Num(i, 1 + x.base) BY <1>6, <1>8 DEF Num
  <2>2. SYN \notin x.flags /\ FIN \notin x.flags BY <1>6
  <2>3. 0 <= MaxTailW BY TcpAssumption
  <2> QED BY <1>5, <1>6, <1>8, <2>1, <2>2, <2>3 DEF Sender
<1>10. Sender(i, y, w, most)
  <2>2. SYN \notin y.flags /\ FIN \notin y.flags BY <1>7
  <2> QED BY <1>5, <1>7, <1>8, <2>2 DEF Sender
<1>11. Sender(i, e, w, most) /\ e.st # STATE_CLOSED BY <1>6, <1>7, <1>9, <1>10
<1>12. Client1(i, SendSocket(e), w, most) BY <1>11, ClientSends
<1>13. Client1(i, r, w, most)
  <2>1. c.st # STATE_CLOSED BY <1>0
  <2> QED BY <2>1, ClientSends
<1> HIDE DEF r
<1>14. Client1(i, [r EXCEPT !.out = RstSpecial(m) \o @], w, most) BY <1>13, Answers, Further
<1>15. SynSentProc(c, m) = IF SYN \in m.fl THEN SendSocket(e) ELSE [r EXCEPT !.out = RstSpecial(m) \o @]
  BY Zenon DEF SynSentProc, d, x, y, r
<1>16. ~Past(c) BY <1>0 DEF Past
<1> HIDE DEF e
<1> QED BY <1>12, <1>14, <1>15, <1>16 DEF ClientStep

LEMMA ClientSynReceived ==
  ASSUME NEW i \in Words, NEW w \in Nat, NEW most \in Int, NEW c, Sender(i, c, w, most),
         NEW m, c.st = STATE_SYN_RECEIVED
  PROVE  ClientStep(i, c, SynReceivedProc(c, m), w, most)
<1> DEFINE Open(z) == Sender(i, z, w, most) /\ z.st = STATE_SYN_RECEIVED
           a == [c EXCEPT !.flags = {SYN, ACK}]
           r == SendSocket(a)
           s == [r EXCEPT !.c.err = 0, !.c.exp = TRUE]
           r1 == IF SYN \in m.fl THEN s ELSE Done(c)
           b == [r1.c EXCEPT !.flags = {ACK}]
           r2 == SendSocket(b)
           d == [r2.c EXCEPT !.seq = Word32(@ + 1), !.exp = FALSE, !.err = 0, !.st = STATE_ESTABLISHED]
           last == [c |-> d, out |-> r1.out \o r2.out, up |-> r1.up /\ r2.up]
<1>0. Open(c) OBVIOUS
<1>1. ASSUME NEW z, Open(z) PROVE ~Past(z) BY <1>1 DEF Past
<1>2. ASSUME NEW z, Open(z) PROVE Client1(i, SendSocket(z), w, most) /\ Open(SendSocket(z).c)
  <2>1. z \in Socket /\ z.st = STATE_SYN_RECEIVED BY <1>2 DEF Sender
  <2>2. z.st # STATE_CLOSED BY <2>1
  <2>3. Client1(i, SendSocket(z), w, most) /\ SendSocket(z).c.st = z.st BY <1>2, <2>2, ClientSends
  <2> QED BY <2>1, <2>3 DEF Client1
<1>3. ASSUME NEW z, Open(z), NEW f \in {{SYN, ACK}, {ACK}} PROVE Open([z EXCEPT !.flags = f])
  <2> DEFINE y == [z EXCEPT !.flags = f]
  <2>1. z \in Socket /\ f \in SUBSET Flags BY <1>3, Known DEF Sender
  <2>2. y \in Socket BY <2>1 DEF Socket
  <2>3. /\ y.st = z.st /\ y.par = z.par /\ y.seq = z.seq /\ y.base = z.base /\ y.dlen = z.dlen
        /\ y.wcount = z.wcount /\ y.intact = z.intact /\ y.most = z.most /\ y.flags = f
    BY <2>1 DEF Socket
  <2>4. FIN \notin y.flags BY <2>3
  <2> HIDE DEF y
  <2>5. Sender(i, y, w, most) BY <1>3, <2>2, <2>3, <2>4 DEF Sender
  <2> QED BY <1>3, <2>3, <2>5 DEF y
<1>4. ASSUME NEW z, Open(z) PROVE z \in Socket BY <1>4 DEF Sender
<1> HIDE DEF Open
<1>5. Open(a) BY <1>0, <1>3
<1> HIDE DEF a
<1>6. Client1(i, r, w, most) /\ Open(r.c) BY <1>5, <1>2
<1> HIDE DEF r
<1>7. Client1(i, s, w, most) /\ Open(s.c)
  <2> DEFINE z == [r.c EXCEPT !.err = 0, !.exp = TRUE]
  <2>1. r.c \in Socket BY <1>6, <1>4
  <2>2. z \in Socket BY <2>1, Known, Zenon DEF Socket
  <2>3. /\ z.st = r.c.st /\ z.par = r.c.par /\ z.seq = r.c.seq /\ z.base = r.c.base /\ z.dlen = r.c.dlen
        /\ z.wcount = r.c.wcount /\ z.intact = r.c.intact /\ z.most = r.c.most /\ z.flags = r.c.flags
    BY <2>1, Zenon DEF Socket
  <2>6. s = [r EXCEPT !.c = z] BY <1>6 DEF Client1, Results
  <2> HIDE DEF z
  <2>4. Alike(r.c, z) BY <2>2, <2>3 DEF Alike
  <2>5. Client1(i, [r EXCEPT !.c = z], w, most) BY <1>6, <2>4, Retouched
  <2>7. Client1(i, s, w, most) BY <2>5, <2>6
  <2>8. s.c = z BY <2>6, <1>6 DEF Client1, Results
  <2> HIDE DEF s
  <2>9. Open(s.c) BY <2>7, <2>8, <2>3, <1>6 DEF Open, Client1
  <2> QED BY <2>7, <2>9
<1> HIDE DEF s
<1>8. Client1(i, r1, w, most) /\ Open(r1.c)
  <2>1. Client1(i, Done(c), w, most) /\ Done(c).c = c BY Dones
  <2> QED BY <1>0, <1>7, <2>1
<1> HIDE DEF r1
<1>9. Open(b) BY <1>3, <1>8
<1> HIDE DEF b
<1>10. Client1(i, r2, w, most) /\ Open(r2.c) BY <1>2, <1>9
<1> HIDE DEF r2
<1>11. Client1(i, Done(d), w, most) /\ ~Past(d)
  <2>1. r2.c \in Socket BY <1>10, <1>4
  <2>2. Word32(r2.c.seq + 1) \in Words
    <3>1. r2.c.seq + 1 \in Int BY <2>1 DEF Socket, Words
    <3> QED BY <3>1, Numbers
  <2>3. d \in Socket BY <2>1, <2>2, Known, Zenon DEF Socket
  <2>4. /\ d.st = STATE_ESTABLISHED /\ d.par = r2.c.par /\ d.seq = Word32(r2.c.seq + 1) /\ d.base = r2.c.base
        /\ d.dlen = r2.c.dlen /\ d.wcount = r2.c.wcount /\ d.intact = r2.c.intact /\ d.most = r2.c.most
        /\ d.flags = r2.c.flags
    BY <2>1, Zenon DEF Socket
  <2> HIDE DEF d
  <2>5. r2.c.seq = i /\ r2.c.base = 0 /\ r2.c.wcount = 0 /\ r2.c.dlen = 0 /\ ~r2.c.par
        /\ (Quiet => r2.c.intact /\ r2.c.most = 0) /\ r2.c.base <= most /\ FIN \notin r2.c.flags
    BY <1>10 DEF Open, Sender
  <2>6. d.seq = Num(i, 1 + d.base) BY <2>4, <2>5 DEF Num
  <2>7. SYN \notin d.flags
    <3>1. r2.c.flags = b.flags
      <4>1. b.st # STATE_CLOSED /\ Sender(i, b, w, most) BY <1>9 DEF Open
      <4> QED BY <4>1, ClientSends DEF r2
    <3>2. r1.c \in Socket BY <1>8, <1>4
    <3>3. b.flags = {ACK} BY <3>2 DEF b, Socket
    <3> QED BY <3>1, <3>3, <2>4
  <2>9. 0 <= MaxTailW BY TcpAssumption
  <2>8. Sender(i, d, w, most) BY <2>3, <2>4, <2>5, <2>6, <2>7, <2>9 DEF Sender
  <2> QED BY <2>8, <2>4, Dones DEF Past
<1>12. Client1(i, [r2 EXCEPT !.c = d], w, most)
  <2>1. Sender(i, d, w, most) /\ Past(d) = Past(r2.c)
    <3>1. ~Past(r2.c) BY <1>10, <1>1 DEF Open
    <3>2. Past(d) \in BOOLEAN /\ Past(r2.c) \in BOOLEAN BY DEF Past
    <3>3. Done(d).c = d BY DEF Done
    <3> QED BY <1>11, <3>1, <3>2, <3>3 DEF Client1
  <2> HIDE DEF d
  <2>2. [r2 EXCEPT !.c = d] = [c |-> d, out |-> r2.out, up |-> r2.up] BY <1>10 DEF Client1, Results
  <2>3. [r2 EXCEPT !.c = d] \in Results BY <2>1, <2>2, <1>10 DEF Client1, Results, Sender
  <2> QED BY <2>1, <2>2, <2>3, <1>10 DEF Client1
<1> DEFINE t == [r2 EXCEPT !.c = d]
<1>13. t.c = d /\ t.out = r2.out /\ t.up = r2.up BY <1>10 DEF Client1, Results
<1>14. Past(r1.c) => Past(t.c) BY <1>8, <1>1 DEF Open
<1> HIDE DEF t, d
<1>15. Client1(i, last, w, most)
  <2>1. Client1(i, t, w, most) BY <1>12 DEF t
  <2>2. Client1(i, [c |-> t.c, out |-> r1.out \o t.out, up |-> r1.up /\ t.up], w, most)
    BY <1>8, <2>1, <1>14, Then
  <2> QED BY <2>2, <1>13
<1>16. SynReceivedProc(c, m) = IF ACK \in m.fl /\ m.ack = ULong(c.seq + 1) THEN last ELSE r1
  BY Zenon DEF SynReceivedProc, a, r, s, r1, b, r2, d
<1>17. ~Past(c) BY <1>0, <1>1 DEF Open
<1> HIDE DEF last
<1> QED BY <1>8, <1>15, <1>16, <1>17 DEF ClientStep

LEMMA ClientEstablished ==
  ASSUME Short, NEW i \in Words, NEW w \in 0 .. Total[Client], NEW most \in 0 .. Total[Client],
         NEW c, Sender(i, c, w, most), c.st = STATE_ESTABLISHED,
         NEW m \in FromServer(i, most, FALSE), RST \notin m.fl
  PROVE  ClientStep(i, c, EstablishedProc(c, m), w, most)
<1> DEFINE left == Outstanding(c, m)
           n == c.dlen - left
           e == Release(c, n)
           d == IF left <= c.dlen THEN e ELSE c
<1>1. w \in Nat /\ most \in Int BY LinkAssumption DEF Host
<1>2. m \in Segments /\ (ACK \in m.fl => Acked(i, m.ack, most, FALSE)) /\ (Quiet => m.len = 0)
  BY DEF FromServer
<1>3. Client1(i, Done(c), w, most) BY Dones
<1>4. ASSUME ACK \in m.fl PROVE Sender(i, d, w, most) /\ d.st = STATE_ESTABLISHED
  <2>1. CASE left <= c.dlen
    <3>1. Answered(i, c, w, most, m, n) BY <1>2, <1>4, <2>1 DEF Answered, Acked
    <3> HIDE DEF n
    <3>3. Sender(i, e, w, most) /\ e.st = STATE_ESTABLISHED BY <3>1, Releases, SMTT(30)
    <3> QED BY <2>1, <3>3
  <2>2. CASE ~(left <= c.dlen) BY <2>2
  <2> QED BY <2>1, <2>2
<1>5. EstablishedProc(c, m) = IF ACK \notin m.fl THEN Done(c)
                              ELSE IF m.fl # {ACK} \/ m.len > 0 THEN ProcessTcpData(d, m) ELSE Done(d)
  BY Zenon DEF EstablishedProc
<1> HIDE DEF d
<1>6. ASSUME ACK \in m.fl PROVE Client1(i, ProcessTcpData(d, m), w, most) /\ Client1(i, Done(d), w, most)
  <2>1. Client1(i, ProcessTcpData(d, m), w, most) BY <1>1, <1>2, <1>4, <1>6, ClientData
  <2> QED BY <2>1, <1>4, <1>6, Dones
<1>7. ~Past(c) BY DEF Past
<1> QED BY <1>3, <1>5, <1>6, <1>7 DEF ClientStep

LEMMA ClientClosing ==
  ASSUME NEW i \in Words, NEW w \in Nat, NEW most \in Int, NEW c, Sender(i, c, w, most),
         c.st = STATE_CLOSING, NEW m
  PROVE  ClientStep(i, c, ClosingProc(c, m), w, most)
<1> DEFINE a == [c EXCEPT !.flags = {ACK, FIN}]
           r == SendSocket(a)
           z == [r.c EXCEPT !.exp = TRUE, !.err = MaxErr - 1]
           x == [c EXCEPT !.err = 0, !.flags = {ACK}]
           t == [c EXCEPT !.st = STATE_TIME_WAIT, !.err = 0, !.flags = {ACK, FIN}]
<1>0. c.st = STATE_CLOSING OBVIOUS
<1>1. c \in Socket BY DEF Sender
<1>2. a \in Socket /\ x \in Socket /\ t \in Socket
  <2>1. a \in Socket BY <1>1, Known, Zenon DEF Socket
  <2>2. x \in Socket BY <1>1, Known, Zenon DEF Socket
  <2>3. STATE_TIME_WAIT \in Reached /\ 0 \in Int /\ {ACK, FIN} \in SUBSET Flags BY Known
  <2> DEFINE fl == {ACK, FIN}  over == STATE_TIME_WAIT
  <2>5. fl \in SUBSET Flags /\ over \in Reached BY <2>3
  <2> HIDE DEF fl, over
  <2>6. [c EXCEPT !.st = over, !.err = 0, !.flags = fl] \in Socket
    BY <1>1, <2>3, <2>5, Zenon DEF Socket
  <2>4. t \in Socket BY <2>6 DEF fl, over
  <2> QED BY <2>1, <2>2, <2>4
<1>3. /\ a.st = c.st /\ a.par = c.par /\ a.seq = c.seq /\ a.base = c.base /\ a.dlen = c.dlen
      /\ a.wcount = c.wcount /\ a.intact = c.intact /\ a.most = c.most /\ a.flags = {ACK, FIN}
  BY <1>1, Zenon DEF Socket
<1>4. /\ x.st = c.st /\ x.par = c.par /\ x.seq = c.seq /\ x.base = c.base /\ x.dlen = c.dlen
      /\ x.wcount = c.wcount /\ x.intact = c.intact /\ x.most = c.most /\ x.flags = {ACK}
  BY <1>1, Zenon DEF Socket
<1>24. t.st = STATE_TIME_WAIT /\ t.flags = {ACK, FIN} BY <1>1 DEF Socket
<1>25. t.par = c.par /\ t.base = c.base /\ t.intact = c.intact /\ t.most = c.most BY <1>1 DEF Socket
<1>5. /\ t.st = STATE_TIME_WAIT /\ t.par = c.par /\ t.base = c.base
      /\ t.intact = c.intact /\ t.most = c.most /\ t.flags = {ACK, FIN}
  BY <1>24, <1>25
<1> HIDE DEF a, x, t
<1>6. SYN \notin a.flags /\ SYN \notin x.flags /\ SYN \notin t.flags BY <1>3, <1>4, <1>5
<1>7. Sender(i, a, w, most) /\ a.st # STATE_CLOSED /\ Past(a) BY <1>0, <1>2, <1>3, <1>6 DEF Sender, Past
<1>8. Sender(i, x, w, most) /\ Past(x) BY <1>0, <1>2, <1>4, <1>6 DEF Sender, Past
<1>9. Sender(i, t, w, most) /\ t.st # STATE_CLOSED /\ Past(t) BY <1>0, <1>2, <1>5, <1>6 DEF Sender, Past
<1>10. Client1(i, r, w, most) /\ r.c.st = a.st BY <1>7, ClientSends
<1> HIDE DEF r
<1>11. r.c \in Socket BY <1>10 DEF Client1, Results
<1>12. z \in Socket BY <1>11, Known, Zenon DEF Socket
<1>13. /\ z.st = r.c.st /\ z.par = r.c.par /\ z.seq = r.c.seq /\ z.base = r.c.base /\ z.dlen = r.c.dlen
       /\ z.wcount = r.c.wcount /\ z.intact = r.c.intact /\ z.most = r.c.most /\ z.flags = r.c.flags
  BY <1>11, Zenon DEF Socket
<1>14. [r EXCEPT !.c.exp = TRUE, !.c.err = MaxErr - 1] = [r EXCEPT !.c = z] BY <1>10 DEF Client1, Results
<1> HIDE DEF z
<1>15. Client1(i, [r EXCEPT !.c = z], w, most) BY <1>10, <1>12, <1>13, Retouched DEF Alike
<1>16. [r EXCEPT !.c = z].c = z BY <1>10 DEF Client1, Results
<1>17. Past([r EXCEPT !.c = z].c) BY <1>16, <1>13, <1>10, <1>3, <1>0 DEF Past
<1>18. Client1(i, Done(x), w, most) /\ Done(x).c = x BY <1>8, Dones
<1>19. Client1(i, SendSocket(t), w, most) /\ Past(SendSocket(t).c) BY <1>9, ClientSends DEF Past
<1>20. ClosingProc(c, m) = IF m.ack = ULong(c.seq + 1)
                             THEN IF c.rcount > 0 THEN Done(x) ELSE SendSocket(t)
                             ELSE [r EXCEPT !.c = z]
  BY <1>14, Zenon DEF ClosingProc, a, r, x, t
<1> QED BY <1>8, <1>15, <1>17, <1>18, <1>19, <1>20 DEF ClientStep

LEMMA ClientLastAck ==
  ASSUME NEW i \in Words, NEW w \in Nat, NEW most \in Int, NEW c, Sender(i, c, w, most),
         c.st = STATE_LAST_ACK, NEW m
  PROVE  ClientStep(i, c, LastAckProc(c, m), w, most)
<1> DEFINE a == [c EXCEPT !.flags = {ACK, FIN}]
           r == SendSocket(a)
           z == [r.c EXCEPT !.err = 0]
           x == [c EXCEPT !.exp = FALSE, !.dlen = 0, !.err = 0]
<1>0. c.st = STATE_LAST_ACK OBVIOUS
<1>1. c \in Socket BY DEF Sender
<1>2. a \in Socket /\ x \in Socket BY <1>1, Known, Zenon DEF Socket
<1>3. /\ a.st = c.st /\ a.par = c.par /\ a.base = c.base
      /\ a.intact = c.intact /\ a.most = c.most /\ a.flags = {ACK, FIN}
  BY <1>1, Zenon DEF Socket
<1>4. /\ x.st = c.st /\ x.par = c.par /\ x.base = c.base
      /\ x.intact = c.intact /\ x.most = c.most /\ x.flags = c.flags
  BY <1>1, Zenon DEF Socket
<1> HIDE DEF a, x
<1>6. SYN \notin a.flags BY <1>3
<1>7. Sender(i, a, w, most) /\ a.st # STATE_CLOSED BY <1>0, <1>2, <1>3, <1>6 DEF Sender
<1>8. Sender(i, x, w, most) BY <1>0, <1>2, <1>4 DEF Sender
<1>10. Client1(i, r, w, most) /\ r.c.st = a.st BY <1>7, ClientSends
<1> HIDE DEF r
<1>11. r.c \in Socket BY <1>10 DEF Client1, Results
<1>12. z \in Socket BY <1>11, Known, Zenon DEF Socket
<1>13. /\ z.st = r.c.st /\ z.par = r.c.par /\ z.seq = r.c.seq /\ z.base = r.c.base /\ z.dlen = r.c.dlen
       /\ z.wcount = r.c.wcount /\ z.intact = r.c.intact /\ z.most = r.c.most /\ z.flags = r.c.flags
  BY <1>11, Zenon DEF Socket
<1>14. [r EXCEPT !.c.err = 0] = [r EXCEPT !.c = z] BY <1>10 DEF Client1, Results
<1> HIDE DEF z
<1>15. Client1(i, [r EXCEPT !.c = z], w, most) BY <1>10, <1>12, <1>13, Retouched DEF Alike
<1>16. [r EXCEPT !.c = z].c = z BY <1>10 DEF Client1, Results
<1>17. Past([r EXCEPT !.c = z].c) BY <1>16, <1>13, <1>10, <1>3, <1>0 DEF Past
<1>18. Client1(i, Done(Nuke(x)), w, most) /\ Past(Done(Nuke(x)).c) BY <1>8, ClientResets DEF Done
<1>20. LastAckProc(c, m) = IF m.ack = ULong(c.seq + 1) THEN Done(Nuke(x)) ELSE [r EXCEPT !.c = z]
  BY <1>14, Zenon DEF LastAckProc, a, r, x
<1> QED BY <1>15, <1>17, <1>18, <1>20 DEF ClientStep

LEMMA ClientTcp ==
  ASSUME Short, NEW i \in Words, NEW w \in 0 .. Total[Client], NEW most \in 0 .. Total[Client],
         NEW c, Sender(i, c, w, most), NEW m \in FromServer(i, most, Past(c)), NEW isn
  PROVE  ClientStep(i, c, Tcp(c, m, isn), w, most)
<1> DEFINE x == [c EXCEPT !.dlen = 0, !.wcount = 0, !.rcount = 0]
           k == [c |-> c, out |-> IF RST \in m.fl \/ SYN \in m.fl THEN << >> ELSE RstSpecial(m), up |-> TRUE]
<1>1. c \in Socket BY DEF Sender
<1>2. w \in Nat /\ most \in Int BY LinkAssumption DEF Host
<1>3. m \in Segments BY DEF FromServer
<1>4. c.st \in {STATE_CLOSED, STATE_SYN_SENT, STATE_SYN_RECEIVED, STATE_ESTABLISHED, STATE_CLOSING,
                STATE_LAST_ACK, STATE_TIME_WAIT}
  BY <1>1 DEF Sender, Socket, Reached
<1>5. CASE c.st = STATE_CLOSED
  <2>1. Tcp(c, m, isn) = k BY <1>5 DEF Tcp
  <2>2. k.out \in Seq(Segments) /\ k.out \in Seq(FromClient(i, w, Past(c))) BY <1>3, Answers
  <2>3. k.c = c /\ k \in Results BY <2>2, <1>1 DEF Results
  <2> QED BY <2>1, <2>2, <2>3 DEF ClientStep, Client1
<1>6. CASE c.st # STATE_CLOSED
  <2>1. c.st > STATE_NOTINIT BY <1>4, <1>6
  <2>2. CASE RST \in m.fl
    <3>1. Tcp(c, m, isn) = TcpRst(x) BY <2>1, <2>2 DEF Tcp
    <3>2. Client1(i, TcpRst(x), w, most) BY <1>2, ClientResets
    <3>3. x.flags \in SUBSET Flags /\ x \in Socket BY <1>1, Known, Zenon DEF Socket
    <3> HIDE DEF x
    <3>4. TcpRst(x).c = [x EXCEPT !.flags = {RST}, !.st = STATE_CLOSED] BY DEF TcpRst, FastTcpPack
    <3>5. TcpRst(x).c.st = STATE_CLOSED BY <3>3, <3>4 DEF Socket
    <3> QED BY <3>1, <3>2, <3>5 DEF ClientStep, Past
  <2>3. CASE RST \notin m.fl
    <3>1. Tcp(c, m, isn) = ProcTcp(c, m, isn) BY <2>1, <2>3 DEF Tcp
    <3>2. CASE c.st = STATE_SYN_SENT
      <4>1. ProcTcp(c, m, isn) = SynSentProc(c, m) BY <3>2 DEF ProcTcp
      <4> QED BY <3>1, <3>2, <4>1, <1>2, <1>3, ClientSynSent
    <3>3. CASE c.st = STATE_SYN_RECEIVED
      <4>1. ProcTcp(c, m, isn) = SynReceivedProc(c, m) BY <3>3 DEF ProcTcp
      <4> QED BY <3>1, <3>3, <4>1, <1>2, ClientSynReceived
    <3>4. CASE c.st = STATE_ESTABLISHED
      <4>1. ProcTcp(c, m, isn) = EstablishedProc(c, m) BY <3>4 DEF ProcTcp
      <4>2. Past(c) = FALSE BY <3>4 DEF Past
      <4>3. m \in FromServer(i, most, FALSE) BY <4>2
      <4> HIDE DEF x, k
      <4>4. ClientStep(i, c, EstablishedProc(c, m), w, most) BY <2>3, <3>4, <4>3, ClientEstablished, Zenon
      <4> QED BY <3>1, <4>1, <4>4
    <3>5. CASE c.st = STATE_CLOSING
      <4>1. ProcTcp(c, m, isn) = ClosingProc(c, m) BY <3>5 DEF ProcTcp
      <4> QED BY <3>1, <3>5, <4>1, <1>2, ClientClosing
    <3>6. CASE c.st = STATE_LAST_ACK
      <4>1. ProcTcp(c, m, isn) = LastAckProc(c, m) BY <3>6 DEF ProcTcp
      <4> QED BY <3>1, <3>6, <4>1, <1>2, ClientLastAck
    <3>7. CASE c.st = STATE_TIME_WAIT
      <4>1. ProcTcp(c, m, isn) = Done(Nuke(c)) BY <3>7 DEF ProcTcp
      <4>2. Client1(i, Done(Nuke(c)), w, most) /\ Past(Done(Nuke(c)).c) BY <1>2, ClientResets DEF Done
      <4> QED BY <3>1, <4>1, <4>2 DEF ClientStep
    <3> QED BY <1>4, <1>6, <3>2, <3>3, <3>4, <3>5, <3>6, <3>7
  <2> QED BY <2>2, <2>3
<1> QED BY <1>5, <1>6

-----------------------------------------------------------------------------
(* What check_sockets and the program do with the client's socket.          *)
LEMMA ClientRound ==
  ASSUME NEW i \in Words, NEW w \in Nat, NEW most \in Int, NEW c, Sender(i, c, w, most),
         c.st # STATE_CLOSED, NEW expired \in BOOLEAN
  PROVE  /\ ClientStep(i, c, CheckRound(c, expired), w, most)
         /\ CheckRound(c, expired).out # << >> => CheckRound(c, expired).c.st # STATE_CLOSED
<1> DEFINE late == expired /\ c.exp
           fresh == c.wcount - c.dlen # 0 /\ c.dlen < MaxTailW
           pushing == late /\ ~Spent(c) /\ c.st > STATE_SYN_RECEIVED /\ c.st < STATE_FINWAIT1
           fl == IF fresh \/ pushing THEN {PSH, ACK} ELSE c.flags
           er == IF late THEN c.err + 1 ELSE c.err
           d == [c EXCEPT !.flags = fl, !.err = er]
           a == [d EXCEPT !.dlen = 0]
<1>1. c \in Socket /\ c.st # STATE_CLOSED BY DEF Sender
<1>2. fl \in SUBSET Flags /\ er \in Int BY <1>1, Known DEF Socket
<1>3. (SYN \notin c.flags => SYN \notin fl) /\ (FIN \notin c.flags => FIN \notin fl) OBVIOUS
<1> HIDE DEF fl, er
<1>4. d \in Socket BY <1>1, <1>2, Zenon DEF Socket
<1>5. /\ d.st = c.st /\ d.par = c.par /\ d.seq = c.seq /\ d.base = c.base /\ d.dlen = c.dlen
      /\ d.wcount = c.wcount /\ d.intact = c.intact /\ d.most = c.most /\ d.flags = fl
  BY <1>1, <1>2, Zenon DEF Socket
<1> HIDE DEF d
<1>6. a \in Socket BY <1>4, Known, Zenon DEF Socket
<1>7. /\ a.st = c.st /\ a.par = c.par /\ a.seq = c.seq /\ a.base = c.base /\ a.dlen = 0
      /\ a.wcount = c.wcount /\ a.intact = c.intact /\ a.most = c.most /\ a.flags = fl
  BY <1>4, <1>5, Zenon DEF Socket
<1> HIDE DEF a
<1>8. Sender(i, d, w, most) BY <1>3, <1>4, <1>5 DEF Sender
<1>9. Sender(i, a, w, most)
  <2>1. c.dlen \in Int /\ c.wcount \in Int BY <1>1 DEF Socket
  <2>2. 0 <= c.dlen /\ c.dlen <= c.wcount => 0 <= a.dlen /\ a.dlen <= a.wcount BY <2>1, <1>7
  <2> QED BY <1>3, <1>6, <1>7, <2>2 DEF Sender
<1>10. ClientStep(i, c, SendSocket(d), w, most) /\ SendSocket(d).c.st # STATE_CLOSED
  <2>1. d.st # STATE_CLOSED BY <1>1, <1>5
  <2>2. Client1(i, SendSocket(d), w, most) /\ SendSocket(d).c.st = d.st BY <1>8, <2>1, ClientSends
  <2> QED BY <2>1, <2>2, <1>5 DEF ClientStep, Past
<1>11. ClientStep(i, c, SendSocket(a), w, most) /\ SendSocket(a).c.st # STATE_CLOSED
  <2>1. a.st # STATE_CLOSED BY <1>1, <1>7
  <2>2. Client1(i, SendSocket(a), w, most) /\ SendSocket(a).c.st = a.st BY <1>9, <2>1, ClientSends
  <2> QED BY <2>1, <2>2, <1>7 DEF ClientStep, Past
<1>12. ClientStep(i, c, Done([Nuke(d) EXCEPT !.dlen = 0]), w, most)
  <2>1. Client1(i, Done([Nuke(d) EXCEPT !.dlen = 0]), w, most) BY <1>8, ClientResets
  <2>2. Client1(i, Done(Nuke(d)), w, most) /\ Past(Nuke(d)) BY <1>8, ClientResets
  <2> DEFINE x == Nuke(d)  z == [x EXCEPT !.dlen = 0]
  <2>3. x \in Socket BY <2>2 DEF Client1, Results, Done
  <2> HIDE DEF x
  <2>4. z.st = x.st BY <2>3 DEF Socket
  <2>5. Past(z) BY <2>2, <2>4 DEF Past, x
  <2>6. Done(z).c = z BY DEF Done
  <2> HIDE DEF z
  <2>7. Past(Done(z).c) BY <2>5, <2>6
  <2> QED BY <2>1, <2>7 DEF ClientStep, x, z
<1>13. ClientStep(i, c, Done(c), w, most) BY Dones DEF ClientStep
<1>14. CheckRound(c, expired) = CASE late /\ Spent(c) -> Done([Nuke(d) EXCEPT !.dlen = 0])
                                  [] late /\ ~Spent(c) -> SendSocket(a)
                                  [] ~late /\ fresh -> SendSocket(d)
                                  [] OTHER -> Done(c)
  BY Zenon DEF CheckRound, StartAgain, a, d, fl, er
<1>15. \A x : Done(x).out = << >> BY DEF Done
<1> HIDE DEF late, fresh
<1> QED BY <1>15, <1>10, <1>11, <1>12, <1>13, <1>14

LEMMA ClientChecked ==
  ASSUME NEW i \in Words, NEW w \in Nat, NEW most \in Int, NEW c, Sender(i, c, w, most),
         NEW expired \in BOOLEAN
  PROVE  ClientStep(i, c, CheckSockets(c, expired), w, most)
<1> DEFINE r1 == CheckRound(c, expired)
           r2 == CheckRound(r1.c, FALSE)
           t == [c |-> r2.c, out |-> r1.out \o r2.out, up |-> r1.up /\ r2.up]
<1>1. ClientStep(i, c, Done(c), w, most) BY Dones DEF ClientStep
<1>2. ~c.par BY DEF Sender
<1>3. CheckSockets(c, expired) = IF c.st > STATE_UDP THEN IF r1.out = << >> THEN r1 ELSE t ELSE Done(c)
  BY <1>2 DEF CheckSockets
<1>4. ASSUME c.st > STATE_UDP PROVE ClientStep(i, c, r1, w, most) BY <1>4, ClientRound
<1>5. ASSUME c.st > STATE_UDP, r1.out # << >> PROVE ClientStep(i, c, t, w, most)
  <2>1. Client1(i, r1, w, most) /\ (Past(c) => Past(r1.c)) BY <1>4, <1>5 DEF ClientStep
  <2>2. Sender(i, r1.c, w, most) BY <2>1 DEF Client1
  <2> HIDE DEF r1
  <2>3. Client1(i, r2, w, most) /\ (Past(r1.c) => Past(r2.c))
    <3>1. r1.c.st # STATE_CLOSED BY <1>5, ClientRound DEF r1
    <3> QED BY <2>2, <3>1, ClientRound DEF ClientStep
  <2>4. Client1(i, t, w, most) BY <2>1, <2>3, Then
  <2> QED BY <2>1, <2>3, <2>4 DEF ClientStep
<1> QED BY <1>1, <1>3, <1>4, <1>5

LEMMA ClientOpens ==
  ASSUME NEW i \in Words
  PROVE  Client1(i, TcpOpen(Blank, i), 0, 0)
<1> DEFINE a == [Blank EXCEPT !.ip = TRUE, !.own = TRUE, !.seq = i, !.ack = i]
           b == [a EXCEPT !.flags = {SYN}, !.st = STATE_SYN_SENT]
           d == [b EXCEPT !.exp = TRUE]
           m == [fl |-> {SYN}, seq |-> i, ack |-> i, dat |-> 0, len |-> 0]
<1>1. Blank \in Socket
  <2>1. 0 \in Words BY TcpAssumption DEF Words
  <2>2. STATE_NOTINIT \in Reached BY DEF Reached
  <2> QED BY <2>1, <2>2, Known DEF Blank, Socket
<1>2. /\ ~Blank.par /\ Blank.base = 0 /\ Blank.wcount = 0 /\ Blank.dlen = 0 /\ Blank.intact /\ Blank.most = 0
  BY DEF Blank
<1>3. a \in Socket BY <1>1, Zenon DEF Socket
<1>4. /\ a.par = Blank.par /\ a.base = Blank.base /\ a.wcount = Blank.wcount /\ a.dlen = Blank.dlen
      /\ a.intact = Blank.intact /\ a.most = Blank.most /\ a.ip /\ a.seq = i /\ a.ack = i
  BY <1>1, Zenon DEF Socket
<1> HIDE DEF a
<1>5. b \in Socket BY <1>3, Known, Zenon DEF Socket
<1>6. /\ b.par = a.par /\ b.base = a.base /\ b.wcount = a.wcount /\ b.dlen = a.dlen
      /\ b.intact = a.intact /\ b.most = a.most /\ b.ip = a.ip /\ b.seq = i /\ b.ack = i
      /\ b.st = STATE_SYN_SENT /\ b.flags = {SYN}
  BY <1>3, <1>4, Zenon DEF Socket
<1> DEFINE r == [c |-> b, out |-> << m >>, up |-> TRUE]
<1>7. TcpSyn(a) = r
  <2>1. a.ip = TRUE BY <1>3, <1>4 DEF Socket
  <2> QED BY <1>6, <2>1, Zenon DEF TcpSyn, FastTcpPack
<1> HIDE DEF b
<1>8. d \in Socket BY <1>5, Zenon DEF Socket
<1>9. /\ d.par = b.par /\ d.base = b.base /\ d.wcount = b.wcount /\ d.dlen = b.dlen
      /\ d.intact = b.intact /\ d.most = b.most /\ d.seq = i /\ d.st = STATE_SYN_SENT /\ d.flags = {SYN}
  BY <1>5, <1>6, Zenon DEF Socket
<1> HIDE DEF d
<1>10. TcpOpen(Blank, i) = [r EXCEPT !.c.exp = TRUE] BY <1>7, Zenon DEF TcpOpen, a
<1>11. m \in FromClient(i, 0, Past(d)) /\ m \in Segments BY Known DEF FromClient, Segments
<1>12. Sender(i, d, 0, 0)
  <2>1. SYN \in d.flags /\ FIN \notin d.flags BY <1>9
  <2> QED BY <1>2, <1>4, <1>6, <1>8, <1>9, <2>1 DEF Sender
<1> HIDE DEF m
<1>13. << m >> \in Seq(Segments) /\ << m >> \in Seq(FromClient(i, 0, Past(d))) BY <1>11
<1>14. r \in Results BY <1>5, <1>13 DEF Results
<1>15. r.out = << m >> OBVIOUS
<1>16. r.c = b OBVIOUS
<1> HIDE DEF r
<1>17. [r EXCEPT !.c.exp = TRUE] = [r EXCEPT !.c = d] BY <1>14, <1>16 DEF Results, d
<1> DEFINE t == [r EXCEPT !.c = d]
<1>18. t \in Results /\ t.c = d /\ t.out = << m >> BY <1>8, <1>14, <1>15 DEF Results
<1>19. TcpOpen(Blank, i) = t BY <1>10, <1>17
<1> HIDE DEF t
<1> QED BY <1>12, <1>13, <1>18, <1>19 DEF Client1

LEMMA ClientWrites ==
  ASSUME NEW i, NEW w \in Int, NEW most, NEW c, Sender(i, c, w, most), NEW n \in Nat
  PROVE  LET d == WriteTcpBytes(c, n)  k == d.wcount - c.wcount IN
         ClientStep(i, c, Done(d), w + k, most) /\ k \in 0 .. n
<1> DEFINE k == IF n > MaxTailW - c.wcount THEN MaxTailW - c.wcount ELSE n
           d == [c EXCEPT !.wcount = c.wcount + k]
<1>1. c \in Socket BY DEF Sender
<1>2. c.wcount \in Int /\ c.base \in Int /\ c.dlen \in Int /\ MaxTailW \in Int BY <1>1, TcpAssumption DEF Socket
<1>3. CASE c.st # STATE_ESTABLISHED
  <2>1. WriteTcpBytes(c, n) = c BY <1>3 DEF WriteTcpBytes
  <2>2. c.wcount - c.wcount = 0 /\ w + 0 = w BY <1>2
  <2>3. ClientStep(i, c, Done(c), w, most) BY Dones DEF ClientStep
  <2> QED BY <2>1, <2>2, <2>3
<1>4. CASE c.st = STATE_ESTABLISHED
  <2>1. WriteTcpBytes(c, n) = d BY <1>4 DEF WriteTcpBytes
  <2>2. c.wcount <= MaxTailW /\ c.dlen <= c.wcount /\ c.base + c.wcount <= w BY <1>4 DEF Sender
  <2>3. k \in 0 .. n BY <1>2, <2>2
  <2>4. c.wcount + k \in Int /\ c.wcount + k <= MaxTailW /\ c.dlen <= c.wcount + k
        /\ c.base + (c.wcount + k) <= w + k
    BY <1>2, <2>2, <2>3
  <2> HIDE DEF k
  <2>5. d \in Socket BY <1>1, <2>4, Zenon DEF Socket
  <2>6. /\ d.st = c.st /\ d.par = c.par /\ d.seq = c.seq /\ d.base = c.base /\ d.dlen = c.dlen
        /\ d.wcount = c.wcount + k /\ d.intact = c.intact /\ d.most = c.most /\ d.flags = c.flags
    BY <1>1, Zenon DEF Socket
  <2> HIDE DEF d
  <2>7. Sender(i, d, w + k, most) BY <1>4, <2>4, <2>5, <2>6 DEF Sender
  <2>8. d.wcount - c.wcount = k BY <1>2, <2>3, <2>6
  <2>9. ClientStep(i, c, Done(d), w + k, most)
    <3>1. Client1(i, Done(d), w + k, most) /\ Done(d).c = d BY <2>7, Dones
    <3> QED BY <3>1, <2>6 DEF ClientStep, Past
  <2> QED BY <2>1, <2>3, <2>8, <2>9
<1> QED BY <1>3, <1>4

LEMMA ClientReads ==
  ASSUME NEW i \in Words, NEW w \in Nat, NEW most \in Int, NEW c, Sender(i, c, w, most), NEW n \in Nat
  PROVE  ClientStep(i, c, SockRead(c, n), w, most)
<1> DEFINE d == Drain(c, n)
           e == [d EXCEPT !.flags = {ACK}, !.err = 0]
<1>1. c \in Socket BY DEF Sender
<1>2. c.rcount - n \in Int BY <1>1 DEF Socket
<1>3. d = [c EXCEPT !.rcount = c.rcount - n] BY DEF Drain
<1> HIDE DEF d
<1>4. d \in Socket BY <1>1, <1>2, <1>3, Zenon DEF Socket
<1>5. /\ d.st = c.st /\ d.par = c.par /\ d.seq = c.seq /\ d.base = c.base /\ d.dlen = c.dlen
      /\ d.wcount = c.wcount /\ d.intact = c.intact /\ d.most = c.most /\ d.flags = c.flags
  BY <1>1, <1>3, Zenon DEF Socket
<1>6. e \in Socket BY <1>4, Known, Zenon DEF Socket
<1>7. /\ e.st = c.st /\ e.par = c.par /\ e.seq = c.seq /\ e.base = c.base /\ e.dlen = c.dlen
      /\ e.wcount = c.wcount /\ e.intact = c.intact /\ e.most = c.most /\ e.flags = {ACK}
  BY <1>4, <1>5, Zenon DEF Socket
<1> HIDE DEF e
<1>8. Sender(i, d, w, most) BY <1>4, <1>5 DEF Sender
<1>9. ClientStep(i, c, Done(d), w, most)
  <2>1. Client1(i, Done(d), w, most) /\ Done(d).c = d BY <1>8, Dones
  <2> QED BY <2>1, <1>5 DEF ClientStep, Past
<1>10. ASSUME c.st = STATE_ESTABLISHED
       PROVE  ClientStep(i, c, SendSocket(d), w, most) /\ ClientStep(i, c, SendSocket(e), w, most)
  <2>1. d.st # STATE_CLOSED /\ e.st # STATE_CLOSED /\ ~Past(c) BY <1>5, <1>7, <1>10 DEF Past
  <2>2. SYN \notin e.flags /\ FIN \notin e.flags BY <1>7
  <2>3. Sender(i, e, w, most) BY <1>6, <1>7, <2>2 DEF Sender
  <2>4. Client1(i, SendSocket(d), w, most) /\ Client1(i, SendSocket(e), w, most)
    BY <1>8, <2>1, <2>3, ClientSends
  <2> QED BY <2>1, <2>4 DEF ClientStep
<1> DEFINE advertise == /\ n > 2 \/ (d.rcount < LowMark /\ n > 0)
                        /\ \/ d.rcount = 0
                           \/ d.rcount < MaxTailR \div 2 /\ c.rcount > MaxTailR \div 2
<1>11. SockRead(c, n) = IF c.st # STATE_ESTABLISHED \/ c.dlen # 0 THEN Done(d)
                        ELSE IF c.wcount # 0 THEN SendSocket(d)
                        ELSE IF advertise THEN SendSocket(e) ELSE Done(d)
  BY Zenon DEF SockRead, d, e
<1> HIDE DEF advertise
<1> QED BY <1>9, <1>10, <1>11

LEMMA ClientEnds ==
  ASSUME NEW i \in Words, NEW w \in Nat, NEW most \in Int, NEW c, Sender(i, c, w, most)
  PROVE  LET d == [c EXCEPT !.rcount = 0] IN
         /\ ClientStep(i, c, Done(d), w, most) /\ ClientStep(i, c, Done(Nuke(d)), w, most)
         /\ ClientStep(i, c, Done(Nuke(c)), w, most) /\ ClientStep(i, c, SendFin(c), w, most)
<1> DEFINE d == [c EXCEPT !.rcount = 0]
           e == [c EXCEPT !.st = STATE_LAST_ACK, !.exp = TRUE, !.flags = {ACK, FIN}, !.err = 0]
<1>1. c \in Socket BY DEF Sender
<1>2. d \in Socket BY <1>1, Known, Zenon DEF Socket
<1>3. /\ d.st = c.st /\ d.par = c.par /\ d.seq = c.seq /\ d.base = c.base /\ d.dlen = c.dlen
      /\ d.wcount = c.wcount /\ d.intact = c.intact /\ d.most = c.most /\ d.flags = c.flags
  BY <1>1, Zenon DEF Socket
<1> HIDE DEF d
<1>4. Sender(i, d, w, most) BY <1>2, <1>3 DEF Sender
<1>5. ClientStep(i, c, Done(d), w, most)
  <2>1. Client1(i, Done(d), w, most) /\ Done(d).c = d BY <1>4, Dones
  <2> QED BY <2>1, <1>3 DEF ClientStep, Past
<1>6. ASSUME NEW x, Sender(i, x, w, most) PROVE ClientStep(i, c, Done(Nuke(x)), w, most)
  <2>1. Client1(i, Done(Nuke(x)), w, most) /\ Past(Nuke(x)) BY <1>6, ClientResets
  <2> QED BY <2>1 DEF ClientStep, Done
<1>7. ClientStep(i, c, SendFin(c), w, most)
  <2> DEFINE fl == {ACK, FIN}  fin == STATE_LAST_ACK
  <2>1. fl \in SUBSET Flags /\ fin \in Reached /\ SYN \notin fl BY Known
  <2>2. fin = STATE_LAST_ACK OBVIOUS
  <2> DEFINE f == [c EXCEPT !.st = fin, !.exp = TRUE, !.flags = fl, !.err = 0]
  <2>3. f = e OBVIOUS
  <2> HIDE DEF fl, fin, e
  <2>4. f \in Socket BY <1>1, <2>1, Known, Zenon DEF Socket
  <2>5. /\ f.st = fin /\ f.par = c.par /\ f.base = c.base /\ f.intact = c.intact /\ f.most = c.most /\ f.flags = fl
    BY <1>1, Zenon DEF Socket
  <2> HIDE DEF f
  <2>6. Sender(i, f, w, most) /\ f.st # STATE_CLOSED BY <2>1, <2>2, <2>4, <2>5 DEF Sender
  <2>7. Client1(i, SendSocket(f), w, most) /\ SendSocket(f).c.st = f.st BY <2>6, ClientSends
  <2>8. SendFin(c) = SendSocket(f)
    <3>1. c.st # STATE_PEER_RESET BY <1>1 DEF Socket, Reached
    <3> QED BY <3>1, <2>3 DEF SendFin, e
  <2> QED BY <2>2, <2>5, <2>7, <2>8 DEF ClientStep, Past
<1>8. ClientStep(i, c, Done(Nuke(d)), w, most) /\ ClientStep(i, c, Done(Nuke(c)), w, most)
  BY <1>4, <1>6
<1> QED BY <1>5, <1>7, <1>8 DEF d

-----------------------------------------------------------------------------
(* The server.  It accepted taken bytes on this connection and at most most *)
(* on any, all of them as they were written; the number it acknowledges is  *)
(* that of the next byte, or the one after the client's FIN.                *)
Receiver(i, c, total, past) ==
  /\ c \in Socket /\ c.par /\ c.st \notin {STATE_NOTINIT, STATE_SYN_SENT}
  /\ c.st \in {STATE_SYN_RECEIVED, STATE_ESTABLISHED} =>
       c.ack = Num(i, 1 + c.taken) /\ 0 <= c.taken /\ c.taken <= c.most
  /\ 0 <= c.most /\ c.most <= total
  /\ c.ip => Acked(i, c.ack, c.most, past)
  /\ c.intact
  /\ Quiet => c.wcount = 0 /\ c.dlen = 0 /\ c.base = 0

ServerStep(i, c, r, total, past) ==
  /\ r \in Results /\ Receiver(i, r.c, total, past) /\ r.out \in Seq(FromServer(i, r.c.most, past))
  /\ c.most <= r.c.most

(* A change that leaves what was received alone.                            *)
Same(c, d) ==
  /\ d \in Socket /\ d.par = c.par /\ d.st \notin {STATE_NOTINIT, STATE_SYN_SENT}
  /\ d.st \in {STATE_SYN_RECEIVED, STATE_ESTABLISHED} =>
       c.st \in {STATE_SYN_RECEIVED, STATE_ESTABLISHED} /\ d.ack = c.ack /\ d.taken = c.taken
  /\ d.most = c.most /\ d.intact = c.intact
  /\ d.ip => c.ip /\ d.ack = c.ack
  /\ Quiet => d.wcount = 0 /\ d.dlen = 0 /\ d.base = 0

LEMMA Sames ==
  ASSUME NEW i, NEW total, NEW past, NEW c, Receiver(i, c, total, past), NEW d, Same(c, d)
  PROVE  Receiver(i, d, total, past) /\ c.most <= d.most
<1>1. c.most <= d.most BY DEF Receiver, Same, Socket
<1>2. /\ d \in Socket /\ d.par /\ d.st \notin {STATE_NOTINIT, STATE_SYN_SENT} /\ d.intact
      /\ d.st \in {STATE_SYN_RECEIVED, STATE_ESTABLISHED} =>
           d.ack = Num(i, 1 + d.taken) /\ 0 <= d.taken /\ d.taken <= d.most
      /\ 0 <= d.most /\ d.most <= total
      /\ Quiet => d.wcount = 0 /\ d.dlen = 0 /\ d.base = 0
  BY DEF Receiver, Same
<1>3. d.ip => Acked(i, d.ack, d.most, past) BY DEF Receiver, Same
<1> QED BY <1>1, <1>2, <1>3 DEF Receiver

LEMMA ServerDone ==
  ASSUME NEW i, NEW total, NEW past, NEW c, Receiver(i, c, total, past), NEW d, Same(c, d)
  PROVE  ServerStep(i, c, Done(d), total, past)
<1>1. Receiver(i, d, total, past) /\ c.most <= d.most BY Sames
<1>2. Done(d) \in Results /\ Done(d).c = d /\ Done(d).out = << >> BY DEF Done, Results, Same
<1> QED BY <1>1, <1>2 DEF ServerStep

LEMMA More ==
  ASSUME NEW i, NEW past, NEW k \in Int, NEW l \in Int, k <= l
  PROVE  FromServer(i, k, past) \subseteq FromServer(i, l, past)
<1>1. 0 .. k \subseteq 0 .. l OBVIOUS
<1>2. ASSUME NEW a PROVE Acked(i, a, k, past) => Acked(i, a, l, past) BY <1>1 DEF Acked
<1> QED BY <1>2 DEF FromServer

LEMMA ServerThen ==
  ASSUME NEW i, NEW total, NEW past, NEW c \in Socket, NEW r, ServerStep(i, c, r, total, past),
         NEW t, ServerStep(i, r.c, t, total, past)
  PROVE  ServerStep(i, c, [c |-> t.c, out |-> r.out \o t.out, up |-> r.up /\ t.up], total, past)
<1>1. r \in Results /\ t \in Results BY DEF ServerStep
<1>2. r.out \o t.out \in Seq(Segments) BY <1>1 DEF Results
<1>3. c.most \in Int /\ r.c.most \in Int /\ t.c.most \in Int BY <1>1 DEF Results, Socket
<1>4. c.most <= r.c.most /\ r.c.most <= t.c.most BY DEF ServerStep
<1>5. c.most <= t.c.most BY <1>3, <1>4
<1>6. r.out \in Seq(FromServer(i, t.c.most, past)) BY <1>3, <1>4, More, Wider DEF ServerStep
<1>7. r.out \o t.out \in Seq(FromServer(i, t.c.most, past)) BY <1>6 DEF ServerStep
<1>8. PICK u \in BOOLEAN : u = (r.up /\ t.up) OBVIOUS
<1> DEFINE z == [c |-> t.c, out |-> r.out \o t.out, up |-> u]
<1>9. z \in Results /\ z.c = t.c /\ z.out = r.out \o t.out BY <1>1, <1>2 DEF Results
<1>10. ServerStep(i, c, z, total, past) BY <1>5, <1>7, <1>9 DEF ServerStep
<1> QED BY <1>8, <1>10

LEMMA ServerRetouched ==
  ASSUME NEW i, NEW total, NEW past, NEW c \in Socket, NEW r, ServerStep(i, c, r, total, past),
         NEW d, Same(r.c, d)
  PROVE  ServerStep(i, c, [r EXCEPT !.c = d], total, past)
<1> DEFINE t == [r EXCEPT !.c = d]
<1>1. r \in Results /\ d \in Socket BY DEF ServerStep, Same
<1>2. t \in Results /\ t.c = d /\ t.out = r.out BY <1>1 DEF Results
<1>3. Receiver(i, d, total, past) BY Sames DEF ServerStep
<1>4. d.most = r.c.most BY DEF Same
<1> HIDE DEF t
<1>5. ServerStep(i, c, t, total, past) BY <1>2, <1>3, <1>4 DEF ServerStep
<1> QED BY <1>5 DEF t

LEMMA ServerSends ==
  ASSUME NEW i, NEW total, NEW past, NEW c, Receiver(i, c, total, past), NEW d, Same(c, d)
  PROVE  ServerStep(i, c, SendSocket(d), total, past) /\ SendSocket(d).c.st = d.st
<1> DEFINE r == SendSocket(d)
<1>1. d \in Socket /\ c \in Socket BY DEF Same, Receiver
<1>2. r \in Results BY <1>1, Sends
<1>3. PICK n \in Int, e \in BOOLEAN :
         r = Sent(d, n, e) /\ (n # 0 => d.wcount # d.dlen)
  BY <1>1, Sends
<1> HIDE DEF r
<1>4. r.c = [d EXCEPT !.dlen = d.dlen + n, !.exp = e] BY <1>3 DEF Sent
<1>5. Quiet => n = 0 /\ d.dlen = 0 /\ d.wcount = 0 BY <1>3 DEF Same
<1>6. r.c \in Socket BY <1>2 DEF Results
<1>7. /\ r.c.st = d.st /\ r.c.par = d.par /\ r.c.ack = d.ack /\ r.c.taken = d.taken /\ r.c.most = d.most
      /\ r.c.intact = d.intact /\ r.c.ip = d.ip /\ r.c.wcount = d.wcount /\ r.c.base = d.base
      /\ r.c.dlen = d.dlen + n
  BY <1>1, <1>4 DEF Socket
<1>8. Quiet => r.c.dlen = 0 BY <1>5, <1>7
<1>9. Receiver(i, d, total, past) /\ c.most <= d.most BY Sames
<1>10. Same(d, r.c) BY <1>6, <1>7, <1>8, <1>9 DEF Same, Receiver
<1>11. Receiver(i, r.c, total, past) BY <1>9, <1>10, Sames
<1>12. r.out \in Seq(FromServer(i, r.c.most, past))
  <2>1. CASE ~d.ip
    <3>1. r.out = << >> BY <1>3, <2>1 DEF Sent
    <3> QED BY <3>1
  <2>2. CASE d.ip
    <3> DEFINE m == [fl |-> d.flags, seq |-> IF n = 0 THEN d.seq ELSE Word32(d.seq + d.dlen),
                     ack |-> d.ack, dat |-> IF n = 0 THEN 0 ELSE d.base + d.dlen, len |-> n]
    <3>1. r.out = << m >> BY <1>3, <2>2 DEF Sent
    <3>2. m.ack = d.ack /\ m.len = n OBVIOUS
    <3> HIDE DEF m
    <3>3. m \in Segments
      <4>1. m = r.out[1] BY <3>1
      <4>2. r.out \in Seq(Segments) BY <1>2 DEF Results
      <4> QED BY <4>1, <4>2, <3>1
    <3>4. Acked(i, m.ack, r.c.most, past) BY <1>9, <1>7, <2>2, <3>2 DEF Receiver
    <3>5. m \in FromServer(i, r.c.most, past) BY <3>2, <3>3, <3>4, <1>5 DEF FromServer
    <3> QED BY <3>1, <3>5
  <2> QED BY <2>1, <2>2
<1>13. c.most <= r.c.most BY <1>7, <1>9
<1> QED BY <1>2, <1>7, <1>11, <1>12, <1>13 DEF ServerStep, r

LEMMA ServerNukes ==
  ASSUME NEW i, NEW total, NEW past, NEW c, Receiver(i, c, total, past), NEW d, Same(c, d)
  PROVE  /\ Same(c, Nuke(d)) /\ Same(c, [Nuke(d) EXCEPT !.dlen = 0])
<1> DEFINE e == Nuke(d)
           f == [e EXCEPT !.dlen = 0]
           none == {}  listen == STATE_LISTEN
<1>1. d \in Socket /\ c \in Socket BY DEF Same, Receiver
<1>2. d.par = TRUE BY <1>1 DEF Same, Receiver, Socket
<1>3. none \in SUBSET Flags /\ listen \in Reached /\ 0 \in Words BY Known, TcpAssumption DEF Words
<1>4. listen = STATE_LISTEN OBVIOUS
<1> DEFINE g == [d EXCEPT !.st = listen, !.ip = FALSE, !.seq = 0, !.ack = 0, !.flags = none,
                          !.wcount = 0, !.rcount = 0, !.exp = FALSE]
<1>5. e = g
  <2> DEFINE h == [d EXCEPT !.st = STATE_LISTEN, !.ip = FALSE, !.seq = 0, !.ack = 0, !.flags = {}]
             k == [h EXCEPT !.wcount = 0, !.rcount = 0, !.exp = FALSE]
  <2>1. e = k BY <1>2 DEF Nuke
  <2>2. k = g BY <1>1, Zenon DEF Socket
  <2> QED BY <2>1, <2>2
<1> HIDE DEF none, listen, e
<1>6. g \in Socket BY <1>1, <1>3, Known, ZenonT(40) DEF Socket
<1>7. /\ g.st = listen /\ g.par = d.par /\ g.most = d.most /\ g.intact = d.intact /\ g.ip = FALSE
      /\ g.wcount = 0 /\ g.dlen = d.dlen /\ g.base = d.base
  BY <1>1, Zenon DEF Socket
<1> HIDE DEF g
<1>8. Same(c, e) BY <1>4, <1>5, <1>6, <1>7 DEF Same
<1>9. f \in Socket BY <1>5, <1>6, Known, Zenon DEF Socket
<1>10. /\ f.st = e.st /\ f.par = e.par /\ f.most = e.most /\ f.intact = e.intact /\ f.ip = e.ip
       /\ f.wcount = e.wcount /\ f.dlen = 0 /\ f.base = e.base /\ f.ack = e.ack /\ f.taken = e.taken
  BY <1>5, <1>6, Zenon DEF Socket
<1> HIDE DEF f
<1>11. Same(c, f) BY <1>8, <1>9, <1>10 DEF Same
<1> QED BY <1>8, <1>11 DEF e, f

LEMMA ServerResets ==
  ASSUME NEW i, NEW total, NEW past, NEW c, Receiver(i, c, total, past)
  PROVE  ServerStep(i, c, TcpRst([c EXCEPT !.dlen = 0, !.wcount = 0, !.rcount = 0]), total, past)
<1> DEFINE z == [c EXCEPT !.dlen = 0, !.wcount = 0, !.rcount = 0]
           f == [z EXCEPT !.flags = {RST}, !.st = STATE_CLOSED]
           m == [fl |-> {RST}, seq |-> c.seq, ack |-> c.ack, dat |-> 0, len |-> 0]
           out == IF c.ip THEN << m >> ELSE << >>
           r == [c |-> f, out |-> out, up |-> c.ip]
<1>1. c \in Socket BY DEF Receiver
<1>2. z \in Socket BY <1>1, Known, Zenon DEF Socket
<1>3. f \in Socket BY <1>2, Known, Zenon DEF Socket
<1>4. /\ f.st = STATE_CLOSED /\ f.par = c.par /\ f.most = c.most /\ f.intact = c.intact /\ f.ip = c.ip
      /\ f.ack = c.ack /\ f.wcount = 0 /\ f.dlen = 0 /\ f.base = c.base
  BY <1>1, <1>2, Zenon DEF Socket
<1>5. TcpRst(z) = r BY <1>1 DEF TcpRst, FastTcpPack, Socket
<1>6. m \in FromServer(i, f.most, past) /\ m \in Segments BY <1>1, Known DEF Socket, Segments, FromServer
<1>7. c.ip \in BOOLEAN BY <1>1 DEF Socket
<1> HIDE DEF f, m
<1>8. out \in Seq(Segments) /\ out \in Seq(FromServer(i, f.most, past))
  <2>1. << m >> \in Seq(Segments) /\ << m >> \in Seq(FromServer(i, f.most, past)) BY <1>6
  <2>2. << >> \in Seq(Segments) /\ << >> \in Seq(FromServer(i, f.most, past)) OBVIOUS
  <2> QED BY <2>1, <2>2
<1>9. Same(c, f) BY <1>3, <1>4 DEF Same, Receiver
<1>10. Receiver(i, f, total, past) /\ c.most <= f.most BY <1>9, Sames
<1> HIDE DEF out
<1>11. r \in Results /\ r.c = f /\ r.out = out BY <1>3, <1>7, <1>8 DEF Results
<1> HIDE DEF r, z
<1>12. ServerStep(i, c, r, total, past) BY <1>8, <1>10, <1>11 DEF ServerStep
<1> QED BY <1>5, <1>12 DEF z

LEMMA ServerAnswers ==
  ASSUME NEW i, NEW past, NEW most, NEW m \in Segments
  PROVE  RstSpecial(m) \in Seq(Segments) /\ RstSpecial(m) \in Seq(FromServer(i, most, past))
<1> DEFINE a == [fl |-> {RST}, seq |-> m.ack, ack |-> m.seq, dat |-> 0, len |-> 0]
<1>1. a \in Segments BY Known DEF Segments
<1>2. RST \in a.fl /\ a.len = 0 OBVIOUS
<1>3. RstSpecial(m) = << a >> BY DEF RstSpecial
<1> HIDE DEF a
<1>4. a \in FromServer(i, most, past) BY <1>1, <1>2 DEF FromServer
<1> QED BY <1>1, <1>3, <1>4

LEMMA ServerRefuses ==
  ASSUME NEW i, NEW total, NEW past, NEW c, Receiver(i, c, total, past), NEW m \in Segments,
         NEW out \in {<< >>, RstSpecial(m)}
  PROVE  ServerStep(i, c, [c |-> c, out |-> out, up |-> TRUE], total, past)
<1> DEFINE r == [c |-> c, out |-> out, up |-> TRUE]
<1>1. c \in Socket /\ c.most <= c.most BY DEF Receiver, Socket
<1>2. out \in Seq(Segments) /\ out \in Seq(FromServer(i, c.most, past))
  <2>1. << >> \in Seq(Segments) /\ << >> \in Seq(FromServer(i, c.most, past)) OBVIOUS
  <2>2. RstSpecial(m) \in Seq(Segments) /\ RstSpecial(m) \in Seq(FromServer(i, c.most, past))
    BY ServerAnswers
  <2>3. out = << >> \/ out = RstSpecial(m) OBVIOUS
  <2> QED BY <2>1, <2>2, <2>3
<1>3. r \in Results /\ r.c = c /\ r.out = out BY <1>1, <1>2 DEF Results
<1> HIDE DEF r
<1>4. ServerStep(i, c, r, total, past) BY <1>1, <1>2, <1>3 DEF ServerStep
<1> QED BY <1>4 DEF r

LEMMA ServerListens ==
  ASSUME NEW i \in Words, NEW total, NEW past, NEW w, NEW c, Receiver(i, c, total, past),
         NEW m \in FromClient(i, w, past), RST \notin m.fl, NEW isn \in Words
  PROVE  ServerStep(i, c, ListenProc(c, m, isn), total, past)
<1> DEFINE a == [c EXCEPT !.ip = TRUE, !.ack = Word32(m.seq + 1), !.seq = isn, !.base = 0, !.taken = 0,
                          !.intact = TRUE]
           heard == STATE_SYN_RECEIVED
           fl == {SYN, ACK}
           b == [a EXCEPT !.flags = fl, !.st = heard]
           d == [b EXCEPT !.exp = TRUE, !.err = 0]
           x == [fl |-> fl, seq |-> isn, ack |-> Word32(m.seq + 1), dat |-> 0, len |-> 0]
           r == [c |-> b, out |-> << x >>, up |-> TRUE]
           t == [r EXCEPT !.c = d]
<1>1. c \in Socket /\ m \in Segments BY DEF Receiver, FromClient
<1>2. CASE SYN \notin m.fl
  <2>1. ListenProc(c, m, isn) = [c |-> c, out |-> RstSpecial(m), up |-> TRUE] BY <1>2 DEF ListenProc
  <2> QED BY <2>1, <1>1, ServerRefuses
<1>3. CASE SYN \in m.fl
  <2>1. m.seq = i BY <1>3 DEF FromClient
  <2>2. Word32(m.seq + 1) \in Words
    <3>1. m.seq + 1 \in Int BY <1>1 DEF Segments, Words
    <3> QED BY <3>1, Numbers
  <2>3. fl \in SUBSET Flags /\ heard \in Reached /\ RST \notin fl /\ heard = STATE_SYN_RECEIVED BY Known
  <2> HIDE DEF fl, heard
  <2>26. 0 \in Int BY Known
  <2>4. a \in Socket BY <1>1, <2>2, <2>26, Zenon DEF Socket
  <2>5. /\ a.par = c.par /\ a.ip /\ a.seq = isn /\ a.ack = Word32(m.seq + 1) /\ a.base = 0 /\ a.taken = 0
        /\ a.intact /\ a.dlen = c.dlen /\ a.wcount = c.wcount /\ a.most = c.most
    BY <1>1, Zenon DEF Socket
  <2> HIDE DEF a
  <2>6. b \in Socket BY <2>3, <2>4, Zenon DEF Socket
  <2>7. /\ b.par = a.par /\ b.ip = a.ip /\ b.seq = a.seq /\ b.ack = a.ack /\ b.base = a.base /\ b.taken = a.taken
        /\ b.intact = a.intact /\ b.dlen = a.dlen /\ b.wcount = a.wcount /\ b.most = a.most
        /\ b.st = heard
    BY <2>4, Zenon DEF Socket
  <2>8. TcpSynAndAck(a) = r
    <3>1. a.ip = TRUE BY <2>4, <2>5 DEF Socket
    <3> QED BY <3>1, <2>5, <2>7, Zenon DEF TcpSynAndAck, FastTcpPack, fl, heard
  <2> HIDE DEF b
  <2>9. d \in Socket BY <2>6, Known, Zenon DEF Socket
  <2>10. /\ d.par = b.par /\ d.ip = b.ip /\ d.ack = b.ack /\ d.base = b.base /\ d.taken = b.taken
         /\ d.intact = b.intact /\ d.dlen = b.dlen /\ d.wcount = b.wcount /\ d.most = b.most /\ d.st = b.st
    BY <2>6, Zenon DEF Socket
  <2>11. x \in Segments BY <2>2, <2>3, Known DEF Segments
  <2>12. << x >> \in Seq(Segments) BY <2>11
  <2>13. r \in Results BY <2>6, <2>12 DEF Results
  <2>14. r.c = b /\ r.out = << x >> /\ x.ack = Word32(m.seq + 1) /\ x.len = 0 OBVIOUS
  <2>15. ListenProc(c, m, isn) = [r EXCEPT !.c.exp = TRUE, !.c.err = 0]
    BY <1>3, <2>8, Zenon DEF ListenProc, a
  <2> HIDE DEF r, x
  <2>16. [r EXCEPT !.c.exp = TRUE, !.c.err = 0] = t BY <2>13, <2>14 DEF Results, d
  <2> HIDE DEF d
  <2>17. t \in Results /\ t.c = d /\ t.out = << x >> BY <2>9, <2>13, <2>14 DEF Results
  <2> HIDE DEF t
  <2>18. c.most \in Int /\ 0 <= c.most /\ d.most = c.most BY <1>1, <2>10, <2>7, <2>5 DEF Receiver, Socket
  <2>19. Word32(m.seq + 1) = Num(i, 1 + 0) BY <2>1 DEF Num
  <2>20. Acked(i, Word32(m.seq + 1), d.most, past) BY <2>18, <2>19 DEF Acked
  <2>21. Receiver(i, d, total, past)
    <3>1. d.ack = Num(i, 1 + d.taken) /\ d.taken = 0 BY <2>5, <2>7, <2>10, <2>19
    <3>2. d.st \notin {STATE_NOTINIT, STATE_SYN_SENT} BY <2>3, <2>7, <2>10
    <3>3. Acked(i, d.ack, d.most, past) BY <2>5, <2>7, <2>10, <2>20
    <3> QED BY <3>1, <3>2, <3>3, <2>5, <2>7, <2>9, <2>10, <2>18 DEF Receiver
  <2>22. x \in FromServer(i, d.most, past) BY <2>11, <2>14, <2>20 DEF FromServer
  <2>23. << x >> \in Seq(FromServer(i, d.most, past)) BY <2>22
  <2>24. c.most <= d.most BY <2>18
  <2>25. ServerStep(i, c, t, total, past) BY <2>17, <2>21, <2>23, <2>24 DEF ServerStep
  <2> QED BY <2>15, <2>16, <2>25
<1> QED BY <1>2, <1>3

LEMMA Itself ==
  ASSUME NEW i, NEW total, NEW past, NEW c, Receiver(i, c, total, past)
  PROVE  Same(c, c) /\ c \in Socket
BY DEF Receiver, Same

(* Other flags, error counts and timers.                                    *)
LEMMA SameFlags ==
  ASSUME NEW i, NEW total, NEW past, NEW c, Receiver(i, c, total, past)
  PROVE  /\ \A fl \in SUBSET Flags : Same(c, [c EXCEPT !.flags = fl])
         /\ \A e \in Int : Same(c, [c EXCEPT !.err = e])
         /\ \A e \in Int, fl \in SUBSET Flags : Same(c, [c EXCEPT !.err = e, !.flags = fl])
         /\ \A e \in Int, x \in BOOLEAN : Same(c, [c EXCEPT !.err = e, !.exp = x])
         /\ \A n \in Int : Same(c, [c EXCEPT !.rcount = n])
<1> DEFINE Kept(d) == /\ d.st = c.st /\ d.par = c.par /\ d.ack = c.ack /\ d.taken = c.taken /\ d.most = c.most
                      /\ d.intact = c.intact /\ d.ip = c.ip /\ d.wcount = c.wcount /\ d.dlen = c.dlen
                      /\ d.base = c.base
<1>1. c \in Socket BY DEF Receiver
<1>2. ASSUME NEW d \in Socket, Kept(d) PROVE Same(c, d) BY <1>2 DEF Same, Receiver
<1>3. ASSUME NEW fl \in SUBSET Flags, NEW e \in Int, NEW x \in BOOLEAN, NEW n \in Int
      PROVE  /\ Same(c, [c EXCEPT !.flags = fl]) /\ Same(c, [c EXCEPT !.err = e])
             /\ Same(c, [c EXCEPT !.err = e, !.flags = fl]) /\ Same(c, [c EXCEPT !.err = e, !.exp = x])
             /\ Same(c, [c EXCEPT !.rcount = n])
  <2> DEFINE f1 == [c EXCEPT !.flags = fl]
             f2 == [c EXCEPT !.err = e]
             f3 == [c EXCEPT !.err = e, !.flags = fl]
             f4 == [c EXCEPT !.err = e, !.exp = x]
             f5 == [c EXCEPT !.rcount = n]
  <2>2. f1 \in Socket BY <1>1, Zenon DEF Socket
  <2>3. f2 \in Socket BY <1>1, Zenon DEF Socket
  <2>4. f3 \in Socket BY <1>1, Zenon DEF Socket
  <2>5. f4 \in Socket BY <1>1, Zenon DEF Socket
  <2>6. f5 \in Socket BY <1>1, Zenon DEF Socket
  <2>7. Kept(f1) BY <1>1, Zenon DEF Socket
  <2>8. Kept(f2) BY <1>1, Zenon DEF Socket
  <2>9. Kept(f3) BY <1>1, Zenon DEF Socket
  <2>10. Kept(f4) BY <1>1, Zenon DEF Socket
  <2>11. Kept(f5) BY <1>1, Zenon DEF Socket
  <2> HIDE DEF f1, f2, f3, f4, f5, Kept
  <2>13. Same(c, f1) /\ Same(c, f2) /\ Same(c, f3) /\ Same(c, f4) /\ Same(c, f5)
    BY <2>2, <2>3, <2>4, <2>5, <2>6, <2>7, <2>8, <2>9, <2>10, <2>11, <1>2
  <2> QED BY <2>13 DEF f1, f2, f3, f4, f5
<1>4. {} \in SUBSET Flags /\ 0 \in Int /\ TRUE \in BOOLEAN OBVIOUS
<1> HIDE DEF Kept
<1> QED BY <1>3, <1>4, Zenon

LEMMA ServerSynReceived ==
  ASSUME NEW i, NEW total, NEW past, NEW c, Receiver(i, c, total, past), c.st = STATE_SYN_RECEIVED, NEW m
  PROVE  ServerStep(i, c, SynReceivedProc(c, m), total, past)
<1> DEFINE Good(z) == Receiver(i, z, total, past) /\ z.st = STATE_SYN_RECEIVED
           a == [c EXCEPT !.flags = {SYN, ACK}]
           r == SendSocket(a)
           z == [r.c EXCEPT !.err = 0, !.exp = TRUE]
           s == [r EXCEPT !.c = z]
           r1 == IF SYN \in m.fl THEN s ELSE Done(c)
           b == [r1.c EXCEPT !.flags = {ACK}]
           r2 == SendSocket(b)
           d == [r2.c EXCEPT !.seq = Word32(@ + 1), !.exp = FALSE, !.err = 0, !.st = STATE_ESTABLISHED]
           t == [r2 EXCEPT !.c = d]
           last == [c |-> d, out |-> r1.out \o r2.out, up |-> r1.up /\ r2.up]
<1>1. c \in Socket /\ c.st = STATE_SYN_RECEIVED /\ Same(c, c) BY Itself
<1>2. Same(c, a) /\ a.st = c.st
  <2>1. Same(c, a) BY Known, SameFlags
  <2>2. a.st = c.st BY <1>1 DEF Socket
  <2> QED BY <2>1, <2>2
<1> HIDE DEF a
<1>3. ServerStep(i, c, r, total, past) /\ r.c.st = a.st BY <1>2, ServerSends
<1> HIDE DEF r
<1>4. r \in Results /\ r.c \in Socket /\ Receiver(i, r.c, total, past) BY <1>3 DEF ServerStep, Results
<1>5. [r EXCEPT !.c.err = 0, !.c.exp = TRUE] = s BY <1>4 DEF Results
<1>6. Same(r.c, z) /\ z.st = r.c.st
  <2>1. Same(r.c, z) BY <1>4, Known, SameFlags
  <2>2. z.st = r.c.st BY <1>4, Zenon DEF Socket
  <2> QED BY <2>1, <2>2
<1> HIDE DEF z
<1>7. ServerStep(i, c, s, total, past) BY <1>1, <1>3, <1>6, ServerRetouched
<1>8. s.c = z BY <1>4 DEF Results
<1>9. s.c.st = STATE_SYN_RECEIVED BY <1>1, <1>2, <1>3, <1>6, <1>8
<1> HIDE DEF s
<1>10. ServerStep(i, c, r1, total, past) /\ r1.c.st = STATE_SYN_RECEIVED
  <2>1. ServerStep(i, c, Done(c), total, past) BY <1>1, ServerDone
  <2>2. Done(c).c = c BY DEF Done
  <2> QED BY <1>1, <1>7, <1>9, <2>1, <2>2
<1> HIDE DEF r1
<1>11. Receiver(i, r1.c, total, past) /\ r1.c \in Socket BY <1>10 DEF ServerStep, Results
<1>12. Same(r1.c, b) /\ b.st = r1.c.st
  <2>1. Same(r1.c, b) BY <1>11, Known, SameFlags
  <2>2. b.st = r1.c.st BY <1>11 DEF Socket
  <2> QED BY <2>1, <2>2
<1> HIDE DEF b
<1>13. ServerStep(i, r1.c, r2, total, past) /\ r2.c.st = STATE_SYN_RECEIVED
  BY <1>10, <1>11, <1>12, ServerSends
<1> HIDE DEF r2
<1>14. r2 \in Results /\ r2.c \in Socket /\ Receiver(i, r2.c, total, past) BY <1>13 DEF ServerStep, Results
<1>15. Same(r2.c, d)
  <2>1. Word32(r2.c.seq + 1) \in Words
    <3>1. r2.c.seq + 1 \in Int BY <1>14 DEF Socket, Words
    <3> QED BY <3>1, Numbers
  <2>2. d \in Socket BY <1>14, <2>1, Known, Zenon DEF Socket
  <2>3. /\ d.st = STATE_ESTABLISHED /\ d.par = r2.c.par /\ d.ack = r2.c.ack /\ d.taken = r2.c.taken
        /\ d.most = r2.c.most /\ d.intact = r2.c.intact /\ d.ip = r2.c.ip /\ d.wcount = r2.c.wcount
        /\ d.dlen = r2.c.dlen /\ d.base = r2.c.base
    BY <1>14, Zenon DEF Socket
  <2> HIDE DEF d
  <2> QED BY <1>13, <1>14, <2>2, <2>3 DEF Same, Receiver
<1> HIDE DEF d
<1>16. ServerStep(i, r1.c, t, total, past) BY <1>11, <1>13, <1>15, ServerRetouched
<1>17. t.c = d /\ t.out = r2.out /\ t.up = r2.up BY <1>14 DEF Results
<1> HIDE DEF t
<1>18. ServerStep(i, c, [c |-> t.c, out |-> r1.out \o t.out, up |-> r1.up /\ t.up], total, past)
  BY <1>1, <1>10, <1>16, ServerThen
<1>19. ServerStep(i, c, last, total, past) BY <1>17, <1>18
<1>20. SynReceivedProc(c, m) = IF ACK \in m.fl /\ m.ack = ULong(c.seq + 1) THEN last ELSE r1
  BY <1>5, Zenon DEF SynReceivedProc, a, r, r1, b, r2, d
<1> HIDE DEF last
<1> QED BY <1>10, <1>19, <1>20

(* A segment that is exact continues what was accepted.                     *)
LEMMA ServerTakes ==
  ASSUME Total[Client] < SeqSpace, NEW i \in Words, NEW past \in BOOLEAN, NEW w \in 0 .. Total[Client],
         NEW c, Receiver(i, c, Total[Client], past), c.st = STATE_ESTABLISHED,
         NEW m \in FromClient(i, w, past), RST \notin m.fl, Exact(c, m)
  PROVE  /\ Receiver(i, Take(c, m), Total[Client], past) /\ c.most <= Take(c, m).most
         /\ Take(c, m).st = STATE_ESTABLISHED
<1> DEFINE d == Take(c, m)
<1>1. c \in Socket /\ m \in Segments /\ c.st = STATE_ESTABLISHED BY DEF Receiver, FromClient
<1>2. CASE m.len = 0
  <2>1. d = c BY <1>1, <1>2, Takes
  <2> QED BY <1>1, <2>1 DEF Socket
<1>3. CASE m.len # 0
  <2>1. m.seq = Num(i, 1 + m.dat) /\ SYN \notin m.fl /\ m.dat >= 0 /\ m.len > 0 /\ m.dat + m.len <= w
    BY <1>3 DEF FromClient
  <2>2. c.ack = Num(i, 1 + c.taken) /\ 0 <= c.taken /\ c.taken <= c.most /\ c.most <= Total[Client] /\ c.intact
    BY <1>1 DEF Receiver
  <2>3. m.dat \in Int /\ m.len \in Int /\ c.taken \in Int /\ c.most \in Int /\ i \in Int /\ w \in Int
        /\ c.ack \in Words /\ m.seq \in Words /\ Total[Client] \in Int /\ w <= Total[Client]
        /\ Total[Client] < SeqSpace
    BY <1>1, LinkAssumption DEF Socket, Segments, Words, Host
  <2>4. c.ack = m.seq
    <3>1. ULong(c.ack - m.seq) = 0 BY <2>1 DEF Exact
    <3>2. (c.ack - m.seq) % LongSpace = 0 % LongSpace
      <4>1. 0 % LongSpace = 0 BY Numbers, Small
      <4> QED BY <3>1, <4>1 DEF ULong
    <3> DEFINE x == c.ack - m.seq
    <3>7. LongSpace \in Nat /\ SeqSpace \in Nat /\ SeqSpace <= LongSpace BY Numbers
    <3>3. x \in Int /\ 0 \in Int /\ x - 0 < LongSpace /\ 0 - x < LongSpace BY <2>3, <3>7 DEF Words
    <3>4. x % LongSpace = 0 % LongSpace BY <3>2
    <3>6. LongSpace \in Nat \ {0} BY Numbers
    <3> HIDE DEF x
    <3>5. x = 0 BY <3>3, <3>4, <3>6, NearEqual
    <3> QED BY <3>5, <2>3 DEF x, Words
  <2>5. c.taken = m.dat
    <3> DEFINE u == i + (1 + c.taken)  v == i + (1 + m.dat)
    <3>4. SeqSpace \in Nat BY Numbers
    <3>5. c.taken \in 0 .. Total[Client] /\ m.dat \in 0 .. Total[Client] BY <2>1, <2>2, <2>3
    <3>1. u \in Int /\ v \in Int /\ u - v < SeqSpace /\ v - u < SeqSpace BY <2>3, <3>4, <3>5
    <3>2. Word32(u) = Word32(v) BY <2>1, <2>2, <2>4 DEF Num
    <3> HIDE DEF u, v
    <3>3. u = v BY <3>1, <3>2, Numbers
    <3> QED BY <3>3, <2>3 DEF u, v
  <2>6. /\ d \in Socket /\ d.st = c.st /\ d.par = c.par /\ d.ip = c.ip
        /\ d.base = c.base /\ d.dlen = c.dlen /\ d.wcount = c.wcount
    BY <1>1, Takes
  <2>7. d.ack = Word32(c.ack + m.len) /\ d.taken = c.taken + m.len
        /\ d.most = (IF c.most > c.taken + m.len THEN c.most ELSE c.taken + m.len)
        /\ (c.intact /\ m.dat = c.taken => d.intact)
    BY <1>1, <1>3, Takes
  <2> HIDE DEF d
  <2>8. d.intact BY <2>2, <2>5, <2>7
  <2>9. d.ack = Num(i, 1 + d.taken)
    <3>1. i + (1 + c.taken) \in Int BY <2>3
    <3>2. Word32(Word32(i + (1 + c.taken)) + m.len) = Word32((i + (1 + c.taken)) + m.len)
      BY <3>1, <2>3, Numbers, Zenon
    <3>3. (i + (1 + c.taken)) + m.len = i + (1 + d.taken) BY <2>3, <2>7
    <3> QED BY <2>2, <2>7, <3>2, <3>3 DEF Num
  <2>10. 0 <= d.taken /\ d.taken <= d.most /\ c.most <= d.most /\ d.most <= Total[Client] /\ d.most \in Int
    BY <2>1, <2>2, <2>3, <2>5, <2>7
  <2>11. Acked(i, d.ack, d.most, past)
    <3>1. d.taken \in 0 .. d.most BY <2>10, <2>3, <2>7
    <3> QED BY <3>1, <2>9 DEF Acked
  <2>12. 0 <= d.most BY <2>10, <2>3, <2>7
  <2>13. Receiver(i, d, Total[Client], past)
    BY <1>1, <2>6, <2>8, <2>9, <2>10, <2>11, <2>12 DEF Receiver
  <2> QED BY <2>13, <2>10, <2>6, <1>1 DEF d
<1> QED BY <1>2, <1>3

LEMMA ServerAfter ==
  ASSUME NEW i, NEW total, NEW past, NEW c \in Socket, NEW f \in Socket, c.most <= f.most,
         NEW r, ServerStep(i, f, r, total, past)
  PROVE  ServerStep(i, c, r, total, past)
<1>1. r.c.most \in Int /\ c.most \in Int /\ f.most \in Int BY DEF ServerStep, Results, Socket
<1>2. c.most <= r.c.most BY <1>1 DEF ServerStep
<1> QED BY <1>2 DEF ServerStep

LEMMA ServerData ==
  ASSUME Total[Client] < SeqSpace, NEW i \in Words, NEW past \in BOOLEAN, NEW w \in 0 .. Total[Client],
         NEW c, Receiver(i, c, Total[Client], past), c.st = STATE_ESTABLISHED,
         NEW m \in FromClient(i, w, past), RST \notin m.fl
  PROVE  ServerStep(i, c, ProcessTcpData(c, m), Total[Client], past)
<1> DEFINE d == Take(c, m)
           e == [d EXCEPT !.ack = Word32(@ + 1), !.st = STATE_CLOSING, !.exp = TRUE]
           f == IF FIN \notin m.fl THEN d ELSE e
<1>1. c \in Socket /\ c.st = STATE_ESTABLISHED /\ Same(c, c) BY Itself
<1>2. ProcessTcpData(c, m) = IF ~Exact(c, m) THEN SendSocket(c)
                             ELSE IF m.len > 0 \/ f.st # c.st THEN SendSocket(f) ELSE Done(f)
  BY <1>1, Processed
<1>3. ServerStep(i, c, SendSocket(c), Total[Client], past) BY <1>1, ServerSends
<1>4. ASSUME Exact(c, m) PROVE Receiver(i, f, Total[Client], past) /\ f \in Socket /\ c.most <= f.most
  <2>1. Receiver(i, d, Total[Client], past) /\ c.most <= d.most /\ d.st = STATE_ESTABLISHED
    BY <1>4, ServerTakes
  <2>2. CASE FIN \notin m.fl BY <2>1, <2>2 DEF Receiver
  <2>3. CASE FIN \in m.fl
    <3>1. past = TRUE BY <2>3 DEF FromClient
    <3>2. d \in Socket /\ d.taken \in Int /\ i \in Int /\ d.ack = Num(i, 1 + d.taken)
          /\ 0 <= d.taken /\ d.taken <= d.most /\ d.most \in Int
      BY <2>1 DEF Receiver, Socket, Words
    <3> HIDE DEF d
    <3>3. Word32(d.ack + 1) = Num(i, 2 + d.taken)
      <4>1. i + (1 + d.taken) \in Int /\ 1 \in Int BY <3>2
      <4>2. Word32(Word32(i + (1 + d.taken)) + 1) = Word32((i + (1 + d.taken)) + 1)
        BY <4>1, Numbers, Zenon
      <4>3. (i + (1 + d.taken)) + 1 = i + (2 + d.taken) BY <3>2
      <4> QED BY <3>2, <4>2, <4>3 DEF Num
    <3>4. Word32(d.ack + 1) \in Words
      <4>1. d.ack + 1 \in Int BY <3>2 DEF Socket, Words
      <4> QED BY <4>1, Numbers
    <3>5. e \in Socket BY <3>2, <3>4, Known, ZenonT(40) DEF Socket
    <3>6. /\ e.st = STATE_CLOSING /\ e.par = d.par /\ e.ack = Word32(d.ack + 1) /\ e.most = d.most
          /\ e.intact = d.intact /\ e.wcount = d.wcount /\ e.dlen = d.dlen /\ e.base = d.base
      BY <3>2, Zenon DEF Socket
    <3>7. Acked(i, Word32(d.ack + 1), d.most, past)
      <4>1. d.taken \in 0 .. d.most BY <3>2
      <4> QED BY <4>1, <3>1, <3>3 DEF Acked
    <3> HIDE DEF e
    <3>8. Receiver(i, e, Total[Client], past) BY <2>1, <3>5, <3>6, <3>7 DEF Receiver
    <3> QED BY <2>1, <2>3, <3>5, <3>6, <3>8
  <2> QED BY <2>2, <2>3
<1> HIDE DEF f
<1>5. ASSUME Exact(c, m) PROVE /\ ServerStep(i, c, SendSocket(f), Total[Client], past)
                              /\ ServerStep(i, c, Done(f), Total[Client], past)
  <2>1. Receiver(i, f, Total[Client], past) /\ f \in Socket /\ c.most <= f.most /\ Same(f, f)
    BY <1>4, <1>5, Itself
  <2>2. ServerStep(i, f, SendSocket(f), Total[Client], past) BY <2>1, ServerSends
  <2>3. ServerStep(i, f, Done(f), Total[Client], past) BY <2>1, ServerDone
  <2> QED BY <1>1, <2>1, <2>2, <2>3, ServerAfter
<1> QED BY <1>2, <1>3, <1>5

LEMMA ServerReleases ==
  ASSUME NEW i, NEW total, NEW past, NEW c, Receiver(i, c, total, past), c.st = STATE_ESTABLISHED,
         NEW m \in Segments, NEW n, n = c.dlen - Outstanding(c, m), Outstanding(c, m) <= c.dlen
  PROVE  Same(c, Release(c, n)) /\ Release(c, n).st = STATE_ESTABLISHED
<1> DEFINE left == Outstanding(c, m)
           d == Release(c, n)
<1>1. c \in Socket /\ c.st = STATE_ESTABLISHED BY DEF Receiver
<1>2. c.seq \in Int /\ c.dlen \in Int /\ c.wcount \in Int /\ c.base \in Int /\ m.ack \in Int
  BY <1>1 DEF Socket, Segments, Words
<1>3. left \in Int /\ 0 <= left
  <2>1. c.seq + c.dlen \in Int BY <1>2
  <2>2. ULong(c.seq + c.dlen) \in Int BY <2>1, Numbers
  <2> DEFINE x == ULong(c.seq + c.dlen) - m.ack
  <2>3. x \in Int BY <2>2, <1>2
  <2> HIDE DEF x
  <2>4. ULong(x) \in 0 .. LongSpace - 1 BY <2>3, Numbers
  <2>5. left = ULong(x) BY DEF Outstanding, x
  <2> HIDE DEF left
  <2> QED BY <2>4, <2>5, Numbers
<1>4. n = c.dlen - left /\ left <= c.dlen OBVIOUS
<1> HIDE DEF left
<1>5. n \in Int /\ (Quiet => n = 0) BY <1>2, <1>3, <1>4 DEF Receiver
<1>6. c.seq + n \in Int /\ c.wcount - n \in Int /\ c.dlen - n \in Int /\ c.base + n \in Int BY <1>2, <1>5
<1>7. Word32(c.seq + n) \in Words BY <1>6, Numbers
<1>8. PICK b \in BOOLEAN : b = (c.dlen # n) OBVIOUS
<1>9. d = [c EXCEPT !.flags = {ACK}, !.err = 0, !.wcount = c.wcount - n, !.dlen = c.dlen - n,
                    !.base = c.base + n, !.seq = Word32(c.seq + n), !.exp = b]
  BY <1>1, <1>8 DEF Release, Socket
<1> HIDE DEF d
<1>10. d \in Socket
  <2> DEFINE fl == {ACK}
             u == [c EXCEPT !.flags = fl, !.err = 0, !.seq = Word32(c.seq + n), !.exp = b]
             v == [u EXCEPT !.wcount = c.wcount - n, !.dlen = c.dlen - n, !.base = c.base + n]
  <2>1. fl \in SUBSET Flags /\ 0 \in Int BY Known
  <2>2. d = v BY <1>1, <1>9 DEF Socket
  <2> HIDE DEF fl
  <2>3. u \in Socket BY <1>1, <1>7, <1>8, <2>1, Zenon DEF Socket
  <2> HIDE DEF u
  <2>4. v \in Socket BY <1>6, <2>3, Zenon DEF Socket
  <2> QED BY <2>2, <2>4
<1>11. /\ d.st = c.st /\ d.par = c.par /\ d.ack = c.ack /\ d.taken = c.taken /\ d.most = c.most
       /\ d.intact = c.intact /\ d.ip = c.ip /\ d.wcount = c.wcount - n /\ d.dlen = c.dlen - n
       /\ d.base = c.base + n
  BY <1>1, <1>9, Zenon DEF Socket
<1>14. Quiet => c.wcount = 0 /\ c.dlen = 0 /\ c.base = 0 BY DEF Receiver
<1>12. ASSUME Quiet PROVE d.wcount = 0 /\ d.dlen = 0 /\ d.base = 0
  <2>1. n = 0 /\ c.wcount = 0 /\ c.dlen = 0 /\ c.base = 0 BY <1>5, <1>12, <1>14
  <2>2. d.wcount = 0 - 0 /\ d.dlen = 0 - 0 /\ d.base = 0 + 0 BY <1>11, <2>1
  <2> QED BY <2>2
<1>13. Same(c, d) BY <1>1, <1>10, <1>11, <1>12 DEF Same
<1> QED BY <1>1, <1>11, <1>13 DEF d

LEMMA ServerEstablished ==
  ASSUME Total[Client] < SeqSpace, NEW i \in Words, NEW past \in BOOLEAN, NEW w \in 0 .. Total[Client],
         NEW c, Receiver(i, c, Total[Client], past), c.st = STATE_ESTABLISHED,
         NEW m \in FromClient(i, w, past), RST \notin m.fl
  PROVE  ServerStep(i, c, EstablishedProc(c, m), Total[Client], past)
<1> DEFINE left == Outstanding(c, m)
           n == c.dlen - left
           e == Release(c, n)
           d == IF left <= c.dlen THEN e ELSE c
<1>1. c \in Socket /\ m \in Segments /\ c.st = STATE_ESTABLISHED /\ Same(c, c) BY Itself DEF FromClient
<1>2. Same(c, d) /\ d.st = STATE_ESTABLISHED
  <2>1. CASE left <= c.dlen
    <3>1. n = c.dlen - Outstanding(c, m) /\ Outstanding(c, m) <= c.dlen BY <2>1
    <3> HIDE DEF n
    <3>2. Same(c, e) /\ e.st = STATE_ESTABLISHED BY <1>1, <3>1, ServerReleases
    <3> QED BY <2>1, <3>2
  <2>2. CASE ~(left <= c.dlen) BY <2>2, <1>1
  <2> QED BY <2>1, <2>2
<1>3. EstablishedProc(c, m) = IF ACK \notin m.fl THEN Done(c)
                              ELSE IF m.fl # {ACK} \/ m.len > 0 THEN ProcessTcpData(d, m) ELSE Done(d)
  BY Zenon DEF EstablishedProc
<1> HIDE DEF d
<1>4. Receiver(i, d, Total[Client], past) /\ c.most <= d.most /\ d \in Socket BY <1>2, Sames DEF Same
<1>5. ServerStep(i, d, ProcessTcpData(d, m), Total[Client], past) BY <1>2, <1>4, ServerData
<1>6. ServerStep(i, c, ProcessTcpData(d, m), Total[Client], past) BY <1>1, <1>4, <1>5, ServerAfter
<1>7. ServerStep(i, c, Done(c), Total[Client], past) /\ ServerStep(i, c, Done(d), Total[Client], past)
  BY <1>1, <1>2, ServerDone
<1> QED BY <1>3, <1>6, <1>7

Serving(c) == c.st \in {STATE_SYN_RECEIVED, STATE_ESTABLISHED}

LEMMA ServerCloses ==
  ASSUME NEW i, NEW total, NEW past, NEW c, Receiver(i, c, total, past), ~Serving(c), NEW m
  PROVE  /\ ServerStep(i, c, ClosingProc(c, m), total, past)
         /\ ServerStep(i, c, LastAckProc(c, m), total, past)
<1> DEFINE a == [c EXCEPT !.flags = {ACK, FIN}]
           r == SendSocket(a)
           z == [r.c EXCEPT !.exp = TRUE, !.err = MaxErr - 1]
           z2 == [r.c EXCEPT !.err = 0]
           x == [c EXCEPT !.err = 0, !.flags = {ACK}]
           over == STATE_TIME_WAIT
           fl == {ACK, FIN}
           t == [c EXCEPT !.st = over, !.err = 0, !.flags = fl]
           y == [c EXCEPT !.exp = FALSE, !.dlen = 0, !.err = 0]
<1>1. c \in Socket /\ Same(c, c) BY Itself
<1>2. Same(c, a) /\ Same(c, x) BY Known, SameFlags
<1>3. over \in Reached /\ fl \in SUBSET Flags /\ over = STATE_TIME_WAIT BY Known
<1>4. ClosingProc(c, m) = IF m.ack = ULong(c.seq + 1)
                            THEN IF c.rcount > 0 THEN Done(x) ELSE SendSocket(t)
                            ELSE [r EXCEPT !.c.exp = TRUE, !.c.err = MaxErr - 1]
  BY Zenon DEF ClosingProc
<1>5. LastAckProc(c, m) = IF m.ack = ULong(c.seq + 1) THEN Done(Nuke(y)) ELSE [r EXCEPT !.c.err = 0]
  BY Zenon DEF LastAckProc
<1> HIDE DEF a, x, over, fl
<1>6. ServerStep(i, c, r, total, past) BY <1>2, ServerSends
<1> HIDE DEF r
<1>7. r \in Results /\ r.c \in Socket /\ Receiver(i, r.c, total, past) BY <1>6 DEF ServerStep, Results
<1>8. [r EXCEPT !.c.exp = TRUE, !.c.err = MaxErr - 1] = [r EXCEPT !.c = z] BY <1>7 DEF Results
<1>9. [r EXCEPT !.c.err = 0] = [r EXCEPT !.c = z2] BY <1>7 DEF Results
<1>10. Same(r.c, z2) BY <1>7, Known, SameFlags
<1>11. Same(r.c, z)
  <2>1. z \in Socket BY <1>7, Known, Zenon DEF Socket
  <2>2. /\ z.st = r.c.st /\ z.par = r.c.par /\ z.ack = r.c.ack /\ z.taken = r.c.taken /\ z.most = r.c.most
        /\ z.intact = r.c.intact /\ z.ip = r.c.ip /\ z.wcount = r.c.wcount /\ z.dlen = r.c.dlen
        /\ z.base = r.c.base
    BY <1>7, Zenon DEF Socket
  <2> HIDE DEF z
  <2> QED BY <1>7, <2>1, <2>2 DEF Same, Receiver, Serving
<1> HIDE DEF z, z2
<1>12. ServerStep(i, c, [r EXCEPT !.c = z], total, past) /\ ServerStep(i, c, [r EXCEPT !.c = z2], total, past)
  BY <1>1, <1>6, <1>10, <1>11, ServerRetouched
<1>13. Same(c, t)
  <2>3. 0 \in Int /\ over \in Reached /\ fl \in SUBSET Flags BY <1>3, Known
  <2>1. t \in Socket BY <1>1, <2>3, Zenon DEF Socket
  <2>2. /\ t.st = over /\ t.par = c.par /\ t.ack = c.ack /\ t.most = c.most
        /\ t.intact = c.intact /\ t.ip = c.ip /\ t.wcount = c.wcount /\ t.dlen = c.dlen /\ t.base = c.base
    BY <1>1, Zenon DEF Socket
  <2> HIDE DEF t
  <2> QED BY <1>1, <1>3, <2>1, <2>2 DEF Same, Receiver, Serving
<1>14. Same(c, y)
  <2>1. y \in Socket BY <1>1, Known, Zenon DEF Socket
  <2>2. /\ y.st = c.st /\ y.par = c.par /\ y.ack = c.ack /\ y.most = c.most
        /\ y.intact = c.intact /\ y.ip = c.ip /\ y.wcount = c.wcount /\ y.dlen = 0 /\ y.base = c.base
    BY <1>1, Zenon DEF Socket
  <2> HIDE DEF y
  <2> QED BY <1>1, <2>1, <2>2 DEF Same, Receiver, Serving
<1> HIDE DEF t, y
<1>15. ServerStep(i, c, Done(x), total, past) BY <1>2, ServerDone
<1>16. ServerStep(i, c, SendSocket(t), total, past) BY <1>13, ServerSends
<1>17. ServerStep(i, c, Done(Nuke(y)), total, past)
  <2>1. Same(c, Nuke(y)) BY <1>14, ServerNukes
  <2> QED BY <2>1, ServerDone
<1>18. ServerStep(i, c, ClosingProc(c, m), total, past) BY <1>4, <1>8, <1>12, <1>15, <1>16 DEF t, over, fl
<1>19. ServerStep(i, c, LastAckProc(c, m), total, past) BY <1>5, <1>9, <1>12, <1>17
<1> QED BY <1>18, <1>19

LEMMA ServerTcp ==
  ASSUME Total[Client] < SeqSpace, NEW i \in Words, NEW past \in BOOLEAN, NEW w \in 0 .. Total[Client],
         NEW c, Receiver(i, c, Total[Client], past), NEW m \in FromClient(i, w, past), NEW isn \in Words
  PROVE  ServerStep(i, c, Tcp(c, m, isn), Total[Client], past)
<1> DEFINE x == [c EXCEPT !.dlen = 0, !.wcount = 0, !.rcount = 0]
           out == IF RST \in m.fl \/ SYN \in m.fl THEN << >> ELSE RstSpecial(m)
<1>1. c \in Socket /\ m \in Segments /\ Same(c, c) BY Itself DEF FromClient
<1>2. c.st \in {STATE_CLOSED, STATE_LISTEN, STATE_SYN_RECEIVED, STATE_ESTABLISHED, STATE_CLOSING,
                STATE_LAST_ACK, STATE_TIME_WAIT}
  BY <1>1 DEF Receiver, Socket, Reached
<1>3. CASE c.st = STATE_CLOSED
  <2>1. Tcp(c, m, isn) = [c |-> c, out |-> out, up |-> TRUE] BY <1>3 DEF Tcp
  <2>2. out \in {<< >>, RstSpecial(m)} OBVIOUS
  <2> HIDE DEF out
  <2> QED BY <2>1, <2>2, <1>1, ServerRefuses
<1>4. CASE RST \in m.fl /\ c.st # STATE_CLOSED
  <2>1. Tcp(c, m, isn) = IF c.st > STATE_NOTINIT THEN TcpRst(x) ELSE Done(c) BY <1>2, <1>4 DEF Tcp
  <2>2. ServerStep(i, c, TcpRst(x), Total[Client], past) BY ServerResets
  <2>3. ServerStep(i, c, Done(c), Total[Client], past) BY <1>1, ServerDone
  <2> QED BY <2>1, <2>2, <2>3
<1>5. CASE RST \notin m.fl /\ c.st # STATE_CLOSED
  <2>1. Tcp(c, m, isn) = ProcTcp(c, m, isn) BY <1>2, <1>5 DEF Tcp
  <2>2. CASE c.st = STATE_LISTEN
    <3>1. ProcTcp(c, m, isn) = ListenProc(c, m, isn) BY <2>2 DEF ProcTcp
    <3> QED BY <2>1, <3>1, <1>5, ServerListens
  <2>3. CASE c.st = STATE_SYN_RECEIVED
    <3>1. ProcTcp(c, m, isn) = SynReceivedProc(c, m) BY <2>3 DEF ProcTcp
    <3> QED BY <2>1, <2>3, <3>1, ServerSynReceived
  <2>4. CASE c.st = STATE_ESTABLISHED
    <3>1. ProcTcp(c, m, isn) = EstablishedProc(c, m) BY <2>4 DEF ProcTcp
    <3> QED BY <2>1, <2>4, <3>1, <1>5, ServerEstablished
  <2>5. CASE c.st = STATE_CLOSING
    <3>1. ProcTcp(c, m, isn) = ClosingProc(c, m) BY <2>5 DEF ProcTcp
    <3> QED BY <2>1, <2>5, <3>1, ServerCloses DEF Serving
  <2>6. CASE c.st = STATE_LAST_ACK
    <3>1. ProcTcp(c, m, isn) = LastAckProc(c, m) BY <2>6 DEF ProcTcp
    <3> QED BY <2>1, <2>6, <3>1, ServerCloses DEF Serving
  <2>7. CASE c.st = STATE_TIME_WAIT
    <3>1. ProcTcp(c, m, isn) = Done(Nuke(c)) BY <2>7 DEF ProcTcp
    <3>2. Same(c, Nuke(c)) BY <1>1, ServerNukes
    <3> QED BY <2>1, <3>1, <3>2, ServerDone
  <2> QED BY <1>2, <1>5, <2>2, <2>3, <2>4, <2>5, <2>6, <2>7
<1> QED BY <1>3, <1>4, <1>5

LEMMA ServerRound ==
  ASSUME NEW i, NEW total, NEW past, NEW c, Receiver(i, c, total, past), NEW expired \in BOOLEAN
  PROVE  ServerStep(i, c, CheckRound(c, expired), total, past)
<1> DEFINE late == expired /\ c.exp
           fresh == c.wcount - c.dlen # 0 /\ c.dlen < MaxTailW
           pushing == late /\ ~Spent(c) /\ c.st > STATE_SYN_RECEIVED /\ c.st < STATE_FINWAIT1
           fl == IF fresh \/ pushing THEN {PSH, ACK} ELSE c.flags
           er == IF late THEN c.err + 1 ELSE c.err
           d == [c EXCEPT !.err = er, !.flags = fl]
           a == [d EXCEPT !.dlen = 0]
<1>1. c \in Socket /\ Same(c, c) BY Itself
<1>2. fl \in SUBSET Flags /\ er \in Int BY <1>1, Known DEF Socket
<1>3. CheckRound(c, expired) = CASE late /\ Spent(c) -> Done([Nuke(d) EXCEPT !.dlen = 0])
                                 [] late /\ ~Spent(c) -> SendSocket(a)
                                 [] ~late /\ fresh -> SendSocket(d)
                                 [] OTHER -> Done(c)
  <2>1. d = [c EXCEPT !.flags = fl, !.err = er] OBVIOUS
  <2> HIDE DEF d
  <2> QED BY <2>1, Zenon DEF CheckRound, StartAgain, a, fl, er
<1> HIDE DEF fl, er, late, fresh
<1>4. Same(c, d) BY <1>2, SameFlags
<1>5. d \in Socket BY <1>4 DEF Same
<1> HIDE DEF d
<1>6. Same(c, a)
  <2>1. a \in Socket BY <1>5, Known, Zenon DEF Socket
  <2>2. /\ a.st = d.st /\ a.par = d.par /\ a.ack = d.ack /\ a.taken = d.taken /\ a.most = d.most
        /\ a.intact = d.intact /\ a.ip = d.ip /\ a.wcount = d.wcount /\ a.dlen = 0 /\ a.base = d.base
    BY <1>5, Zenon DEF Socket
  <2> HIDE DEF a
  <2> QED BY <1>4, <2>1, <2>2 DEF Same
<1> HIDE DEF a
<1>7. ServerStep(i, c, Done([Nuke(d) EXCEPT !.dlen = 0]), total, past) BY <1>4, ServerNukes, ServerDone
<1>8. ServerStep(i, c, SendSocket(a), total, past) /\ ServerStep(i, c, SendSocket(d), total, past)
  BY <1>4, <1>6, ServerSends
<1>9. ServerStep(i, c, Done(c), total, past) BY <1>1, ServerDone
<1> QED BY <1>3, <1>7, <1>8, <1>9

LEMMA ServerChecked ==
  ASSUME NEW i, NEW total, NEW past, NEW c, Receiver(i, c, total, past), NEW expired \in BOOLEAN
  PROVE  ServerStep(i, c, CheckSockets(c, expired), total, past)
<1> DEFINE r1 == CheckRound(c, expired)
           r2 == CheckRound(r1.c, FALSE)
           t == [c |-> r2.c, out |-> r1.out \o r2.out, up |-> r1.up /\ r2.up]
<1>1. c \in Socket /\ Same(c, c) /\ Same(c, Nuke(c)) BY Itself, ServerNukes
<1>2. ServerStep(i, c, Done(c), total, past) /\ ServerStep(i, c, Done(Nuke(c)), total, past)
  BY <1>1, ServerDone
<1>3. ServerStep(i, c, r1, total, past) BY ServerRound
<1>4. CheckSockets(c, expired) = IF c.st = STATE_CLOSED /\ c.par THEN Done(Nuke(c))
                                 ELSE IF ~(c.st > STATE_UDP) THEN Done(c)
                                 ELSE IF r1.out = << >> THEN r1 ELSE t
  BY Zenon DEF CheckSockets
<1> HIDE DEF r1
<1>5. ServerStep(i, r1.c, r2, total, past)
  <2>1. Receiver(i, r1.c, total, past) BY <1>3 DEF ServerStep
  <2> QED BY <2>1, ServerRound
<1>6. ServerStep(i, c, t, total, past) BY <1>1, <1>3, <1>5, ServerThen
<1> QED BY <1>2, <1>3, <1>4, <1>6

LEMMA ServerWrites ==
  ASSUME NEW i, NEW total, NEW past, NEW c, Receiver(i, c, total, past), NEW n \in Nat, ~Quiet
  PROVE  ServerStep(i, c, Done(WriteTcpBytes(c, n)), total, past)
<1> DEFINE k == c.wcount + (IF n > MaxTailW - c.wcount THEN MaxTailW - c.wcount ELSE n)
           d == [c EXCEPT !.wcount = k]
<1>1. c \in Socket /\ Same(c, c) BY Itself
<1>2. k \in Int BY <1>1, TcpAssumption DEF Socket
<1>3. WriteTcpBytes(c, n) = IF c.st # STATE_ESTABLISHED THEN c ELSE d BY Zenon DEF WriteTcpBytes
<1> HIDE DEF k
<1>4. Same(c, d)
  <2>1. d \in Socket BY <1>1, <1>2, Zenon DEF Socket
  <2>2. /\ d.st = c.st /\ d.par = c.par /\ d.ack = c.ack /\ d.taken = c.taken /\ d.most = c.most
        /\ d.intact = c.intact /\ d.ip = c.ip
    BY <1>1, Zenon DEF Socket
  <2> HIDE DEF d
  <2> QED BY <1>1, <2>1, <2>2 DEF Same
<1> HIDE DEF d
<1>5. ServerStep(i, c, Done(c), total, past) /\ ServerStep(i, c, Done(d), total, past)
  BY <1>1, <1>4, ServerDone
<1> QED BY <1>3, <1>5

LEMMA ServerReads ==
  ASSUME NEW i, NEW total, NEW past, NEW c, Receiver(i, c, total, past), NEW n \in Nat
  PROVE  ServerStep(i, c, SockRead(c, n), total, past)
<1> DEFINE d == Drain(c, n)
           e == [d EXCEPT !.err = 0, !.flags = {ACK}]
           advertise == /\ n > 2 \/ (d.rcount < LowMark /\ n > 0)
                        /\ \/ d.rcount = 0
                           \/ d.rcount < MaxTailR \div 2 /\ c.rcount > MaxTailR \div 2
<1>1. c \in Socket BY Itself
<1>2. SockRead(c, n) = IF c.st # STATE_ESTABLISHED \/ c.dlen # 0 THEN Done(d)
                       ELSE IF c.wcount # 0 THEN SendSocket(d)
                       ELSE IF advertise THEN SendSocket(e) ELSE Done(d)
  <2>1. e = [d EXCEPT !.flags = {ACK}, !.err = 0] OBVIOUS
  <2> HIDE DEF e
  <2> QED BY <2>1, Zenon DEF SockRead, d
<1> HIDE DEF advertise
<1>3. Same(c, d)
  <2>1. c.rcount - n \in Int BY <1>1 DEF Socket
  <2>2. Same(c, [c EXCEPT !.rcount = c.rcount - n]) BY <2>1, SameFlags
  <2> QED BY <2>2 DEF Drain
<1> HIDE DEF d
<1>4. Same(c, e)
  <2>1. Receiver(i, d, total, past) /\ d \in Socket BY <1>3, Sames DEF Same
  <2>2. Same(d, e) BY <2>1, Known, SameFlags
  <2> HIDE DEF e
  <2> QED BY <1>3, <2>2 DEF Same
<1> HIDE DEF e
<1>5. ServerStep(i, c, SendSocket(d), total, past) /\ ServerStep(i, c, SendSocket(e), total, past)
  BY <1>3, <1>4, ServerSends
<1>6. ServerStep(i, c, Done(d), total, past) BY <1>3, ServerDone
<1> QED BY <1>2, <1>5, <1>6

LEMMA ServerEnds ==
  ASSUME NEW i, NEW total, NEW past, NEW c, Receiver(i, c, total, past)
  PROVE  LET d == [c EXCEPT !.rcount = 0] IN
         /\ ServerStep(i, c, Done(d), total, past) /\ ServerStep(i, c, Done(Nuke(d)), total, past)
         /\ ServerStep(i, c, Done(Nuke(c)), total, past)
<1> DEFINE d == [c EXCEPT !.rcount = 0]
<1>1. Same(c, c) /\ Same(c, d) BY Itself, Known, SameFlags
<1> HIDE DEF d
<1>2. Same(c, Nuke(c)) /\ Same(c, Nuke(d)) BY <1>1, ServerNukes
<1>3. /\ ServerStep(i, c, Done(d), total, past) /\ ServerStep(i, c, Done(Nuke(d)), total, past)
      /\ ServerStep(i, c, Done(Nuke(c)), total, past)
  BY <1>1, <1>2, ServerDone
<1> QED BY <1>3 DEF d

LEMMA ServerFin ==
  ASSUME NEW i, NEW total, NEW past, NEW c, Receiver(i, c, total, past)
  PROVE  ServerStep(i, c, SendFin(c), total, past)
<1> DEFINE fl == {ACK, FIN}
           fin == STATE_LAST_ACK
           f == [c EXCEPT !.st = fin, !.exp = TRUE, !.flags = fl, !.err = 0]
<1>1. c \in Socket BY Itself
<1>2. fl \in SUBSET Flags /\ fin \in Reached BY Known
<1>3. fin = STATE_LAST_ACK OBVIOUS
<1>4. SendFin(c) = SendSocket(f)
  <2>1. c.st # STATE_PEER_RESET BY <1>1 DEF Socket, Reached
  <2> QED BY <2>1, Zenon DEF SendFin
<1> HIDE DEF fl, fin
<1>5. f \in Socket BY <1>1, <1>2, Known, Zenon DEF Socket
<1>6. /\ f.st = fin /\ f.par = c.par /\ f.ack = c.ack /\ f.most = c.most /\ f.intact = c.intact /\ f.ip = c.ip
      /\ f.wcount = c.wcount /\ f.dlen = c.dlen /\ f.base = c.base
  BY <1>1, Zenon DEF Socket
<1> HIDE DEF f
<1>7. Same(c, f) BY <1>3, <1>5, <1>6 DEF Same, Receiver
<1> QED BY <1>4, <1>7, ServerSends

-----------------------------------------------------------------------------
(* The network, and the two hosts together.                                 *)
LEMMA Transmits ==
  ASSUME NEW M, NEW q \in Queues(M), NEW ms \in Seq(M)
  PROVE  Transmit(q, ms) \in Queues(M)
<1>1. CASE Routed
  <2>1. ToSet(ms) \subseteq M BY DEF ToSet
  <2> QED BY <1>1, <2>1 DEF Queues, Transmit
<1>2. CASE ~Routed
  <2> DEFINE all == q \o ms
             n == IF Len(all) > MaxNet THEN MaxNet ELSE Len(all)
  <2>1. q \in Seq(M) BY <1>2 DEF Queues
  <2>2. all \in Seq(M) BY <2>1
  <2>3. n \in 0 .. Len(all) BY <2>2, LinkAssumption
  <2>4. Transmit(q, ms) = SubSeq(all, 1, n) BY <1>2 DEF Transmit
  <2> HIDE DEF all, n
  <2>5. \A k \in 1 .. n : all[k] \in M BY <2>2, <2>3
  <2>6. SubSeq(all, 1, n) \in Seq(M) BY <2>2, <2>3, <2>5
  <2> QED BY <1>2, <2>4, <2>6 DEF Queues
<1> QED BY <1>1, <1>2

LEMMA QueuesGrow == ASSUME NEW M, NEW N, M \subseteq N PROVE Queues(M) \subseteq Queues(N)
<1>1. Seq(M) \subseteq Seq(N) BY Wider
<1> QED BY <1>1 DEF Queues

LEMMA Taken ==
  ASSUME NEW M, NEW q \in Queues(M), ~Routed, q # << >>
  PROVE  Head(q) \in M /\ Tail(q) \in Queues(M)
<1>1. q \in Seq(M) BY DEF Queues
<1> QED BY <1>1 DEF Queues

(* What may be under way only grows.                                        *)
LEMMA MoreSent ==
  ASSUME NEW i, NEW v \in Int, NEW w \in Int, v <= w, NEW past, NEW then, past => then
  PROVE  FromClient(i, v, past) \subseteq FromClient(i, w, then)
<1> SUFFICES ASSUME NEW m \in FromClient(i, v, past) PROVE m \in FromClient(i, w, then)
  OBVIOUS
<1>1. m \in Segments /\ m.dat \in Int /\ m.len \in Int BY DEF FromClient, Segments
<1>2. m.dat + m.len <= v => m.dat + m.len <= w BY <1>1
<1> QED BY <1>1, <1>2 DEF FromClient

LEMMA MoreAcked ==
  ASSUME NEW i, NEW most, NEW past, NEW then, past => then
  PROVE  /\ \A a : Acked(i, a, most, past) => Acked(i, a, most, then)
         /\ FromServer(i, most, past) \subseteq FromServer(i, most, then)
<1>1. \A a : Acked(i, a, most, past) => Acked(i, a, most, then) BY DEF Acked
<1> QED BY <1>1 DEF FromServer

Inv(i) ==
  /\ app \in [Host -> AppStates] /\ app[Client] # "idle"
  /\ sk \in [Host -> Socket] /\ net = [h \in Host |-> net[h]]
  /\ wrote \in [Host -> Int] /\ wrote[Client] \in 0 .. Total[Client] /\ (Quiet => wrote[Server] = 0)
  /\ Sender(i, sk[Client], wrote[Client], sk[Server].most)
  /\ Receiver(i, sk[Server], Total[Client], Past(sk[Client]))
  /\ net[Server] \in Queues(FromClient(i, wrote[Client], Past(sk[Client])))
  /\ net[Client] \in Queues(FromServer(i, sk[Server].most, Past(sk[Client])))

(* Before the connect nothing but it can happen; from then on the numbers   *)
(* of the stream begin with the one the connect took.                       *)
Start ==
  /\ sk = [h \in Host |-> IF h = Server THEN Child ELSE Blank]
  /\ app = [h \in Host |-> "idle"] /\ wrote = [h \in Host |-> 0]
  /\ net = [h \in Host |-> IF Routed THEN {} ELSE << >>]

IInv == Start \/ \E i \in Isn : Inv(i)

LEMMA Hosts ==
  /\ Client \in Host /\ Server \in Host /\ Client # Server
  /\ Peer(Client) = Server /\ Peer(Server) = Client
  /\ Total[Client] \in Nat /\ Total[Server] \in Nat /\ Isn \subseteq Words
  /\ \A h \in Host : h = Client \/ h = Server
BY LinkAssumption DEF Host, Peer, Words

LEMMA Applied ==
  ASSUME NEW h \in Host, NEW r, NEW q, Apply(h, r, q), sk \in [Host -> Socket], r \in Results,
         net = [g \in Host |-> net[g]]
  PROVE  /\ sk' \in [Host -> Socket] /\ net' = [g \in Host |-> net'[g]]
         /\ sk'[h] = r.c /\ sk'[Peer(h)] = sk[Peer(h)]
         /\ net'[h] = q /\ net'[Peer(h)] = Transmit(net[Peer(h)], r.out)
<1>1. r.c \in Socket BY DEF Results
<1>2. Peer(h) \in Host /\ Peer(h) # h BY Hosts
<1>3. sk' = [sk EXCEPT ![h] = r.c] /\ net' = [net EXCEPT ![h] = q, ![Peer(h)] = Transmit(@, r.out)]
  BY DEF Apply
<1> QED BY <1>1, <1>2, <1>3

(* A step of the client's socket.                                           *)
LEMMA ClientApplies ==
  ASSUME NEW i, Inv(i), NEW r, NEW q, Apply(Client, r, q),
         NEW w \in 0 .. Total[Client], wrote[Client] <= w, wrote' = [wrote EXCEPT ![Client] = w],
         ClientStep(i, sk[Client], r, w, sk[Server].most),
         q \in Queues(FromServer(i, sk[Server].most, Past(sk[Client]))),
         app' \in [Host -> AppStates], app'[Client] # "idle"
  PROVE  Inv(i)'
<1>1. /\ sk \in [Host -> Socket] /\ net = [h \in Host |-> net[h]] /\ wrote \in [Host -> Int]
      /\ wrote[Client] \in Int
  BY Hosts DEF Inv
<1>2. r \in Results /\ Sender(i, r.c, w, sk[Server].most) /\ r.out \in Seq(FromClient(i, w, Past(r.c)))
      /\ (Past(sk[Client]) => Past(r.c))
  BY DEF ClientStep, Client1
<1>3. /\ sk' \in [Host -> Socket] /\ net' = [h \in Host |-> net'[h]]
      /\ sk'[Client] = r.c /\ sk'[Server] = sk[Server]
      /\ net'[Client] = q /\ net'[Server] = Transmit(net[Server], r.out)
  BY <1>1, <1>2, Applied, Hosts
<1>4. w \in Int BY Hosts
<1>5. wrote' \in [Host -> Int] /\ wrote'[Client] = w /\ wrote'[Server] = wrote[Server]
  BY <1>1, <1>4, Hosts
<1>6. net'[Server] \in Queues(FromClient(i, w, Past(r.c)))
  <2>1. net[Server] \in Queues(FromClient(i, wrote[Client], Past(sk[Client]))) BY DEF Inv
  <2>2. net[Server] \in Queues(FromClient(i, w, Past(r.c)))
    BY <1>1, <1>2, <1>4, <2>1, MoreSent, QueuesGrow
  <2> QED BY <1>2, <1>3, <2>2, Transmits
<1>7. net'[Client] \in Queues(FromServer(i, sk[Server].most, Past(r.c)))
  BY <1>2, <1>3, MoreAcked, QueuesGrow
<1>8. Receiver(i, sk[Server], Total[Client], Past(r.c))
  <2>1. Receiver(i, sk[Server], Total[Client], Past(sk[Client])) BY DEF Inv
  <2> DEFINE past == Past(sk[Client])  then == Past(r.c)
  <2>2. past => then BY <1>2
  <2> HIDE DEF past, then
  <2>3. Acked(i, sk[Server].ack, sk[Server].most, past) => Acked(i, sk[Server].ack, sk[Server].most, then)
    BY <2>2, MoreAcked
  <2>4. Receiver(i, sk[Server], Total[Client], past) BY <2>1 DEF past
  <2>5. Receiver(i, sk[Server], Total[Client], then) BY <2>3, <2>4 DEF Receiver
  <2> QED BY <2>5 DEF then
<1>9. Quiet => wrote[Server] = 0 BY DEF Inv
<1> QED BY <1>2, <1>3, <1>5, <1>6, <1>7, <1>8, <1>9 DEF Inv

(* A step of the server's.                                                  *)
LEMMA ServerApplies ==
  ASSUME NEW i, Inv(i), NEW r, NEW q, Apply(Server, r, q),
         NEW w \in Int, wrote' = [wrote EXCEPT ![Server] = w], Quiet => w = 0,
         ServerStep(i, sk[Server], r, Total[Client], Past(sk[Client])),
         q \in Queues(FromClient(i, wrote[Client], Past(sk[Client]))),
         app' \in [Host -> AppStates], app'[Client] # "idle"
  PROVE  Inv(i)'
<1>1. /\ sk \in [Host -> Socket] /\ net = [h \in Host |-> net[h]] /\ wrote \in [Host -> Int]
      /\ wrote[Client] \in 0 .. Total[Client]
  BY Hosts DEF Inv
<1>2. r \in Results /\ Receiver(i, r.c, Total[Client], Past(sk[Client]))
      /\ r.out \in Seq(FromServer(i, r.c.most, Past(sk[Client]))) /\ sk[Server].most <= r.c.most
  BY DEF ServerStep
<1>3. /\ sk' \in [Host -> Socket] /\ net' = [h \in Host |-> net'[h]]
      /\ sk'[Server] = r.c /\ sk'[Client] = sk[Client]
      /\ net'[Server] = q /\ net'[Client] = Transmit(net[Client], r.out)
  BY <1>1, <1>2, Applied, Hosts
<1>4. wrote' \in [Host -> Int] /\ wrote'[Server] = w /\ wrote'[Client] = wrote[Client]
  BY <1>1, Hosts
<1>5. sk[Server].most \in Int /\ r.c.most \in Int /\ sk[Client].base \in Int
  <2>1. sk[Server] \in Socket /\ r.c \in Socket /\ sk[Client] \in Socket BY <1>1, <1>2, Hosts DEF Results
  <2> QED BY <2>1 DEF Socket
<1>6. net'[Client] \in Queues(FromServer(i, r.c.most, Past(sk[Client])))
  <2>1. net[Client] \in Queues(FromServer(i, sk[Server].most, Past(sk[Client]))) BY DEF Inv
  <2>2. net[Client] \in Queues(FromServer(i, r.c.most, Past(sk[Client])))
    BY <1>2, <1>5, <2>1, More, QueuesGrow
  <2> QED BY <1>2, <1>3, <2>2, Transmits
<1>7. Sender(i, sk[Client], wrote[Client], r.c.most)
  <2>1. Sender(i, sk[Client], wrote[Client], sk[Server].most) BY DEF Inv
  <2>2. sk[Client].base <= r.c.most BY <1>2, <1>5, <2>1 DEF Sender
  <2> QED BY <2>1, <2>2 DEF Sender
<1> QED BY <1>1, <1>2, <1>3, <1>4, <1>6, <1>7 DEF Inv

LEMMA Programs ==
  ASSUME NEW i, Inv(i), NEW h \in Host, NEW from, NEW to \in AppStates, to # "idle", NEW r,
         Program(h, from, to, r)
  PROVE  /\ app' \in [Host -> AppStates] /\ app'[Client] # "idle"
         /\ Apply(h, r, net[h])
<1>1. app \in [Host -> AppStates] /\ app[Client] # "idle" BY DEF Inv
<1>2. app' = [app EXCEPT ![h] = to] /\ Apply(h, r, net[h]) BY DEF Program
<1> QED BY <1>1, <1>2, Hosts

(* What holds of the two sockets and of the segments under way, once more   *)
(* in the form the lemmas about the operators take.                         *)
LEMMA Facts ==
  ASSUME NEW i \in Isn, Inv(i)
  PROVE  /\ i \in Words
         /\ sk[Client] \in Socket /\ sk[Server] \in Socket
         /\ sk \in [Host -> Socket] /\ net = [h \in Host |-> net[h]] /\ wrote \in [Host -> Int]
         /\ app \in [Host -> AppStates] /\ app[Client] # "idle"
         /\ wrote[Client] \in 0 .. Total[Client] /\ wrote[Client] \in Nat /\ wrote[Server] \in Int
         /\ (Quiet => wrote[Server] = 0)
         /\ sk[Server].most \in 0 .. Total[Client] /\ sk[Server].most \in Int
         /\ Past(sk[Client]) \in BOOLEAN
         /\ Sender(i, sk[Client], wrote[Client], sk[Server].most)
         /\ Receiver(i, sk[Server], Total[Client], Past(sk[Client]))
         /\ net[Server] \in Queues(FromClient(i, wrote[Client], Past(sk[Client])))
         /\ net[Client] \in Queues(FromServer(i, sk[Server].most, Past(sk[Client])))
<1>1. /\ sk \in [Host -> Socket] /\ net = [h \in Host |-> net[h]] /\ wrote \in [Host -> Int]
      /\ app \in [Host -> AppStates] /\ app[Client] # "idle"
      /\ wrote[Client] \in 0 .. Total[Client] /\ (Quiet => wrote[Server] = 0)
      /\ Sender(i, sk[Client], wrote[Client], sk[Server].most)
      /\ Receiver(i, sk[Server], Total[Client], Past(sk[Client]))
      /\ net[Server] \in Queues(FromClient(i, wrote[Client], Past(sk[Client])))
      /\ net[Client] \in Queues(FromServer(i, sk[Server].most, Past(sk[Client])))
  BY DEF Inv
<1>2. i \in Words BY Hosts
<1>3. sk[Client] \in Socket /\ sk[Server] \in Socket /\ wrote[Server] \in Int BY <1>1, Hosts
<1>4. sk[Server].most \in Int BY <1>3 DEF Socket
<1>5. 0 <= sk[Server].most /\ sk[Server].most <= Total[Client] BY <1>1 DEF Receiver
<1>6. sk[Server].most \in 0 .. Total[Client] BY <1>4, <1>5, Hosts
<1>7. wrote[Client] \in Nat BY <1>1, Hosts
<1>8. Past(sk[Client]) \in BOOLEAN BY DEF Past
<1> QED BY <1>1, <1>2, <1>3, <1>4, <1>6, <1>7, <1>8

(* The client's socket changes, the client's counts do not.                 *)
LEMMA ClientStays ==
  ASSUME NEW i \in Isn, Inv(i), NEW r, NEW q, Apply(Client, r, q), wrote' = wrote,
         ClientStep(i, sk[Client], r, wrote[Client], sk[Server].most),
         q \in Queues(FromServer(i, sk[Server].most, Past(sk[Client]))),
         app' \in [Host -> AppStates], app'[Client] # "idle"
  PROVE  Inv(i)'
<1>1. wrote \in [Host -> Int] /\ wrote[Client] \in 0 .. Total[Client] /\ wrote[Client] \in Nat BY Facts
<1>2. wrote[Client] <= wrote[Client] /\ wrote' = [wrote EXCEPT ![Client] = wrote[Client]] BY <1>1, Hosts
<1> QED BY <1>1, <1>2, ClientApplies

LEMMA ServerStays ==
  ASSUME NEW i \in Isn, Inv(i), NEW r, NEW q, Apply(Server, r, q), wrote' = wrote,
         ServerStep(i, sk[Server], r, Total[Client], Past(sk[Client])),
         q \in Queues(FromClient(i, wrote[Client], Past(sk[Client]))),
         app' \in [Host -> AppStates], app'[Client] # "idle"
  PROVE  Inv(i)'
<1>1. wrote \in [Host -> Int] /\ wrote[Server] \in Int /\ (Quiet => wrote[Server] = 0) BY Facts
<1>2. wrote' = [wrote EXCEPT ![Server] = wrote[Server]] BY <1>1, Hosts
<1> QED BY <1>1, <1>2, ServerApplies

(* A segment arrives.                                                       *)
LEMMA ReceiveStep ==
  ASSUME Short, NEW i \in Isn, Inv(i), NEW h \in Host, NEW m, NEW q, Receive(h, m, q),
         h = Client => /\ m \in FromServer(i, sk[Server].most, Past(sk[Client]))
                       /\ q \in Queues(FromServer(i, sk[Server].most, Past(sk[Client]))),
         h = Server => /\ m \in FromClient(i, wrote[Client], Past(sk[Client]))
                       /\ q \in Queues(FromClient(i, wrote[Client], Past(sk[Client])))
  PROVE  Inv(i)'
<1>1. PICK isn \in Isn : Apply(h, Tcp(sk[h], m, isn), q) BY DEF Receive
<1>2. app' \in [Host -> AppStates] /\ app'[Client] # "idle" /\ wrote' = wrote BY Facts DEF Receive
<1>3. CASE h = Client
  <2>1. ClientStep(i, sk[Client], Tcp(sk[Client], m, isn), wrote[Client], sk[Server].most)
    BY <1>3, Facts, ClientTcp
  <2> QED BY <1>1, <1>2, <1>3, <2>1, ClientStays
<1>4. CASE h = Server
  <2>1. isn \in Words BY Hosts
  <2>2. Total[Client] < SeqSpace BY DEF Short
  <2>3. ServerStep(i, sk[Server], Tcp(sk[Server], m, isn), Total[Client], Past(sk[Client]))
    BY <1>4, <2>1, <2>2, Facts, ServerTcp
  <2> QED BY <1>1, <1>2, <1>4, <2>3, ServerStays
<1> QED BY <1>3, <1>4, Hosts

LEMMA DeliverStep ==
  ASSUME Short, NEW i \in Isn, Inv(i), NEW h \in Host, DeliverNext(h) \/ DeliverAny(h)
  PROVE  Inv(i)'
<1> DEFINE A == FromServer(i, sk[Server].most, Past(sk[Client]))
           B == FromClient(i, wrote[Client], Past(sk[Client]))
<1>1. net[Client] \in Queues(A) /\ net[Server] \in Queues(B) BY Facts
<1>2. CASE DeliverNext(h)
  <2>1. ~Routed /\ net[h] # << >> /\ Receive(h, Head(net[h]), Tail(net[h])) BY <1>2 DEF DeliverNext
  <2> HIDE DEF A, B
  <2>2. h = Client => Head(net[h]) \in A /\ Tail(net[h]) \in Queues(A) BY <1>1, <2>1, Taken
  <2>3. h = Server => Head(net[h]) \in B /\ Tail(net[h]) \in Queues(B) BY <1>1, <2>1, Taken
  <2> QED BY <2>1, <2>2, <2>3, ReceiveStep DEF A, B
<1>3. CASE DeliverAny(h)
  <2>1. PICK m \in net[h] : Receive(h, m, net[h]) BY <1>3 DEF DeliverAny
  <2>2. Routed BY <1>3 DEF DeliverAny
  <2> HIDE DEF A, B
  <2>3. h = Client => m \in A /\ net[h] \in Queues(A) BY <1>1, <2>2 DEF Queues
  <2>4. h = Server => m \in B /\ net[h] \in Queues(B) BY <1>1, <2>2 DEF Queues
  <2> QED BY <2>1, <2>3, <2>4, ReceiveStep DEF A, B
<1> QED BY <1>2, <1>3

LEMMA LoseStep ==
  ASSUME NEW i \in Isn, Inv(i), NEW h \in Host, Lose(h)
  PROVE  Inv(i)'
<1> DEFINE A == FromServer(i, sk[Server].most, Past(sk[Client]))
           B == FromClient(i, wrote[Client], Past(sk[Client]))
<1>1. net[Client] \in Queues(A) /\ net[Server] \in Queues(B) /\ net = [g \in Host |-> net[g]] BY Facts
<1>2. /\ ~Routed /\ net[h] # << >> /\ net' = [net EXCEPT ![h] = Tail(@)]
      /\ sk' = sk /\ app' = app /\ wrote' = wrote
  BY DEF Lose
<1> HIDE DEF A, B
<1>3. net' = [g \in Host |-> net'[g]] BY <1>1, <1>2
<1>4. net'[h] = Tail(net[h]) /\ (\A g \in Host : g # h => net'[g] = net[g]) BY <1>1, <1>2
<1>5. net'[Client] \in Queues(A)
  <2>1. CASE h = Client BY <1>1, <1>2, <1>4, <2>1, Taken
  <2>2. CASE h # Client BY <1>1, <1>4, <2>2, Hosts
  <2> QED BY <2>1, <2>2
<1>6. net'[Server] \in Queues(B)
  <2>1. CASE h = Server BY <1>1, <1>2, <1>4, <2>1, Taken
  <2>2. CASE h # Server BY <1>1, <1>4, <2>2, Hosts
  <2> QED BY <2>1, <2>2
<1> QED BY <1>2, <1>3, <1>5, <1>6 DEF Inv, A, B

LEMMA CheckStep ==
  ASSUME NEW i \in Isn, Inv(i), NEW h \in Host, NEW expired \in BOOLEAN, Check(h, expired)
  PROVE  Inv(i)'
<1>1. Apply(h, CheckSockets(sk[h], expired), net[h]) /\ app' = app /\ wrote' = wrote BY DEF Check
<1>2. app' \in [Host -> AppStates] /\ app'[Client] # "idle" BY <1>1, Facts
<1>3. CASE h = Client
  <2>1. ClientStep(i, sk[Client], CheckSockets(sk[Client], expired), wrote[Client], sk[Server].most)
    BY Facts, ClientChecked
  <2> QED BY <1>1, <1>2, <1>3, <2>1, Facts, ClientStays
<1>4. CASE h = Server
  <2>1. ServerStep(i, sk[Server], CheckSockets(sk[Server], expired), Total[Client], Past(sk[Client]))
    BY Facts, ServerChecked
  <2> QED BY <1>1, <1>2, <1>4, <2>1, Facts, ServerStays
<1> QED BY <1>3, <1>4, Hosts

(* The programs.                                                            *)
LEMMA ProgramStep ==
  ASSUME NEW i \in Isn, Inv(i), NEW h \in Host, NEW from, NEW to \in AppStates, to # "idle", NEW r,
         Program(h, from, to, r), wrote' = wrote,
         h = Client => ClientStep(i, sk[Client], r, wrote[Client], sk[Server].most),
         h = Server => ServerStep(i, sk[Server], r, Total[Client], Past(sk[Client]))
  PROVE  Inv(i)'
<1>1. app' \in [Host -> AppStates] /\ app'[Client] # "idle" /\ Apply(h, r, net[h]) BY Programs
<1>2. CASE h = Client BY <1>1, <1>2, Facts, ClientStays
<1>3. CASE h = Server BY <1>1, <1>3, Facts, ServerStays
<1> QED BY <1>2, <1>3, Hosts

LEMMA Stays ==
  ASSUME NEW i \in Isn, Inv(i)
  PROVE  /\ ClientStep(i, sk[Client], Done(sk[Client]), wrote[Client], sk[Server].most)
         /\ ServerStep(i, sk[Server], Done(sk[Server]), Total[Client], Past(sk[Client]))
<1>1. ClientStep(i, sk[Client], Done(sk[Client]), wrote[Client], sk[Server].most)
  BY Facts, Dones DEF ClientStep
<1>2. Receiver(i, sk[Server], Total[Client], Past(sk[Client])) BY Facts
<1>3. Same(sk[Server], sk[Server]) BY <1>2, Itself
<1> QED BY <1>1, <1>2, <1>3, ServerDone

LEMMA OpeningStep == ASSUME NEW i \in Isn, Inv(i), Connected \/ Accept PROVE Inv(i)'
<1>1. CASE Connected
  <2> DEFINE to == IF sk[Client].st = STATE_CLOSED THEN "failed" ELSE "open"
  <2>1. Program(Client, "opening", to, Done(sk[Client])) /\ wrote' = wrote BY <1>1 DEF Connected
  <2>2. to \in AppStates /\ to # "idle" BY DEF AppStates
  <2> HIDE DEF to
  <2> QED BY <2>1, <2>2, Stays, Hosts, ProgramStep
<1>2. CASE Accept
  <2>1. Program(Server, "idle", "open", Done(sk[Server])) /\ wrote' = wrote BY <1>2 DEF Accept
  <2>2. "open" \in AppStates BY DEF AppStates
  <2> QED BY <2>1, <2>2, Stays, Hosts, ProgramStep
<1> QED BY <1>1, <1>2

LEMMA WriteStep == ASSUME NEW i \in Isn, Inv(i), NEW h \in Host, Write(h) PROVE Inv(i)'
<1>1. PICK n \in 1 .. (Total[h] - wrote[h]) :
        LET c == WriteTcpBytes(sk[h], n) IN
        /\ Program(h, "open", "open", Done(c))
        /\ wrote' = [wrote EXCEPT ![h] = @ + c.wcount - sk[h].wcount]
  BY DEF Write
<1> DEFINE c == WriteTcpBytes(sk[h], n)
           w == wrote[h] + (c.wcount - sk[h].wcount)
<1>2. "open" \in AppStates BY DEF AppStates
<1>3. app' \in [Host -> AppStates] /\ app'[Client] # "idle" /\ Apply(h, Done(c), net[h])
  BY <1>1, <1>2, Programs
<1>4. n \in Nat OBVIOUS
<1>5. sk[h] \in Socket /\ wrote \in [Host -> Int] /\ wrote[h] \in Int /\ sk[h].wcount \in Int
  BY Facts, Hosts DEF Socket
<1>6. ASSUME c.wcount \in Int PROVE w \in Int /\ wrote' = [wrote EXCEPT ![h] = w]
  <2>1. wrote[h] + c.wcount - sk[h].wcount = wrote[h] + (c.wcount - sk[h].wcount) BY <1>5, <1>6
  <2> QED BY <1>1, <1>5, <1>6, <2>1
<1>7. CASE h = Client
  <2>1. ClientStep(i, sk[h], Done(c), w, sk[Server].most) /\ c.wcount - sk[h].wcount \in 0 .. n
    BY <1>4, <1>5, <1>7, Facts, ClientWrites
  <2>2. c.wcount \in Int
    <3>1. c \in Socket BY <2>1 DEF ClientStep, Client1, Results, Done
    <3> QED BY <3>1 DEF Socket
  <2> HIDE DEF c
  <2>3. w \in 0 .. Total[Client] /\ wrote[Client] <= w
    <3>1. wrote[Client] \in 0 .. Total[Client] /\ Total[Client] \in Nat BY Facts, Hosts
    <3>2. n <= Total[Client] - wrote[Client] BY <1>1, <1>7
    <3> QED BY <1>5, <1>7, <2>1, <2>2, <3>1, <3>2
  <2> HIDE DEF w
  <2>4. wrote' = [wrote EXCEPT ![Client] = w] BY <1>6, <1>7, <2>2
  <2> QED BY <1>3, <1>7, <2>1, <2>3, <2>4, Facts, ClientApplies
<1>8. CASE h = Server
  <2>1. ~Quiet
    <3>1. Quiet => Total[h] - wrote[h] = 0 BY <1>8, Facts DEF Quiet
    <3> QED BY <3>1
  <2>2. ServerStep(i, sk[Server], Done(c), Total[Client], Past(sk[Client]))
    BY <1>4, <1>8, <2>1, Facts, ServerWrites
  <2>3. c.wcount \in Int
    <3>1. c \in Socket BY <2>2 DEF ServerStep, Results, Done
    <3> QED BY <3>1 DEF Socket
  <2> HIDE DEF c
  <2>4. w \in Int /\ wrote' = [wrote EXCEPT ![Server] = w] BY <1>6, <1>8, <2>3
  <2> HIDE DEF w
  <2> QED BY <1>3, <1>8, <2>1, <2>2, <2>4, Facts, ServerApplies
<1> QED BY <1>7, <1>8, Hosts

LEMMA ReadStep == ASSUME NEW i \in Isn, Inv(i), NEW h \in Host, Read(h) PROVE Inv(i)'
<1>1. PICK n \in 0 .. sk[h].rcount : Program(h, "open", "open", SockRead(sk[h], n)) /\ wrote' = wrote
  BY DEF Read
<1>2. n \in Nat OBVIOUS
<1>3. "open" \in AppStates BY DEF AppStates
<1>4. h = Client => ClientStep(i, sk[Client], SockRead(sk[h], n), wrote[Client], sk[Server].most)
  BY <1>2, Facts, ClientReads
<1>5. h = Server => ServerStep(i, sk[Server], SockRead(sk[h], n), Total[Client], Past(sk[Client]))
  BY <1>2, Facts, ServerReads
<1> QED BY <1>1, <1>3, <1>4, <1>5, ProgramStep

LEMMA CloseStep == ASSUME NEW i \in Isn, Inv(i), NEW h \in Host, Close(h) PROVE Inv(i)'
<1> DEFINE c == [sk[h] EXCEPT !.rcount = 0]
           gone == c.st < STATE_ESTABLISHED
           to == IF gone THEN "closed" ELSE IF Flushed(c) THEN "fin" ELSE "flushing"
           r == Done(IF gone THEN Nuke(c) ELSE c)
<1>1. PICK from \in {"open", "failed"} : Program(h, from, to, r) /\ wrote' = wrote BY DEF Close
<1>2. to \in AppStates /\ to # "idle" BY DEF AppStates
<1> HIDE DEF to
<1>3. ASSUME h = Client PROVE ClientStep(i, sk[Client], r, wrote[Client], sk[Server].most)
  <2>1. /\ ClientStep(i, sk[Client], Done(c), wrote[Client], sk[Server].most)
        /\ ClientStep(i, sk[Client], Done(Nuke(c)), wrote[Client], sk[Server].most)
    BY <1>3, Facts, ClientEnds
  <2> HIDE DEF c, gone
  <2> QED BY <2>1
<1>4. ASSUME h = Server PROVE ServerStep(i, sk[Server], r, Total[Client], Past(sk[Client]))
  <2>1. /\ ServerStep(i, sk[Server], Done(c), Total[Client], Past(sk[Client]))
        /\ ServerStep(i, sk[Server], Done(Nuke(c)), Total[Client], Past(sk[Client]))
    BY <1>4, Facts, ServerEnds
  <2> HIDE DEF c, gone
  <2> QED BY <2>1
<1> HIDE DEF r
<1> QED BY <1>1, <1>2, <1>3, <1>4, ProgramStep

LEMMA ClosingStep ==
  ASSUME NEW i \in Isn, Inv(i), NEW h \in Host, Flush(h) \/ Fin(h) \/ CloseEnds(h)
  PROVE  Inv(i)'
<1>1. "fin" \in AppStates /\ "last" \in AppStates /\ "closed" \in AppStates BY DEF AppStates
<1>2. CASE Flush(h)
  <2>1. Program(h, "flushing", "fin", Done(sk[h])) /\ wrote' = wrote BY <1>2 DEF Flush
  <2> QED BY <1>1, <2>1, Stays, ProgramStep
<1>3. CASE Fin(h)
  <2> DEFINE to == IF sk[h].st = STATE_PEER_RESET THEN "closed" ELSE "last"
  <2>1. Program(h, "fin", to, SendFin(sk[h])) /\ wrote' = wrote BY <1>3 DEF Fin
  <2>2. to \in AppStates /\ to # "idle" BY <1>1
  <2> HIDE DEF to
  <2>3. h = Client => ClientStep(i, sk[Client], SendFin(sk[h]), wrote[Client], sk[Server].most)
    BY Facts, ClientEnds
  <2>4. h = Server => ServerStep(i, sk[Server], SendFin(sk[h]), Total[Client], Past(sk[Client]))
    BY Facts, ServerFin
  <2> QED BY <2>1, <2>2, <2>3, <2>4, ProgramStep
<1>4. CASE CloseEnds(h)
  <2>1. Program(h, "last", "closed", Done(Nuke(sk[h]))) /\ wrote' = wrote BY <1>4 DEF CloseEnds
  <2>2. h = Client => ClientStep(i, sk[Client], Done(Nuke(sk[h])), wrote[Client], sk[Server].most)
    BY Facts, ClientEnds
  <2>3. h = Server => ServerStep(i, sk[Server], Done(Nuke(sk[h])), Total[Client], Past(sk[Client]))
    BY Facts, ServerEnds
  <2> QED BY <1>1, <2>1, <2>2, <2>3, ProgramStep
<1> QED BY <1>2, <1>3, <1>4

LEMMA StepInv == ASSUME Short, NEW i \in Isn, Inv(i), [Next]_vars PROVE Inv(i)'
<1>1. CASE Connect
  <2>1. app[Client] = "idle" BY <1>1 DEF Connect, Program
  <2> QED BY <2>1 DEF Inv
<1>2. CASE Connected \/ Accept BY <1>2, OpeningStep
<1>3. CASE UNCHANGED vars BY <1>3 DEF vars, Inv
<1>4. CASE Idle BY <1>3, <1>4 DEF Idle
<1>5. ASSUME NEW h \in Host,
             \/ DeliverNext(h) \/ DeliverAny(h) \/ Lose(h) \/ Check(h, FALSE) \/ Check(h, TRUE)
             \/ Write(h) \/ Read(h) \/ Close(h) \/ Flush(h) \/ Fin(h) \/ CloseEnds(h)
      PROVE  Inv(i)'
  BY <1>5, DeliverStep, LoseStep, CheckStep, WriteStep, ReadStep, CloseStep, ClosingStep
<1> QED BY <1>1, <1>2, <1>3, <1>4, <1>5 DEF Next

LEMMA ConnectStep ==
  ASSUME Start, NEW i \in Isn, Program(Client, "idle", "opening", TcpOpen(sk[Client], i)), wrote' = wrote
  PROVE  Inv(i)'
<1> DEFINE r == TcpOpen(Blank, i)
           empty == IF Routed THEN {} ELSE << >>
<1>2. /\ sk[Client] = Blank /\ sk[Server] = Child /\ net = [h \in Host |-> net[h]]
      /\ net[Client] = empty /\ net[Server] = empty /\ wrote' = wrote /\ app = [h \in Host |-> "idle"]
      /\ wrote = [h \in Host |-> 0]
  BY Hosts DEF Start
<1>3. i \in Words BY Hosts
<1>4. Client1(i, r, 0, 0) BY <1>3, ClientOpens
<1>5. Apply(Client, r, net[Client]) /\ app' = [app EXCEPT ![Client] = "opening"] BY <1>2 DEF Program
<1> HIDE DEF r
<1>6. r \in Results /\ Sender(i, r.c, 0, 0) /\ r.out \in Seq(FromClient(i, 0, Past(r.c))) BY <1>4 DEF Client1
<1>7. Blank \in Socket /\ Child \in Socket /\ Child.most = 0
  <2>1. 0 \in Words BY TcpAssumption DEF Words
  <2>2. STATE_NOTINIT \in Reached BY DEF Reached
  <2>3. Blank \in Socket BY <2>1, <2>2, Known DEF Blank, Socket
  <2>4. Child \in Socket BY <2>3, Known, Zenon DEF Child, Socket
  <2>5. Child.most = Blank.most BY <2>3, Zenon DEF Child, Socket
  <2> QED BY <2>3, <2>4, <2>5 DEF Blank
<1>8. sk \in [Host -> Socket] BY <1>7 DEF Start
<1>9. /\ sk' \in [Host -> Socket] /\ net' = [g \in Host |-> net'[g]]
      /\ sk'[Client] = r.c /\ sk'[Server] = Child
      /\ net'[Client] = empty /\ net'[Server] = Transmit(empty, r.out)
  <2> HIDE DEF empty
  <2>1. net = [h \in Host |-> net[h]] /\ net[Client] = empty /\ net[Server] = empty /\ sk[Server] = Child
    BY <1>2
  <2>2. /\ sk' \in [Host -> Socket] /\ net' = [g \in Host |-> net'[g]]
        /\ sk'[Client] = r.c /\ sk'[Server] = sk[Server]
        /\ net'[Client] = net[Client] /\ net'[Server] = Transmit(net[Server], r.out)
    BY <2>1, <1>5, <1>6, <1>8, Applied, Hosts
  <2> QED BY <2>1, <2>2
<1>10. ASSUME NEW M PROVE empty \in Queues(M)
  <2>1. {} \in SUBSET M /\ << >> \in Seq(M) OBVIOUS
  <2> QED BY <2>1 DEF Queues
<1> HIDE DEF empty
<1>11. net'[Server] \in Queues(FromClient(i, 0, Past(r.c))) BY <1>6, <1>9, <1>10, Transmits
<1>12. Receiver(i, Child, Total[Client], Past(r.c))
  <2>1. Blank \in Socket BY <1>7
  <2>2. /\ Child.st = STATE_LISTEN /\ Child.par /\ Child.ip = Blank.ip /\ Child.intact = Blank.intact
        /\ Child.wcount = Blank.wcount /\ Child.dlen = Blank.dlen /\ Child.base = Blank.base
    BY <2>1, Zenon DEF Child, Socket
  <2>3. ~Blank.ip /\ Blank.intact /\ Blank.wcount = 0 /\ Blank.dlen = 0 /\ Blank.base = 0 BY DEF Blank
  <2>4. 0 <= Child.most /\ Child.most <= Total[Client] BY <1>7, Hosts
  <2> QED BY <1>7, <2>2, <2>3, <2>4 DEF Receiver
<1>13. app' \in [Host -> AppStates] /\ app'[Client] # "idle"
  <2>1. app \in [Host -> AppStates] /\ "opening" \in AppStates BY <1>2 DEF AppStates
  <2> QED BY <1>5, <2>1, Hosts
<1>14. wrote' \in [Host -> Int] /\ wrote'[Client] = 0 /\ wrote'[Server] = 0 BY <1>2, Hosts
<1> QED BY <1>6, <1>7, <1>9, <1>10, <1>11, <1>12, <1>13, <1>14, Hosts DEF Inv

(* Before the connect there is nothing to do but to connect.                *)
LEMMA StartMoves == ASSUME Start, [Next]_vars PROVE Connect \/ UNCHANGED vars
<1>1. /\ sk[Client] = Blank /\ sk[Server] = Child
      /\ \A h \in Host : /\ app[h] = "idle" /\ net[h] = (IF Routed THEN {} ELSE << >>)
                         /\ ~(sk[h].st > STATE_UDP) /\ sk[h].st # STATE_CLOSED
  <2>1. Blank.st = STATE_NOTINIT /\ Child.st = STATE_LISTEN BY DEF Blank, Child
  <2> QED BY <2>1, Hosts DEF Start
<1>4. CASE Idle BY <1>4 DEF Idle
<1>5. CASE Connected BY <1>1, <1>5, Hosts DEF Connected, Program
<1>6. CASE Accept BY <1>1, <1>6, Hosts DEF Accept, Child
<1>7. ASSUME NEW h \in Host,
             \/ DeliverNext(h) \/ DeliverAny(h) \/ Lose(h) \/ Check(h, FALSE) \/ Check(h, TRUE)
             \/ Write(h) \/ Read(h) \/ Close(h) \/ Flush(h) \/ Fin(h) \/ CloseEnds(h)
      PROVE  FALSE
  <2>1. CASE DeliverNext(h) \/ DeliverAny(h) \/ Lose(h)
    BY <1>1, <2>1 DEF DeliverNext, DeliverAny, Lose
  <2>2. ASSUME NEW e, Check(h, e) PROVE FALSE
    <3>1. CheckSockets(sk[h], e) = Done(sk[h]) BY <1>1, Zenon DEF CheckSockets
    <3> QED BY <2>2, <3>1 DEF Check
  <2>3. CASE Write(h) \/ Read(h) \/ Close(h) BY <1>1, <2>3 DEF Write, Read, Close, Program
  <2>4. CASE Flush(h) \/ Fin(h) \/ CloseEnds(h) BY <1>1, <2>4 DEF Flush, Fin, CloseEnds, Program
  <2> QED BY <1>7, <2>1, <2>2, <2>3, <2>4
<1> QED BY <1>4, <1>5, <1>6, <1>7 DEF Next

LEMMA StartStep == ASSUME Start, [Next]_vars PROVE IInv'
<1>1. CASE Connect
  <2>1. PICK i \in Isn : Program(Client, "idle", "opening", TcpOpen(sk[Client], i)) BY <1>1 DEF Connect
  <2>2. Inv(i)' BY <1>1, <2>1, ConnectStep DEF Connect
  <2> QED BY <2>2 DEF IInv
<1>2. CASE UNCHANGED vars BY <1>2 DEF vars, Start, IInv
<1> QED BY <1>1, <1>2, StartMoves

LEMMA InitIInv == Init => IInv
BY DEF Init, IInv, Start

LEMMA StepIInv == ASSUME Short PROVE IInv /\ [Next]_vars => IInv'
<1> SUFFICES ASSUME IInv, [Next]_vars PROVE IInv'
  OBVIOUS
<1>1. CASE Start BY <1>1, StartStep
<1>2. ASSUME NEW i \in Isn, Inv(i) PROVE IInv'
  <2>1. Inv(i)' BY <1>2, StepInv
  <2> QED BY <2>1 DEF IInv
<1> QED BY <1>1, <1>2 DEF IInv

-----------------------------------------------------------------------------
(* What the client writes, seen from both ends.                             *)
ClientStream == sk[Server].intact /\ sk[Client].base <= sk[Server].most

LEMMA Streams == IInv => /\ ClientStream
                         /\ (Quiet => StreamIntact /\ AckedWasTaken)
<1> SUFFICES ASSUME IInv PROVE ClientStream /\ (Quiet => StreamIntact /\ AckedWasTaken)
  OBVIOUS
<1>1. CASE Start
  <2>1. sk[Client] = Blank /\ sk[Server] = Child BY <1>1, Hosts DEF Start
  <2>2. Blank.intact /\ Blank.base = 0 /\ Blank.most = 0 BY DEF Blank
  <2>3. Child.intact /\ Child.base = 0 /\ Child.most = 0 BY DEF Child, Blank
  <2> QED BY <2>1, <2>2, <2>3, Hosts DEF ClientStream, StreamIntact, AckedWasTaken
<1>2. ASSUME NEW i \in Isn, Inv(i) PROVE ClientStream /\ (Quiet => StreamIntact /\ AckedWasTaken)
  <2>1. /\ Sender(i, sk[Client], wrote[Client], sk[Server].most)
        /\ Receiver(i, sk[Server], Total[Client], Past(sk[Client]))
    BY <1>2, Facts
  <2>2. sk[Client].base <= sk[Server].most /\ (Quiet => sk[Client].intact /\ sk[Client].most = 0)
    BY <2>1 DEF Sender
  <2>3. sk[Server].intact /\ (Quiet => sk[Server].base = 0) BY <2>1 DEF Receiver
  <2>4. Quiet => sk[Server].base <= sk[Client].most BY <2>2, <2>3
  <2> QED BY <2>2, <2>3, <2>4, Hosts DEF ClientStream, StreamIntact, AckedWasTaken
<1> QED BY <1>1, <1>2 DEF IInv

(* Whatever the network loses, repeats, reorders or delays and however the  *)
(* timers expire: the server accepts the client's stream byte for byte, and *)
(* the client lets no byte go that the server has not accepted, if the      *)
(* client writes fewer bytes than there are sequence numbers                *)
(* (tcp.c:102-183, 389-410; socket.c:150-232).                              *)
THEOREM StreamArrives == ASSUME Short PROVE Spec => []ClientStream
<1>1. IInv => ClientStream BY Streams
<1> QED BY <1>1, InitIInv, StepIInv, PTL DEF Spec

(* The same of both hosts, when the server writes nothing of its own: what  *)
(* a host takes out of exact segments is what the other's program wrote     *)
(* (processtcpdata, tcp.c:102-183).                                         *)
THEOREM IntactStreams == ASSUME Short, Quiet PROVE Spec => []StreamIntact
<1>1. IInv => StreamIntact BY Streams
<1> QED BY <1>1, InitIInv, StepIInv, PTL DEF Spec

(* ... and bytes leave a write buffer only when the peer has them           *)
(* (establishedproc, tcp.c:389-410).                                        *)
THEOREM AckedTaken == ASSUME Short, Quiet PROVE Spec => []AckedWasTaken
<1>1. IInv => AckedWasTaken BY Streams
<1> QED BY <1>1, InitIInv, StepIInv, PTL DEF Spec

-----------------------------------------------------------------------------
(* The serial link.  The server writes nothing there, so every segment it   *)
(* sends but a reset says what its socket holds: flags and number.           *)
Own(d) ==
  /\ d.st = STATE_SYN_RECEIVED => d.flags = {SYN, ACK} /\ d.taken = 0
  /\ d.st # STATE_SYN_RECEIVED => SYN \notin d.flags
  /\ d.st = STATE_ESTABLISHED => FIN \notin d.flags /\ ~d.exp
  /\ d.st \in {STATE_LISTEN, STATE_SYN_RECEIVED, STATE_CLOSED} => d.rcount = 0
  /\ d.rcount >= 0 /\ d.taken >= 0
  /\ 0 <= d.err /\ d.err <= MaxErr + 1 /\ (d.st > STATE_UDP => d.err <= MaxErr)

(* A socket of the server that writes nothing.                              *)
Mute(d) ==
  /\ d \in Socket /\ d.par /\ d.st \notin {STATE_NOTINIT, STATE_SYN_SENT}
  /\ d.wcount = 0 /\ d.dlen = 0
  /\ Own(d)

Alive(x) == x.st \notin {STATE_LISTEN, STATE_CLOSED}

Voice(x) == {m \in Segments : m.len = 0 /\ (RST \notin m.fl => m.fl = x.flags /\ m.ack = x.ack /\ Alive(x))}

Said(r) == Mute(r.c) /\ r.out \in Seq(Voice(r.c))

(* What the stack does to the server's socket d, hearing segment m.         *)
Keeps(d, r, n) ==
  /\ Said(r) /\ r.c.st = d.st /\ r.c.ack = d.ack
  /\ r.c.taken = d.taken /\ r.c.most = d.most /\ r.c.rcount = n
Drops(d, r) == Said(r) /\ ~Alive(r.c) /\ r.c.most = d.most
Hears(d, m, r) ==
  /\ Said(r) /\ d.st = STATE_LISTEN /\ SYN \in m.fl
  /\ r.c.st = STATE_SYN_RECEIVED /\ r.c.ack = Word32(m.seq + 1) /\ r.c.most = d.most
Opens(d, m, r) ==
  /\ Said(r) /\ d.st = STATE_SYN_RECEIVED /\ ACK \in m.fl
  /\ r.c.st = STATE_ESTABLISHED /\ r.c.ack = d.ack
  /\ r.c.taken = d.taken /\ r.c.most = d.most /\ r.c.rcount = d.rcount
Accepts(d, m, r) ==
  /\ Said(r) /\ d.st = STATE_ESTABLISHED /\ m.len > 0 /\ m.dat = d.taken /\ FIN \notin m.fl
  /\ r.c.st = STATE_ESTABLISHED /\ r.c.ack = Word32(d.ack + m.len)
  /\ r.c.taken = d.taken + m.len /\ r.c.rcount = d.rcount + m.len
  /\ r.c.most = (IF d.most > d.taken + m.len THEN d.most ELSE d.taken + m.len)
Ends(d, m, r) ==
  /\ Said(r) /\ d.st = STATE_ESTABLISHED /\ FIN \in m.fl /\ r.c.st = STATE_CLOSING
  /\ r.c.taken - r.c.rcount = d.taken - d.rcount /\ r.c.most >= d.most
Lapses(d, r) ==
  /\ Said(r) /\ d.st = STATE_CLOSING /\ r.c.st = STATE_TIME_WAIT
  /\ r.c.taken = d.taken /\ r.c.most = d.most /\ r.c.rcount = d.rcount
Fins(d, r) ==
  /\ Said(r) /\ r.c.st = STATE_LAST_ACK /\ r.c.ack = d.ack
  /\ r.c.taken = d.taken /\ r.c.most = d.most /\ r.c.rcount = d.rcount

Hearing(d, m, r) ==
  \/ Keeps(d, r, d.rcount)
  \/ Drops(d, r) /\ (d.st = STATE_ESTABLISHED => RST \in m.fl)
  \/ RST \notin m.fl /\ (Hears(d, m, r) \/ Opens(d, m, r) \/ Accepts(d, m, r) \/ Ends(d, m, r) \/ Lapses(d, r))

Plain(x) == [fl |-> x.flags, seq |-> x.seq, ack |-> x.ack, dat |-> 0, len |-> 0]
Echo(x) == [c |-> x, out |-> IF x.ip THEN <<Plain(x)>> ELSE << >>, up |-> x.ip]

(* e differs from d in nothing that was received.                           *)
Like(d, e) ==
  /\ Mute(e) /\ e.st = d.st /\ e.ack = d.ack /\ e.taken = d.taken /\ e.most = d.most
  /\ e.rcount = d.rcount

LEMMA Echoes == ASSUME NEW x \in Socket, x.wcount = 0, x.dlen = 0 PROVE SendSocket(x) = Echo(x)
<1> DEFINE m == Plain(x)
           r == [c |-> [x EXCEPT !.flags = x.flags, !.st = x.st], out |-> IF x.ip THEN <<m>> ELSE << >>, up |-> x.ip]
<1>1. ~MayPush(x) BY DEF MayPush, Unsent
<1>2. Portion(x) = 0 BY <1>1 DEF Portion
<1>3. SendSocket(x) = [FastTcpPack(x, x.flags, x.st, 0, 0) EXCEPT !.c.seq = x.seq]
  BY <1>1, <1>2, Zenon DEF SendSocket
<1>5. [x EXCEPT !.flags = x.flags, !.st = x.st] = x BY DEF Socket
<1>6. FastTcpPack(x, x.flags, x.st, 0, 0) = Echo(x)
  BY <1>5 DEF FastTcpPack, Echo, Plain
<1>7. [Echo(x) EXCEPT !.c.seq = x.seq] = [c |-> [x EXCEPT !.seq = x.seq], out |-> Echo(x).out, up |-> x.ip]
  BY DEF Echo
<1>8. [x EXCEPT !.seq = x.seq] = x BY DEF Socket
<1>9. Echo(x).out = (IF x.ip THEN <<Plain(x)>> ELSE << >>) BY DEF Echo
<1> QED BY <1>3, <1>6, <1>7, <1>8, <1>9 DEF Echo

LEMMA EchoSays == ASSUME NEW x, Mute(x), Alive(x)
                  PROVE  Said(Echo(x)) /\ Echo(x).c = x /\ SendSocket(x) = Echo(x)
<1>1. x \in Socket /\ x.wcount = 0 /\ x.dlen = 0 BY DEF Mute
<1>2. Echo(x).c = x /\ Echo(x).out = (IF x.ip THEN <<Plain(x)>> ELSE << >>) BY DEF Echo
<1>3. Plain(x) \in Segments /\ Plain(x).fl = x.flags /\ Plain(x).ack = x.ack /\ Plain(x).len = 0
  BY <1>1, Known DEF Plain, Segments, Socket
<1>4. Plain(x) \in Voice(x) BY <1>3 DEF Voice
<1>5. Echo(x).out \in Seq(Voice(x))
  <2>1. CASE x.ip
    <3>1. Echo(x).out = <<Plain(x)>> BY <1>2, <2>1
    <3> QED BY <3>1, <1>4
  <2>2. CASE ~x.ip
    <3>1. Echo(x).out = << >> BY <1>2, <2>2
    <3> QED BY <3>1
  <2> QED BY <2>1, <2>2
<1> QED BY <1>1, <1>2, <1>5, Echoes DEF Said

LEMMA DoneSays == ASSUME NEW x, Mute(x) PROVE Said(Done(x)) /\ Done(x).c = x
BY DEF Said, Done

LEMMA LikeSays == ASSUME NEW d, NEW x, Like(d, x)
                  PROVE  /\ Keeps(d, Done(x), d.rcount)
                         /\ Alive(d) => Keeps(d, SendSocket(x), d.rcount)
<1>1. Mute(x) /\ (Alive(d) => Alive(x)) BY DEF Like, Alive
<1>2. Said(Done(x)) /\ Done(x).c = x BY <1>1, DoneSays
<1>3. Alive(d) => Said(SendSocket(x)) /\ SendSocket(x).c = x BY <1>1, EchoSays
<1> QED BY <1>2, <1>3 DEF Like, Keeps

(* Flags, error count and timer of a socket that is not being opened.       *)
LEMMA Tuned ==
  ASSUME NEW d, Mute(d), d.st # STATE_SYN_RECEIVED, NEW fl \in SUBSET Flags, NEW e \in 0 .. MaxErr,
         NEW x \in BOOLEAN, SYN \notin fl, d.st = STATE_ESTABLISHED => FIN \notin fl /\ ~x
  PROVE  /\ Like(d, [d EXCEPT !.flags = fl]) /\ Like(d, [d EXCEPT !.flags = fl, !.err = e])
         /\ Like(d, [d EXCEPT !.flags = fl, !.err = e, !.exp = x])
<1> DEFINE s == [d EXCEPT !.flags = fl]
           t == [d EXCEPT !.flags = fl, !.err = e]
           u == [d EXCEPT !.flags = fl, !.err = e, !.exp = x]
           M == 0 .. MaxErr
<1>1. d \in Socket /\ e \in Int /\ MaxErr \in Nat /\ 0 <= e /\ e <= MaxErr BY TcpAssumption DEF Mute
<1>2. /\ s \in Socket /\ s.st = d.st /\ s.par = d.par /\ s.wcount = d.wcount /\ s.dlen = d.dlen /\ s.ack = d.ack
      /\ s.taken = d.taken /\ s.most = d.most /\ s.rcount = d.rcount /\ s.flags = fl /\ s.exp = d.exp /\ s.err = d.err
  BY <1>1, Zenon DEF Socket
<1>3. /\ t \in Socket /\ t.st = d.st /\ t.par = d.par /\ t.wcount = d.wcount /\ t.dlen = d.dlen /\ t.ack = d.ack
      /\ t.taken = d.taken /\ t.most = d.most /\ t.rcount = d.rcount /\ t.flags = fl /\ t.exp = d.exp /\ t.err = e
  BY <1>1, Zenon DEF Socket
<1>4. /\ u \in Socket /\ u.st = d.st /\ u.par = d.par /\ u.wcount = d.wcount /\ u.dlen = d.dlen /\ u.ack = d.ack
      /\ u.taken = d.taken /\ u.most = d.most /\ u.rcount = d.rcount /\ u.flags = fl /\ u.exp = x /\ u.err = e
  BY <1>1, Zenon DEF Socket
<1> HIDE DEF s, t, u
<1>5. Like(d, s) BY <1>2 DEF Like, Mute, Own
<1>6. Like(d, t) BY <1>1, <1>3 DEF Like, Mute, Own
<1>7. Like(d, u) BY <1>1, <1>4 DEF Like, Mute, Own
<1> QED BY <1>5, <1>6, <1>7 DEF s, t, u

LEMMA MuteStays == ASSUME NEW d, Mute(d) PROVE Like(d, d) /\ Keeps(d, Done(d), d.rcount)
BY LikeSays DEF Like

LEMMA NukeSays ==
  ASSUME NEW d \in Socket, d.par, d.dlen = 0, d.taken >= 0, 0 <= d.err, d.err <= MaxErr + 1
  PROVE  /\ Mute(Nuke(d)) /\ Nuke(d).st = STATE_LISTEN /\ Nuke(d).most = d.most
         /\ Mute([Nuke(d) EXCEPT !.dlen = 0]) /\ [Nuke(d) EXCEPT !.dlen = 0].st = STATE_LISTEN
         /\ [Nuke(d) EXCEPT !.dlen = 0].most = d.most
<1> DEFINE none == {}  listen == STATE_LISTEN
           g == [d EXCEPT !.st = listen, !.ip = FALSE, !.seq = 0, !.ack = 0, !.flags = none,
                          !.wcount = 0, !.rcount = 0, !.exp = FALSE]
           f == [g EXCEPT !.dlen = 0]
<1>1. d \in Socket OBVIOUS
<1>3. none \in SUBSET Flags /\ listen \in Reached /\ 0 \in Words BY Known, TcpAssumption DEF Words
<1>4. listen = STATE_LISTEN /\ none = {} OBVIOUS
<1>5. Nuke(d) = g
  <2> DEFINE h == [d EXCEPT !.st = STATE_LISTEN, !.ip = FALSE, !.seq = 0, !.ack = 0, !.flags = {}]
             k == [h EXCEPT !.wcount = 0, !.rcount = 0, !.exp = FALSE]
  <2>1. Nuke(d) = k BY DEF Nuke
  <2>2. k = g BY Zenon DEF Socket
  <2> QED BY <2>1, <2>2
<1> HIDE DEF none, listen
<1>6. g \in Socket BY ONLY <1>1, <1>3, Known, ZenonT(40) DEF Socket
<1>7. /\ g.st = listen /\ g.par = d.par /\ g.most = d.most /\ g.flags = none /\ g.taken = d.taken
      /\ g.wcount = 0 /\ g.dlen = d.dlen /\ g.rcount = 0 /\ g.exp = FALSE /\ g.err = d.err
  BY Zenon DEF Socket
<1> HIDE DEF g
<1>20. 0 \in Int OBVIOUS
<1>8. f \in Socket BY ONLY <1>6, <1>20, Zenon DEF Socket
<1>9. /\ f.st = g.st /\ f.par = g.par /\ f.most = g.most /\ f.flags = g.flags /\ f.taken = g.taken
      /\ f.wcount = g.wcount /\ f.dlen = 0 /\ f.rcount = g.rcount /\ f.exp = g.exp /\ f.err = g.err
  BY <1>6, Zenon DEF Socket
<1> HIDE DEF f
<1>10. Mute(g) BY <1>4, <1>6, <1>7 DEF Mute, Own
<1>11. Mute(f) BY <1>4, <1>7, <1>8, <1>9 DEF Mute, Own
<1> QED BY <1>4, <1>5, <1>7, <1>9, <1>10, <1>11 DEF f

LEMMA NukeDrops ==
  ASSUME NEW d \in Socket, d.par, d.dlen = 0, d.taken >= 0, 0 <= d.err, d.err <= MaxErr + 1
  PROVE  Drops(d, Done(Nuke(d))) /\ Drops(d, Done([Nuke(d) EXCEPT !.dlen = 0]))
BY NukeSays, DoneSays DEF Drops, Alive

(* A reset arrives.                                                         *)
LEMMA SReset ==
  ASSUME NEW d, Mute(d)
  PROVE  Drops(d, TcpRst([d EXCEPT !.dlen = 0, !.wcount = 0, !.rcount = 0]))
<1> DEFINE z == [d EXCEPT !.dlen = 0, !.wcount = 0, !.rcount = 0]
           f == [z EXCEPT !.flags = {RST}, !.st = STATE_CLOSED]
           r == TcpRst(z)
           m == [fl |-> {RST}, seq |-> d.seq, ack |-> d.ack, dat |-> 0, len |-> 0]
<1>1. d \in Socket BY DEF Mute
<1>2. z \in Socket BY <1>1, Known, Zenon DEF Socket
<1>3. /\ z.par = d.par /\ z.most = d.most /\ z.taken = d.taken /\ z.wcount = 0 /\ z.dlen = 0 /\ z.rcount = 0
      /\ z.err = d.err /\ z.ip = d.ip /\ z.seq = d.seq /\ z.ack = d.ack
  BY <1>1, Zenon DEF Socket
<1>4. f \in Socket BY <1>2, Known, Zenon DEF Socket
<1>5. /\ f.st = STATE_CLOSED /\ f.flags = {RST} /\ f.par = z.par /\ f.most = z.most /\ f.taken = z.taken
      /\ f.wcount = z.wcount /\ f.dlen = z.dlen /\ f.rcount = z.rcount /\ f.err = z.err
  BY <1>2, Zenon DEF Socket
<1>6. r = [c |-> f, out |-> IF d.ip THEN << m >> ELSE << >>, up |-> d.ip]
  BY <1>1 DEF TcpRst, FastTcpPack, Socket
<1>7. m \in Segments
  <2>1. d.seq \in Words /\ d.ack \in Words BY <1>1 DEF Socket
  <2> QED BY <2>1, Known DEF Segments
<1>8. m \in Voice(f) BY <1>7 DEF Voice
<1> HIDE DEF f, z, m, r
<1>9. Mute(f) BY <1>3, <1>4, <1>5 DEF Mute, Own
<1>10. (IF d.ip THEN << m >> ELSE << >>) \in Seq(Voice(f)) BY <1>8
<1>11. r.c = f /\ r.out = (IF d.ip THEN << m >> ELSE << >>) BY <1>6
<1> QED BY <1>3, <1>5, <1>9, <1>10, <1>11 DEF Drops, Said, Alive, r, z

(* A segment is refused with a reset, or without an answer.                 *)
LEMMA SRefuses ==
  ASSUME NEW d, Mute(d), NEW m \in Segments, NEW out \in {<< >>, RstSpecial(m)}, NEW u \in BOOLEAN
  PROVE  Keeps(d, [c |-> d, out |-> out, up |-> u], d.rcount)
<1> DEFINE a == [fl |-> {RST}, seq |-> m.ack, ack |-> m.seq, dat |-> 0, len |-> 0]
<1>1. a \in Segments BY Known DEF Segments
<1>2. a \in Voice(d) BY <1>1 DEF Voice
<1>3. RstSpecial(m) = << a >> BY DEF RstSpecial
<1> HIDE DEF a
<1>4. << >> \in Seq(Voice(d)) /\ << a >> \in Seq(Voice(d)) BY <1>2
<1>5. out \in Seq(Voice(d)) BY <1>3, <1>4
<1> QED BY <1>5 DEF Keeps, Said

(* A SYN makes the listening child a connection.                            *)
LEMMA SListens ==
  ASSUME NEW d, Mute(d), d.st = STATE_LISTEN, NEW m \in Segments, RST \notin m.fl, NEW isn \in Words
  PROVE  Hearing(d, m, ListenProc(d, m, isn))
<1> DEFINE num == Word32(m.seq + 1)
           b == [d EXCEPT !.ip = TRUE, !.ack = num, !.seq = isn, !.base = 0, !.taken = 0, !.intact = TRUE]
           f == [b EXCEPT !.flags = {SYN, ACK}, !.st = STATE_SYN_RECEIVED]
           x == [f EXCEPT !.exp = TRUE, !.err = 0]
           a == [fl |-> {SYN, ACK}, seq |-> f.seq, ack |-> f.ack, dat |-> 0, len |-> 0]
<1>1. CASE SYN \notin m.fl
  <2>1. ListenProc(d, m, isn) = [c |-> d, out |-> RstSpecial(m), up |-> TRUE] BY <1>1 DEF ListenProc
  <2>2. Keeps(d, [c |-> d, out |-> RstSpecial(m), up |-> TRUE], d.rcount) BY SRefuses
  <2> QED BY <2>1, <2>2 DEF Hearing
<1>2. CASE SYN \in m.fl
  <2>1. d \in Socket /\ m.seq + 1 \in Int BY DEF Mute, Segments, Words
  <2>2. num \in Words BY <2>1, Numbers
  <2> HIDE DEF num
  <2>3. b \in Socket BY <2>1, <2>2, Known, Zenon DEF Socket
  <2>4. /\ b.par = d.par /\ b.most = d.most /\ b.taken = 0 /\ b.wcount = d.wcount /\ b.dlen = d.dlen
        /\ b.rcount = d.rcount /\ b.ack = num /\ b.ip
    BY <2>1, Zenon DEF Socket
  <2> HIDE DEF b
  <2>5. f \in Socket BY <2>3, Known, Zenon DEF Socket
  <2>6. /\ f.par = b.par /\ f.most = b.most /\ f.taken = b.taken /\ f.wcount = b.wcount /\ f.dlen = b.dlen
        /\ f.rcount = b.rcount /\ f.ack = b.ack /\ f.st = STATE_SYN_RECEIVED /\ f.flags = {SYN, ACK}
    BY <2>3, Zenon DEF Socket
  <2>7. TcpSynAndAck(b) = [c |-> f, out |-> << a >>, up |-> b.ip] BY <2>4 DEF TcpSynAndAck, FastTcpPack
  <2> HIDE DEF f
  <2>8. x \in Socket BY <2>5, Known, Zenon DEF Socket
  <2>9. /\ x.par = f.par /\ x.most = f.most /\ x.taken = f.taken /\ x.wcount = f.wcount /\ x.dlen = f.dlen
        /\ x.rcount = f.rcount /\ x.ack = f.ack /\ x.st = f.st /\ x.flags = f.flags /\ x.err = 0
    BY <2>5, Zenon DEF Socket
  <2> HIDE DEF x
  <2>10. a \in Segments BY <2>5, Known DEF Segments, Socket
  <2>11. a.fl = x.flags /\ a.ack = x.ack /\ a.len = 0 BY <2>6, <2>9
  <2> HIDE DEF a
  <2>12. x.st = STATE_SYN_RECEIVED /\ x.flags = {SYN, ACK} BY <2>6, <2>9
  <2>13. a \in Voice(x) BY <2>10, <2>11, <2>12 DEF Voice, Alive
  <2>14. ListenProc(d, m, isn) = [[c |-> f, out |-> << a >>, up |-> b.ip] EXCEPT !.c.exp = TRUE, !.c.err = 0]
    BY <1>2, <2>7 DEF ListenProc, b, num
  <2>15. ListenProc(d, m, isn) = [c |-> x, out |-> << a >>, up |-> b.ip] BY <2>14 DEF x
  <2>16. Mute(x) BY <2>4, <2>6, <2>8, <2>9, <2>12, TcpAssumption DEF Mute, Own
  <2>17. << a >> \in Seq(Voice(x)) BY <2>13
  <2> DEFINE r == ListenProc(d, m, isn)
  <2>18. r.c = x /\ r.out = << a >> BY <2>15
  <2> HIDE DEF r
  <2>19. Hears(d, m, r) BY <1>2, <2>4, <2>6, <2>9, <2>16, <2>17, <2>18 DEF Hears, Said, num
  <2> QED BY <2>19 DEF Hearing, r
<1> QED BY <1>1, <1>2

(* In SYN_RECEIVED a SYN is answered again, and the acknowledgement of ours *)
(* opens the connection.                                                    *)
LEMMA SOpens ==
  ASSUME NEW d, Mute(d), d.st = STATE_SYN_RECEIVED, NEW m \in Segments, RST \notin m.fl,
         SYN \in m.fl => m.fl = {SYN}
  PROVE  Hearing(d, m, SynReceivedProc(d, m))
<1>1. d \in Socket /\ d.flags = {SYN, ACK} /\ d.wcount = 0 /\ d.dlen = 0 BY DEF Mute, Own
<1>2. CASE SYN \in m.fl
  <2> DEFINE x == [d EXCEPT !.err = 0, !.exp = TRUE]
             r == SynReceivedProc(d, m)
  <2>1. ACK \notin m.fl BY <1>2
  <2>2. [d EXCEPT !.flags = {SYN, ACK}] = d BY <1>1 DEF Socket
  <2>3. r = [SendSocket(d) EXCEPT !.c.err = 0, !.c.exp = TRUE]
    BY <1>2, <2>1, <2>2, Zenon DEF SynReceivedProc
  <2>4. SendSocket(d) = Echo(d) /\ Said(Echo(d)) BY <1>1, EchoSays DEF Alive
  <2>5. r = [Echo(d) EXCEPT !.c.err = 0, !.c.exp = TRUE] BY <2>3, <2>4
  <2>6. r.c = x /\ r.out = Echo(d).out BY <2>5 DEF Echo
  <2>7. /\ x \in Socket /\ x.st = d.st /\ x.par = d.par /\ x.wcount = d.wcount /\ x.dlen = d.dlen /\ x.ack = d.ack
        /\ x.taken = d.taken /\ x.most = d.most /\ x.rcount = d.rcount /\ x.flags = d.flags /\ x.err = 0
    BY <1>1, Known, Zenon DEF Socket
  <2> HIDE DEF x, r
  <2>8. Mute(x) BY <2>7, TcpAssumption DEF Mute, Own
  <2>9. Voice(x) = Voice(d) BY <2>7 DEF Voice, Alive
  <2>10. Echo(d).c = d BY DEF Echo
  <2>11. Keeps(d, r, d.rcount) BY <2>4, <2>6, <2>7, <2>8, <2>9, <2>10 DEF Keeps, Said
  <2> QED BY <2>11 DEF Hearing, r
<1>3. CASE SYN \notin m.fl /\ ~(ACK \in m.fl /\ m.ack = ULong(d.seq + 1))
  <2>1. SynReceivedProc(d, m) = Done(d) BY <1>3 DEF SynReceivedProc
  <2> QED BY <2>1, MuteStays DEF Hearing
<1>4. CASE SYN \notin m.fl /\ ACK \in m.fl /\ m.ack = ULong(d.seq + 1)
  <2> DEFINE b == [d EXCEPT !.flags = {ACK}]
             num == Word32(d.seq + 1)
             x == [b EXCEPT !.seq = num, !.exp = FALSE, !.err = 0, !.st = STATE_ESTABLISHED]
             r == SynReceivedProc(d, m)
  <2>1. /\ b \in Socket /\ b.st = d.st /\ b.par = d.par /\ b.wcount = 0 /\ b.dlen = 0 /\ b.ack = d.ack
        /\ b.taken = d.taken /\ b.most = d.most /\ b.rcount = d.rcount /\ b.flags = {ACK} /\ b.seq = d.seq
    BY <1>1, Known, Zenon DEF Socket
  <2>2. num \in Words
    <3>1. d.seq + 1 \in Int BY <1>1 DEF Socket, Words
    <3> QED BY <3>1, Numbers
  <2>3. Done(d).c = d /\ Done(d).out = << >> /\ Done(d).up BY DEF Done
  <2>4. SendSocket(b) = Echo(b) BY <2>1, Echoes
  <2>5. r = [c |-> [SendSocket(b).c EXCEPT !.seq = Word32(@ + 1), !.exp = FALSE, !.err = 0, !.st = STATE_ESTABLISHED],
             out |-> << >> \o SendSocket(b).out, up |-> TRUE /\ SendSocket(b).up]
    BY <1>4, <2>3, Zenon DEF SynReceivedProc, Done
  <2> HIDE DEF r
  <2>6. Echo(b).c = b /\ Echo(b).out = (IF b.ip THEN <<Plain(b)>> ELSE << >>) BY DEF Echo
  <2>7. r.c = x BY <2>1, <2>4, <2>5, <2>6
  <2>8. Plain(b) \in Segments /\ Plain(b).fl = {ACK} /\ Plain(b).ack = d.ack /\ Plain(b).len = 0
    BY <2>1, Known DEF Plain, Segments, Socket
  <2> HIDE DEF b, num
  <2>9. /\ x \in Socket /\ x.st = STATE_ESTABLISHED /\ x.par = b.par /\ x.wcount = b.wcount /\ x.dlen = b.dlen
        /\ x.ack = b.ack /\ x.taken = b.taken /\ x.most = b.most /\ x.rcount = b.rcount /\ x.flags = b.flags
        /\ x.exp = FALSE /\ x.err = 0
    BY <2>1, <2>2, Known, Zenon DEF Socket
  <2> HIDE DEF x
  <2>10. Plain(b) \in Voice(x) BY <2>1, <2>8, <2>9 DEF Voice, Alive
  <2>11. Echo(b).out \in Seq(Voice(x)) BY <2>6, <2>10
  <2>12. << >> \o Echo(b).out = Echo(b).out BY <2>11
  <2>13. r.out = Echo(b).out BY <2>4, <2>5, <2>12
  <2>14. Mute(x) BY <2>1, <2>9, TcpAssumption DEF Mute, Own
  <2>15. Opens(d, m, r) BY <1>4, <2>1, <2>7, <2>9, <2>11, <2>13, <2>14 DEF Opens, Said
  <2> QED BY <2>15 DEF Hearing, r
<1> QED BY <1>2, <1>3, <1>4

(* Data of an exact segment begins where the stream ended.                  *)
LEMMA ExactBegins ==
  ASSUME Total[Client] < SeqSpace, NEW i \in Words, NEW past \in BOOLEAN, NEW w \in 0 .. Total[Client],
         NEW c, Receiver(i, c, Total[Client], past), c.st = STATE_ESTABLISHED,
         NEW m \in FromClient(i, w, past), RST \notin m.fl, Exact(c, m), m.len # 0
  PROVE  m.dat = c.taken /\ m.len > 0
<1>1. c \in Socket /\ m \in Segments BY DEF Receiver, FromClient
<1>2. m.seq = Num(i, 1 + m.dat) /\ SYN \notin m.fl /\ m.dat >= 0 /\ m.len > 0 /\ m.dat + m.len <= w
  BY DEF FromClient
<1>3. c.ack = Num(i, 1 + c.taken) /\ 0 <= c.taken /\ c.taken <= c.most /\ c.most <= Total[Client]
  BY DEF Receiver
<1>4. m.dat \in Int /\ m.len \in Int /\ c.taken \in Int /\ c.most \in Int /\ i \in Int /\ w \in Int
      /\ c.ack \in Words /\ m.seq \in Words /\ Total[Client] \in Int /\ w <= Total[Client]
      /\ Total[Client] < SeqSpace
  BY <1>1, LinkAssumption DEF Socket, Segments, Words, Host
<1>5. c.ack = m.seq
  <2>1. ULong(c.ack - m.seq) = 0 BY <1>2 DEF Exact
  <2>2. (c.ack - m.seq) % LongSpace = 0 % LongSpace
    <3>1. 0 % LongSpace = 0 BY Numbers, Small
    <3> QED BY <2>1, <3>1 DEF ULong
  <2> DEFINE x == c.ack - m.seq
  <2>3. LongSpace \in Nat \ {0} /\ SeqSpace \in Nat /\ SeqSpace <= LongSpace BY Numbers
  <2>4. x \in Int /\ 0 \in Int /\ x - 0 < LongSpace /\ 0 - x < LongSpace BY <1>4, <2>3 DEF Words
  <2>5. x % LongSpace = 0 % LongSpace BY <2>2
  <2> HIDE DEF x
  <2>6. x = 0 BY <2>3, <2>4, <2>5, NearEqual
  <2> QED BY <2>6, <1>4 DEF x, Words
<1> DEFINE u == i + (1 + c.taken)  v == i + (1 + m.dat)
<1>6. SeqSpace \in Nat BY Numbers
<1>7. c.taken \in 0 .. Total[Client] /\ m.dat \in 0 .. Total[Client] BY <1>2, <1>3, <1>4
<1>8. u \in Int /\ v \in Int /\ u - v < SeqSpace /\ v - u < SeqSpace BY <1>4, <1>6, <1>7
<1>9. Word32(u) = Word32(v) BY <1>2, <1>3, <1>5 DEF Num
<1> HIDE DEF u, v
<1>10. u = v BY <1>8, <1>9, Numbers
<1> QED BY <1>2, <1>4, <1>10 DEF u, v

LEMMA TakeSays ==
  ASSUME NEW d, Mute(d), d.st = STATE_ESTABLISHED, NEW m \in Segments, m.len > 0
  PROVE  LET f == Take(d, m) IN
         /\ Mute(f) /\ f.st = STATE_ESTABLISHED /\ f.ack = Word32(d.ack + m.len)
         /\ f.taken = d.taken + m.len /\ f.rcount = d.rcount + m.len
         /\ f.most = (IF d.most > d.taken + m.len THEN d.most ELSE d.taken + m.len)
<1> DEFINE f == Take(d, m)
           mo == IF d.most > d.taken + m.len THEN d.most ELSE d.taken + m.len
<1>1. d \in Socket /\ m.len # 0 /\ m.len \in Int BY DEF Mute, Segments
<1>2. PICK b \in BOOLEAN : b = (d.intact /\ m.dat = d.taken) OBVIOUS
<1>3. f = [d EXCEPT !.ack = Word32(d.ack + m.len), !.rcount = d.rcount + m.len,
               !.taken = d.taken + m.len, !.most = mo, !.intact = b]
  BY <1>1, <1>2 DEF Take, Socket
<1>4. /\ f \in Socket /\ f.st = d.st /\ f.par = d.par /\ f.flags = d.flags /\ f.dlen = d.dlen /\ f.wcount = d.wcount
      /\ f.ack = Word32(d.ack + m.len) /\ f.taken = d.taken + m.len
      /\ f.most = (IF d.most > d.taken + m.len THEN d.most ELSE d.taken + m.len)
  BY <1>1, Takes
<1> HIDE DEF f, mo
<1>5. f.rcount = d.rcount + m.len /\ f.exp = d.exp /\ f.err = d.err BY <1>1, <1>3, Zenon DEF Socket
<1>6. d.taken \in Int /\ d.rcount \in Int BY <1>1 DEF Socket
<1>7. d.taken + m.len >= 0 /\ d.rcount + m.len >= 0 BY <1>1, <1>6 DEF Mute, Own
<1>8. Mute(f) BY <1>4, <1>5, <1>7 DEF Mute, Own
<1> QED BY <1>4, <1>5, <1>8 DEF f

(* establishedproc: of what it acknowledges nothing is in flight; data and  *)
(* FIN are taken when the segment is exact.                                 *)
LEMMA SReleases ==
  ASSUME NEW d, Mute(d), d.st = STATE_ESTABLISHED, NEW m \in Segments,
         NEW n, n = d.dlen - Outstanding(d, m), Outstanding(d, m) <= d.dlen
  PROVE  Like(d, Release(d, n))
<1> DEFINE e == Release(d, n)
           num == Word32(d.seq + n)
           g == [d EXCEPT !.flags = {ACK}, !.err = 0, !.wcount = 0, !.dlen = 0,
                          !.base = d.base, !.seq = num, !.exp = FALSE]
<1>1. d \in Socket /\ d.dlen = 0 /\ d.wcount = 0 /\ d.base \in Int /\ d.seq \in Int
  BY Numbers DEF Mute, Socket, Words
<1>2. n = 0
  <2>1. Outstanding(d, m) \in Nat
    <3>1. \A x \in Int : ULong(x) \in Nat
      <4>1. LongSpace \in Nat /\ \A x \in Int : ULong(x) \in 0 .. LongSpace - 1 BY Numbers
      <4> QED BY <4>1
    <3>2. d.seq + d.dlen \in Int /\ m.ack \in Int
      <4>1. m.ack \in Words BY DEF Segments
      <4>2. SeqSpace \in Nat BY Numbers
      <4> QED BY <1>1, <4>1, <4>2 DEF Words
    <3>3. ULong(d.seq + d.dlen) \in Int BY <3>1, <3>2
    <3>4. ULong(d.seq + d.dlen) - m.ack \in Int BY <3>2, <3>3
    <3> QED BY <3>1, <3>4 DEF Outstanding
  <2> QED BY <1>1, <2>1
<1>3. num \in Words
  <2>1. d.seq + n \in Int BY <1>1, <1>2
  <2> QED BY <2>1, Numbers
<1>4. e = g
  <2>1. d.wcount - n = 0 /\ d.dlen - n = 0 /\ d.base + n = d.base /\ (d.dlen # n) = FALSE
    BY <1>1, <1>2
  <2>2. e = [d EXCEPT !.flags = {ACK}, !.err = 0, !.wcount = d.wcount - n, !.dlen = d.dlen - n,
                      !.base = d.base + n, !.seq = num, !.exp = (d.dlen # n)]
    BY <1>1 DEF Release, Socket
  <2> QED BY <2>1, <2>2
<1> HIDE DEF e, num
<1>5. /\ g \in Socket /\ g.st = d.st /\ g.par = d.par /\ g.ack = d.ack /\ g.taken = d.taken /\ g.most = d.most
      /\ g.rcount = d.rcount /\ g.flags = {ACK} /\ g.err = 0 /\ g.wcount = 0 /\ g.dlen = 0 /\ g.exp = FALSE
  BY <1>1, <1>3, Known, Zenon DEF Socket
<1> HIDE DEF g
<1>6. Like(d, g) BY <1>5, TcpAssumption DEF Like, Mute, Own
<1> QED BY <1>4, <1>6 DEF e

LEMMA STakes ==
  ASSUME NEW d, Mute(d), d.st = STATE_ESTABLISHED, NEW e, Like(d, e), NEW m \in Segments, RST \notin m.fl,
         m.len # 0 /\ Exact(e, m) => m.dat = d.taken /\ m.len > 0
  PROVE  Hearing(d, m, ProcessTcpData(e, m))
<1> DEFINE t == Take(e, m)
           f == IF FIN \notin m.fl THEN t
                ELSE [t EXCEPT !.ack = Word32(@ + 1), !.st = STATE_CLOSING, !.exp = TRUE]
           r == ProcessTcpData(e, m)
<1>1. Mute(e) /\ e \in Socket /\ e.st = STATE_ESTABLISHED BY DEF Like, Mute
<1>2. CASE ~Exact(e, m)
  <2>1. r = SendSocket(e) BY <1>2 DEF ProcessTcpData
  <2>2. Keeps(d, r, d.rcount) BY <2>1, LikeSays DEF Alive
  <2> QED BY <2>2 DEF Hearing
<1>3. CASE Exact(e, m)
  <2>1. r = IF m.len > 0 \/ f.st # e.st THEN SendSocket(f) ELSE Done(f)
    <3> DEFINE u == [t EXCEPT !.ack = Word32(@ + 1), !.st = STATE_CLOSING, !.exp = TRUE]
               x == [t EXCEPT !.ack = Word32(@ + 1), !.st = STATE_TIME_WAIT, !.exp = TRUE, !.flags = {ACK}]
               y == [t EXCEPT !.ack = Word32(@ + 1), !.st = STATE_CLOSING, !.exp = TRUE, !.flags = {ACK, FIN}]
               z == [t EXCEPT !.ack = Word32(@ + 1)]
               g == IF FIN \notin m.fl THEN t ELSE
                    CASE e.st = STATE_FINWAIT2 -> x
                      [] e.st = STATE_ESTABLISHED -> u
                      [] e.st = STATE_FINWAIT1 /\ ACK \notin m.fl -> y
                      [] OTHER -> z
               h == [t EXCEPT !.exp = TRUE, !.flags = {ACK}, !.st = STATE_FINWAIT2]
    <3>1. f = IF FIN \notin m.fl THEN t ELSE u OBVIOUS
    <3> HIDE DEF t, u, x, y, z, f
    <3>2. g = f BY <1>1, <3>1
    <3>3. r = IF ~Exact(e, m) THEN SendSocket(e)
              ELSE IF e.st = STATE_FINWAIT1 /\ (FIN \notin m.fl \/ ACK \in m.fl) THEN Done(h)
              ELSE IF m.len > 0 \/ g.st # e.st \/ e.st = STATE_FINWAIT1 THEN SendSocket(g) ELSE Done(g)
      BY Zenon DEF ProcessTcpData, t, u, x, y, z
    <3> HIDE DEF r, g, h
    <3> QED BY <1>1, <1>3, <3>2, <3>3
  <2> HIDE DEF f, r
  <2>2. CASE m.len = 0 /\ FIN \notin m.fl
    <3>1. t = e BY <2>2 DEF Take
    <3>2. r = Done(e) BY <2>1, <2>2, <3>1 DEF f
    <3> QED BY <3>2, LikeSays DEF Hearing, r
  <2>3. ASSUME m.len # 0
        PROVE  /\ m.len > 0 /\ Mute(t) /\ t.st = STATE_ESTABLISHED /\ t.ack = Word32(e.ack + m.len)
               /\ t.taken = d.taken + m.len /\ t.rcount = d.rcount + m.len /\ m.dat = d.taken
               /\ t.most = (IF d.most > d.taken + m.len THEN d.most ELSE d.taken + m.len)
    <3>1. m.len > 0 BY <1>3, <2>3
    <3> QED BY <1>1, <1>3, <2>3, <3>1, TakeSays DEF Like
  <2>4. CASE m.len # 0 /\ FIN \notin m.fl
    <3>1. r = SendSocket(t) /\ Mute(t) BY <2>1, <2>3, <2>4 DEF f
    <3>2. Alive(t) BY <2>3, <2>4 DEF Alive
    <3> HIDE DEF t
    <3>3. Said(r) /\ r.c = t BY <3>1, <3>2, EchoSays
    <3>4. Accepts(d, m, r) BY <2>3, <2>4, <3>3 DEF Accepts, Like
    <3> QED BY <3>4 DEF Hearing, r
  <2>5. CASE FIN \in m.fl
    <3> DEFINE num == Word32(t.ack + 1)
               g == [t EXCEPT !.ack = num, !.st = STATE_CLOSING, !.exp = TRUE]
    <3>1. Mute(t) /\ t.st = STATE_ESTABLISHED /\ t.taken - t.rcount = d.taken - d.rcount /\ t.most >= d.most
      <4>1. CASE m.len = 0
        <5>1. t = e BY <4>1 DEF Take
        <5>2. d.most \in Int BY DEF Mute, Socket
        <5> QED BY <1>1, <5>1, <5>2 DEF Like
      <4>2. CASE m.len # 0
        <5>1. d.most \in Int /\ d.taken \in Int /\ d.rcount \in Int /\ m.len \in Int BY DEF Mute, Socket, Segments
        <5>2. (d.taken + m.len) - (d.rcount + m.len) = d.taken - d.rcount BY <5>1
        <5> QED BY <2>3, <4>2, <5>1, <5>2
      <4> QED BY <4>1, <4>2
    <3>2. f = g BY <2>5 DEF f
    <3> HIDE DEF t
    <3>3. t \in Socket /\ num \in Words
      <4>1. t \in Socket BY <3>1 DEF Mute
      <4>2. t.ack + 1 \in Int BY <4>1 DEF Socket, Words
      <4> QED BY <4>1, <4>2, Numbers
    <3> HIDE DEF num
    <3>11. STATE_CLOSING \in Reached BY Known
    <3>12. g \in Socket BY ONLY <3>3, <3>11, Zenon DEF Socket
    <3>13. /\ g.st = STATE_CLOSING /\ g.par = t.par /\ g.taken = t.taken /\ g.most = t.most
           /\ g.rcount = t.rcount /\ g.flags = t.flags /\ g.err = t.err /\ g.wcount = t.wcount /\ g.dlen = t.dlen
      BY ONLY <3>3, Zenon DEF Socket
    <3> HIDE DEF g
    <3>4. /\ g \in Socket /\ g.st = STATE_CLOSING /\ g.par = t.par /\ g.taken = t.taken /\ g.most = t.most
          /\ g.rcount = t.rcount /\ g.flags = t.flags /\ g.err = t.err /\ g.wcount = t.wcount /\ g.dlen = t.dlen
      BY <3>12, <3>13
    <3>5. Mute(g) /\ Alive(g) BY <3>1, <3>4 DEF Mute, Own, Alive
    <3>6. r = SendSocket(g) BY <1>1, <2>1, <3>2, <3>4
    <3>7. Said(r) /\ r.c = g BY <3>5, <3>6, EchoSays
    <3>8. Ends(d, m, r) BY <2>5, <3>1, <3>4, <3>7 DEF Ends
    <3> QED BY <3>8 DEF Hearing, r
  <2> QED BY <2>2, <2>4, <2>5
<1> QED BY <1>2, <1>3

LEMMA SEstablished ==
  ASSUME Total[Client] < SeqSpace, NEW i \in Words, NEW past \in BOOLEAN, NEW w \in 0 .. Total[Client],
         NEW d, Receiver(i, d, Total[Client], past), d.st = STATE_ESTABLISHED, Mute(d),
         NEW m \in FromClient(i, w, past), RST \notin m.fl
  PROVE  Hearing(d, m, EstablishedProc(d, m))
<1> DEFINE left == Outstanding(d, m)
           e == IF left <= d.dlen THEN Release(d, d.dlen - left) ELSE d
           r == EstablishedProc(d, m)
<1>1. Like(d, e) /\ m \in Segments BY SReleases, MuteStays DEF FromClient
<1>2. r = IF ACK \notin m.fl THEN Done(d)
          ELSE IF m.fl # {ACK} \/ m.len > 0 THEN ProcessTcpData(e, m) ELSE Done(e)
  BY DEF EstablishedProc
<1> HIDE DEF e, r
<1>3. Keeps(d, Done(d), d.rcount) /\ Keeps(d, Done(e), d.rcount) BY <1>1, MuteStays, LikeSays
<1>4. m.len # 0 /\ Exact(e, m) => m.dat = d.taken /\ m.len > 0
  <2>1. e.ack = d.ack /\ e.rcount = d.rcount BY <1>1 DEF Like
  <2>2. Exact(e, m) => Exact(d, m) BY <2>1 DEF Exact
  <2> QED BY <2>2, ExactBegins
<1>5. Hearing(d, m, ProcessTcpData(e, m)) BY <1>1, <1>4, STakes
<1> QED BY <1>2, <1>3, <1>5 DEF Hearing, r

(* closingproc and last_ackproc.                                            *)
LEMMA SClosing ==
  ASSUME NEW d, Mute(d), d.st = STATE_CLOSING, NEW m, RST \notin m.fl
  PROVE  Hearing(d, m, ClosingProc(d, m))
<1> DEFINE fin == {ACK, FIN}
           a == [d EXCEPT !.flags = fin]
           b == [d EXCEPT !.err = 0, !.flags = {ACK}]
           x == [d EXCEPT !.st = STATE_TIME_WAIT, !.err = 0, !.flags = fin]
           y == [a EXCEPT !.exp = TRUE, !.err = MaxErr - 1]
           z == [d EXCEPT !.flags = fin, !.err = MaxErr - 1, !.exp = TRUE]
           r == ClosingProc(d, m)
<1>0. d \in Socket /\ fin \in SUBSET Flags BY Known DEF Mute
<1>1. /\ Mute(d) /\ d.st # STATE_SYN_RECEIVED /\ d.st # STATE_ESTABLISHED
      /\ fin \in SUBSET Flags /\ SYN \notin fin /\ {ACK} \in SUBSET Flags /\ SYN \notin {ACK}
      /\ MaxErr - 1 \in 0 .. MaxErr /\ 0 \in 0 .. MaxErr /\ TRUE \in BOOLEAN
  BY Known, TcpAssumption
<1> HIDE DEF fin
<1>2. Like(d, a) /\ Like(d, z)
  <2>1. Like(d, a) BY ONLY <1>1, Tuned, Zenon
  <2>2. Like(d, z) BY ONLY <1>1, Tuned, Zenon
  <2> QED BY <2>1, <2>2
<1>3. Like(d, b)
  <2>1. b = [d EXCEPT !.flags = {ACK}, !.err = 0] BY <1>0 DEF Socket
  <2>2. Like(d, [d EXCEPT !.flags = {ACK}, !.err = 0]) BY ONLY <1>1, Tuned, Zenon
  <2> QED BY <2>1, <2>2
<1>4. /\ x \in Socket /\ x.st = STATE_TIME_WAIT /\ x.par = d.par /\ x.taken = d.taken /\ x.most = d.most
      /\ x.rcount = d.rcount /\ x.flags = fin /\ x.err = 0 /\ x.wcount = d.wcount /\ x.dlen = d.dlen
  <2>1. x \in Socket
    <3> DEFINE wait == STATE_TIME_WAIT
               v == [d EXCEPT !.st = wait, !.err = 0, !.flags = fin]
    <3>1. wait \in Reached BY Known
    <3>2. x = v OBVIOUS
    <3> HIDE DEF wait, x
    <3>3. v \in Socket BY ONLY <1>0, <3>1, Known, Zenon DEF Socket
    <3> QED BY <3>2, <3>3
  <2>2. /\ x.st = STATE_TIME_WAIT /\ x.par = d.par /\ x.taken = d.taken /\ x.most = d.most
        /\ x.rcount = d.rcount /\ x.flags = fin /\ x.err = 0 /\ x.wcount = d.wcount /\ x.dlen = d.dlen
    BY <1>0 DEF Socket
  <2> QED BY <2>1, <2>2
<1>5. y = z BY <1>0, Zenon DEF Socket
<1>6. r = IF m.ack = ULong(d.seq + 1)
          THEN IF d.rcount > 0 THEN Done(b) ELSE SendSocket(x)
          ELSE [SendSocket(a) EXCEPT !.c.exp = TRUE, !.c.err = MaxErr - 1]
  BY DEF ClosingProc, fin
<1>7. Mute(a) /\ Alive(a) BY <1>2 DEF Like, Alive
<1>8. SendSocket(a) = Echo(a) /\ Said(Echo(a)) BY <1>7, EchoSays
<1>20. a.flags = fin /\ z.flags = fin BY <1>0, Zenon DEF Socket
<1>21. a.st = d.st /\ z.st = d.st /\ a.ack = d.ack /\ z.ack = d.ack BY <1>2 DEF Like
<1> HIDE DEF a, b, x, z, r
<1>9. Voice(z) = Voice(a) BY <1>20, <1>21 DEF Voice, Alive
<1>10. CASE m.ack = ULong(d.seq + 1) /\ d.rcount > 0
  <2>1. r = Done(b) BY <1>6, <1>10
  <2> QED BY <1>3, <2>1, LikeSays DEF Hearing, r
<1>11. CASE m.ack = ULong(d.seq + 1) /\ ~(d.rcount > 0)
  <2>1. r = SendSocket(x) BY <1>6, <1>11
  <2>2. Mute(x) /\ Alive(x) BY <1>1, <1>4, TcpAssumption DEF Mute, Own, Alive
  <2>3. Said(r) /\ r.c = x BY <2>1, <2>2, EchoSays
  <2>4. Lapses(d, r) BY <1>4, <2>3 DEF Lapses
  <2> QED BY <2>4 DEF Hearing, r
<1>12. CASE m.ack # ULong(d.seq + 1)
  <2>1. r = [Echo(a) EXCEPT !.c.exp = TRUE, !.c.err = MaxErr - 1] BY <1>6, <1>8, <1>12
  <2>2. r.c = z /\ r.out = Echo(a).out BY <2>1, <1>5 DEF Echo
  <2>3. Echo(a).c = a BY DEF Echo
  <2>4. Keeps(d, r, d.rcount) BY <1>2, <1>8, <1>9, <2>2, <2>3 DEF Keeps, Said, Like
  <2> QED BY <2>4 DEF Hearing, r
<1> QED BY <1>10, <1>11, <1>12

LEMMA SLastAck ==
  ASSUME NEW d, Mute(d), d.st = STATE_LAST_ACK, NEW m, RST \notin m.fl
  PROVE  Hearing(d, m, LastAckProc(d, m))
<1> DEFINE fin == {ACK, FIN}
           a == [d EXCEPT !.flags = fin]
           z == [d EXCEPT !.flags = fin, !.err = 0]
           n == [d EXCEPT !.exp = FALSE, !.dlen = 0, !.err = 0]
           r == LastAckProc(d, m)
<1>0. d \in Socket /\ fin \in SUBSET Flags BY Known DEF Mute
<1>1. /\ Mute(d) /\ d.st # STATE_SYN_RECEIVED /\ d.st # STATE_ESTABLISHED
      /\ fin \in SUBSET Flags /\ SYN \notin fin /\ 0 \in 0 .. MaxErr /\ TRUE \in BOOLEAN
  BY Known, TcpAssumption
<1> HIDE DEF fin
<1>2. Like(d, a) /\ Like(d, z)
  <2>1. Like(d, a) BY ONLY <1>1, Tuned, Zenon
  <2>2. Like(d, z) BY ONLY <1>1, Tuned, Zenon
  <2> QED BY <2>1, <2>2
<1>3. [a EXCEPT !.err = 0] = z BY <1>0, Zenon DEF Socket
<1>4. /\ n \in Socket /\ n.par = d.par /\ n.dlen = 0 /\ n.taken = d.taken /\ n.err = 0 /\ n.most = d.most
  BY ONLY <1>0, Known, Zenon DEF Socket
<1>5. r = IF m.ack = ULong(d.seq + 1) THEN Done(Nuke(n)) ELSE [SendSocket(a) EXCEPT !.c.err = 0]
  BY DEF LastAckProc, fin
<1>6. Mute(a) /\ Alive(a) BY <1>2 DEF Like, Alive
<1>7. SendSocket(a) = Echo(a) /\ Said(Echo(a)) BY <1>6, EchoSays
<1>8. a.flags = fin /\ z.flags = fin BY <1>0, Zenon DEF Socket
<1>9. a.st = d.st /\ z.st = d.st /\ a.ack = d.ack /\ z.ack = d.ack BY <1>2 DEF Like
<1> HIDE DEF a, n, z, r
<1>10. Voice(z) = Voice(a) BY <1>8, <1>9 DEF Voice, Alive
<1>11. CASE m.ack = ULong(d.seq + 1)
  <2>1. r = Done(Nuke(n)) BY <1>5, <1>11
  <2>2. n.par /\ n.taken >= 0 /\ 0 <= n.err /\ n.err <= MaxErr + 1
    BY <1>1, <1>4, TcpAssumption DEF Mute, Own
  <2>3. Drops(n, r) BY <1>4, <2>1, <2>2, NukeDrops
  <2>4. Drops(d, r) BY <1>4, <2>3 DEF Drops
  <2> QED BY <1>1, <2>4 DEF Hearing, r
<1>12. CASE m.ack # ULong(d.seq + 1)
  <2>1. r = [Echo(a) EXCEPT !.c.err = 0] BY <1>5, <1>7, <1>12
  <2>2. r.c = z /\ r.out = Echo(a).out BY <2>1, <1>3 DEF Echo
  <2>3. Echo(a).c = a BY DEF Echo
  <2>4. Keeps(d, r, d.rcount) BY <1>2, <1>7, <1>10, <2>2, <2>3 DEF Keeps, Said, Like
  <2> QED BY <2>4 DEF Hearing, r
<1> QED BY <1>11, <1>12

LEMMA SNukes == ASSUME NEW d, Mute(d) PROVE Drops(d, Done(Nuke(d)))
<1>1. d \in Socket /\ d.par /\ d.dlen = 0 /\ d.taken >= 0 /\ 0 <= d.err /\ d.err <= MaxErr + 1
  BY DEF Mute, Own
<1> QED BY <1>1, NukeDrops

(* tcp().                                                                   *)
LEMMA STcp ==
  ASSUME Total[Client] < SeqSpace, NEW i \in Words, NEW past \in BOOLEAN, NEW w \in 0 .. Total[Client],
         NEW d, Receiver(i, d, Total[Client], past), Mute(d),
         NEW m \in FromClient(i, w, past), NEW isn \in Words, SYN \in m.fl => m.fl = {SYN}
  PROVE  Hearing(d, m, Tcp(d, m, isn))
<1> DEFINE x == [d EXCEPT !.dlen = 0, !.wcount = 0, !.rcount = 0]
           out == IF RST \in m.fl \/ SYN \in m.fl THEN << >> ELSE RstSpecial(m)
<1>1. d \in Socket /\ m \in Segments BY DEF FromClient, Mute
<1>2. d.st \in {STATE_CLOSED, STATE_LISTEN, STATE_SYN_RECEIVED, STATE_ESTABLISHED, STATE_CLOSING,
                STATE_LAST_ACK, STATE_TIME_WAIT}
  BY <1>1 DEF Mute, Socket, Reached
<1>3. CASE d.st = STATE_CLOSED
  <2>1. Tcp(d, m, isn) = [c |-> d, out |-> out, up |-> TRUE] BY <1>3 DEF Tcp
  <2>2. out \in {<< >>, RstSpecial(m)} /\ TRUE \in BOOLEAN OBVIOUS
  <2> HIDE DEF out
  <2>3. Keeps(d, [c |-> d, out |-> out, up |-> TRUE], d.rcount) BY <1>1, <2>2, SRefuses
  <2> QED BY <2>1, <2>3 DEF Hearing
<1>4. CASE RST \in m.fl /\ d.st # STATE_CLOSED
  <2>1. Tcp(d, m, isn) = IF d.st > STATE_NOTINIT THEN TcpRst(x) ELSE Done(d) BY <1>2, <1>4 DEF Tcp
  <2>2. Drops(d, TcpRst(x)) BY SReset
  <2>3. Keeps(d, Done(d), d.rcount) BY MuteStays
  <2> QED BY <1>4, <2>1, <2>2, <2>3 DEF Hearing
<1>5. CASE RST \notin m.fl /\ d.st # STATE_CLOSED
  <2>1. Tcp(d, m, isn) = ProcTcp(d, m, isn) BY <1>2, <1>5 DEF Tcp
  <2>2. CASE d.st = STATE_LISTEN
    <3>1. ProcTcp(d, m, isn) = ListenProc(d, m, isn) BY <2>2 DEF ProcTcp
    <3> QED BY <1>1, <2>1, <2>2, <3>1, <1>5, SListens
  <2>3. CASE d.st = STATE_SYN_RECEIVED
    <3>1. ProcTcp(d, m, isn) = SynReceivedProc(d, m) BY <2>3 DEF ProcTcp
    <3> QED BY <1>1, <1>5, <2>1, <2>3, <3>1, SOpens
  <2>4. CASE d.st = STATE_ESTABLISHED
    <3>1. ProcTcp(d, m, isn) = EstablishedProc(d, m) BY <2>4 DEF ProcTcp
    <3> QED BY <2>1, <2>4, <3>1, <1>5, SEstablished
  <2>5. CASE d.st = STATE_CLOSING
    <3>1. ProcTcp(d, m, isn) = ClosingProc(d, m) BY <2>5 DEF ProcTcp
    <3> QED BY <1>5, <2>1, <2>5, <3>1, SClosing
  <2>6. CASE d.st = STATE_LAST_ACK
    <3>1. ProcTcp(d, m, isn) = LastAckProc(d, m) BY <2>6 DEF ProcTcp
    <3> QED BY <1>5, <2>1, <2>6, <3>1, SLastAck
  <2>7. CASE d.st = STATE_TIME_WAIT
    <3>1. ProcTcp(d, m, isn) = Done(Nuke(d)) BY <2>7 DEF ProcTcp
    <3>2. d.st # STATE_ESTABLISHED BY <2>7
    <3> QED BY <2>1, <3>1, <3>2, SNukes DEF Hearing
  <2> QED BY <1>2, <1>5, <2>2, <2>3, <2>4, <2>5, <2>6, <2>7
<1> QED BY <1>3, <1>4, <1>5

(* check_sockets: the timer sends the last answer again, or gives up.       *)
LEMMA SRound ==
  ASSUME NEW d, Mute(d), d.st > STATE_UDP, NEW expired \in BOOLEAN
  PROVE  LET r == CheckRound(d, expired) IN
         /\ Keeps(d, r, d.rcount) \/ (Drops(d, r) /\ r.out = << >> /\ d.st # STATE_ESTABLISHED)
         /\ ~expired => r = Done(d)
<1> DEFINE late == expired /\ d.exp
           fresh == d.wcount - d.dlen # 0 /\ d.dlen < MaxTailW
           pushing == late /\ ~Spent(d) /\ d.st > STATE_SYN_RECEIVED /\ d.st < STATE_FINWAIT1
           fl == IF fresh \/ pushing THEN {PSH, ACK} ELSE d.flags
           er == IF late THEN d.err + 1 ELSE d.err
           e == [d EXCEPT !.err = er, !.flags = fl]
           a == [e EXCEPT !.dlen = 0]
           r == CheckRound(d, expired)
<1>1. d \in Socket /\ d.wcount = 0 /\ d.dlen = 0 /\ d.err \in Int BY DEF Mute, Socket
<1>2. ~fresh BY <1>1
<1>3. fl \in SUBSET Flags /\ er \in Int BY <1>1, Known DEF Socket
<1>4. r = CASE late /\ Spent(d) -> Done([Nuke(e) EXCEPT !.dlen = 0])
            [] late /\ ~Spent(d) -> SendSocket(a)
            [] ~late /\ fresh -> SendSocket(e)
            [] OTHER -> Done(d)
  <2>1. e = [d EXCEPT !.flags = fl, !.err = er] OBVIOUS
  <2> HIDE DEF e
  <2>2. a = StartAgain(e) BY DEF StartAgain
  <2> HIDE DEF a
  <2> QED BY <2>1, <2>2, Zenon DEF CheckRound, fl, er
<1>5. late => d.st # STATE_ESTABLISHED BY DEF Mute, Own
<1>6. pushing => late /\ d.st # STATE_SYN_RECEIVED BY <1>1 DEF Socket, Reached
<1>7. fl \in {d.flags, {PSH, ACK}} /\ (fl # d.flags => late /\ d.st # STATE_SYN_RECEIVED)
  BY <1>2, <1>6
<1>8. late => er = d.err + 1 OBVIOUS
<1>9. ~late \/ ~expired => r = Done(d) /\ Keeps(d, r, d.rcount)
  <2> HIDE DEF fresh, r, a, e
  <2>1. ~late => r = Done(d) BY <1>2, <1>4
  <2> HIDE DEF late
  <2>2. ~expired => ~late BY DEF late
  <2> QED BY <2>1, <2>2, MuteStays
<1> HIDE DEF fl, er, late, fresh, pushing
<1>10. /\ e \in Socket /\ e.st = d.st /\ e.par = d.par /\ e.wcount = d.wcount /\ e.dlen = d.dlen /\ e.ack = d.ack
       /\ e.taken = d.taken /\ e.most = d.most /\ e.rcount = d.rcount /\ e.flags = fl /\ e.err = er
       /\ e.exp = d.exp
  BY <1>1, <1>3, Zenon DEF Socket
<1> HIDE DEF e
<1>11. a = e BY <1>1, <1>10 DEF Socket
<1> HIDE DEF a, r
<1>12. CASE late /\ Spent(d)
  <2>1. r = Done([Nuke(e) EXCEPT !.dlen = 0]) BY <1>4, <1>12
  <2>2. e.par /\ e.dlen = 0 /\ e.taken >= 0 /\ 0 <= e.err /\ e.err <= MaxErr + 1
    BY <1>1, <1>8, <1>10, <1>12, TcpAssumption DEF Mute, Own
  <2>3. Drops(e, r) BY <1>10, <2>1, <2>2, NukeDrops
  <2>4. Drops(d, r) BY <1>10, <2>3 DEF Drops
  <2>5. r.out = << >> BY <2>1 DEF Done
  <2> QED BY <1>5, <1>9, <1>12, <2>4, <2>5 DEF r
<1>13. CASE late /\ ~Spent(d)
  <2>1. r = SendSocket(e) BY <1>4, <1>11, <1>13
  <2>2. er \in 0 .. MaxErr
    <3>1. d.err < MaxErr /\ 0 <= d.err BY <1>13, <1>1, TcpAssumption DEF Spent, Mute, Own
    <3> QED BY <1>1, <1>8, <1>13, <3>1, TcpAssumption
  <2>3. Mute(e)
    <3>1. SYN \notin fl \/ fl = d.flags BY <1>7
    <3> QED BY <1>5, <1>7, <1>10, <1>13, <2>2, <3>1, TcpAssumption DEF Mute, Own
  <2>4. Like(d, e) BY <1>10, <2>3 DEF Like
  <2>5. Keeps(d, r, d.rcount) BY <2>1, <2>4, LikeSays DEF Alive
  <2> QED BY <1>9, <1>13, <2>5 DEF r
<1> QED BY <1>9, <1>12, <1>13 DEF r

LEMMA SChecks ==
  ASSUME NEW d, Mute(d), NEW expired \in BOOLEAN
  PROVE  LET r == CheckSockets(d, expired) IN
         Keeps(d, r, d.rcount) \/ (Drops(d, r) /\ d.st # STATE_ESTABLISHED)
<1> DEFINE r1 == CheckRound(d, expired)
           r2 == CheckRound(r1.c, FALSE)
           t == [c |-> r2.c, out |-> r1.out \o r2.out, up |-> r1.up /\ r2.up]
           r == CheckSockets(d, expired)
<1>1. r = IF d.st = STATE_CLOSED /\ d.par THEN Done(Nuke(d))
          ELSE IF ~(d.st > STATE_UDP) THEN Done(d)
          ELSE IF r1.out = << >> THEN r1 ELSE t
  BY Zenon DEF CheckSockets
<1> HIDE DEF r1, r2, t, r
<1>2. Keeps(d, Done(d), d.rcount) BY MuteStays
<1>3. Drops(d, Done(Nuke(d))) BY SNukes
<1>4. CASE d.st > STATE_UDP
  <2>1. Keeps(d, r1, d.rcount) \/ (Drops(d, r1) /\ r1.out = << >> /\ d.st # STATE_ESTABLISHED)
    BY <1>4, SRound DEF r1
  <2>2. CASE r1.out = << >>
    <3>1. r = r1 BY <1>1, <1>4, <2>2
    <3> QED BY <2>1, <3>1 DEF r
  <2>3. CASE r1.out # << >>
    <3>1. Keeps(d, r1, d.rcount) /\ r = t BY <1>1, <1>4, <2>1, <2>3
    <3>2. Mute(r1.c) /\ r1.c.st > STATE_UDP /\ FALSE \in BOOLEAN /\ r1.out \in Seq(Voice(r1.c))
      BY <1>4, <3>1 DEF Keeps, Said
    <3>3. r2 = Done(r1.c) BY <3>2, SRound DEF r2
    <3>4. r2.c = r1.c /\ r2.out = << >> BY <3>3 DEF Done
    <3>5. r1.out \o << >> = r1.out BY <3>2
    <3>6. t.c = r1.c /\ t.out = r1.out BY <3>4, <3>5 DEF t
    <3>7. Keeps(d, t, d.rcount) BY <3>1, <3>6 DEF Keeps, Said
    <3> QED BY <3>1, <3>7 DEF r
  <2> QED BY <2>2, <2>3
<1>5. CASE ~(d.st > STATE_UDP)
  <2>1. r = Done(d) \/ (r = Done(Nuke(d)) /\ d.st # STATE_ESTABLISHED) BY <1>1, <1>5
  <2> QED BY <1>2, <1>3, <2>1 DEF r
<1> QED BY <1>4, <1>5

(* The program reads n bytes that are there, closes, sends its FIN.          *)
LEMMA SReads ==
  ASSUME NEW d, Mute(d), NEW n \in 0 .. d.rcount
  PROVE  Keeps(d, SockRead(d, n), d.rcount - n)
<1> DEFINE e == [d EXCEPT !.rcount = d.rcount - n]
           f == [e EXCEPT !.flags = {ACK}, !.err = 0]
           r == SockRead(d, n)
           more == /\ n > 2 \/ (e.rcount < LowMark /\ n > 0)
                   /\ \/ e.rcount = 0
                      \/ e.rcount < MaxTailR \div 2 /\ d.rcount > MaxTailR \div 2
<1>1. d \in Socket /\ d.dlen = 0 /\ d.wcount = 0 /\ d.rcount \in Int BY DEF Mute, Socket
<1>2. d.rcount - n \in Int /\ 0 <= d.rcount - n BY <1>1
<1>3. /\ e \in Socket /\ e.st = d.st /\ e.par = d.par /\ e.wcount = d.wcount /\ e.dlen = d.dlen /\ e.ack = d.ack
      /\ e.taken = d.taken /\ e.most = d.most /\ e.rcount = d.rcount - n /\ e.flags = d.flags /\ e.err = d.err
      /\ e.exp = d.exp
  BY <1>1, <1>2, Zenon DEF Socket
<1>4. e = Drain(d, n) BY DEF Drain
<1>5. r = IF d.st # STATE_ESTABLISHED THEN Done(e) ELSE IF more THEN SendSocket(f) ELSE Done(e)
  <2>1. r = IF d.st # STATE_ESTABLISHED \/ d.dlen # 0 THEN Done(e)
            ELSE IF d.wcount # 0 THEN SendSocket(e) ELSE IF more THEN SendSocket(f) ELSE Done(e)
    BY <1>4, Zenon DEF SockRead
  <2> HIDE DEF r, more, e, f
  <2> QED BY <1>1, <2>1
<1> HIDE DEF e, r, more
<1>6. d.st \in {STATE_LISTEN, STATE_SYN_RECEIVED, STATE_CLOSED} => d.rcount - n = 0
  BY <1>1 DEF Mute, Own
<1>7. Mute(e) BY <1>2, <1>3, <1>6 DEF Mute, Own
<1>8. Keeps(d, Done(e), d.rcount - n) BY <1>3, <1>7, DoneSays DEF Keeps
<1>9. CASE d.st = STATE_ESTABLISHED
  <2>1. {ACK} \in SUBSET Flags /\ SYN \notin {ACK} /\ FIN \notin {ACK} /\ 0 \in 0 .. MaxErr
    BY Known, TcpAssumption
  <2>2. /\ e \in Socket /\ e.exp = d.exp /\ e.st # STATE_SYN_RECEIVED BY <1>3, <1>9
  <2>3. /\ f \in Socket /\ f.st = e.st /\ f.par = e.par /\ f.wcount = e.wcount /\ f.dlen = e.dlen /\ f.ack = e.ack
        /\ f.taken = e.taken /\ f.most = e.most /\ f.rcount = e.rcount /\ f.flags = {ACK} /\ f.err = 0 /\ f.exp = e.exp
    BY <2>2, Known, Zenon DEF Socket
  <2> HIDE DEF f
  <2>4. Mute(f) /\ Alive(f) BY <1>3, <1>7, <1>9, <2>3, TcpAssumption DEF Mute, Own, Alive
  <2>5. Said(SendSocket(f)) /\ SendSocket(f).c = f BY <2>4, EchoSays
  <2>6. Keeps(d, SendSocket(f), d.rcount - n) BY <1>3, <2>3, <2>5 DEF Keeps
  <2> QED BY <1>5, <1>8, <1>9, <2>6 DEF r
<1>10. CASE d.st # STATE_ESTABLISHED BY <1>5, <1>8, <1>10 DEF r
<1> QED BY <1>9, <1>10

LEMMA SCloses ==
  ASSUME NEW d, Mute(d)
  PROVE  LET c == [d EXCEPT !.rcount = 0] IN
         /\ Keeps(d, Done(c), 0) /\ Drops(d, Done(Nuke(c))) /\ c.st = d.st
<1> DEFINE c == [d EXCEPT !.rcount = 0]
<1>1. d \in Socket BY DEF Mute
<1>2. /\ c \in Socket /\ c.st = d.st /\ c.par = d.par /\ c.wcount = d.wcount /\ c.dlen = d.dlen /\ c.ack = d.ack
      /\ c.taken = d.taken /\ c.most = d.most /\ c.rcount = 0 /\ c.flags = d.flags /\ c.err = d.err
      /\ c.exp = d.exp
  BY <1>1, Known, Zenon DEF Socket
<1> HIDE DEF c
<1>3. Mute(c) BY <1>2 DEF Mute, Own
<1>4. Keeps(d, Done(c), 0) BY <1>2, <1>3, DoneSays DEF Keeps
<1>5. Drops(c, Done(Nuke(c))) BY <1>3, SNukes
<1>6. Drops(d, Done(Nuke(c))) BY <1>2, <1>5 DEF Drops
<1> QED BY <1>2, <1>4, <1>6 DEF c

LEMMA SFin ==
  ASSUME NEW d, Mute(d)
  PROVE  Fins(d, SendFin(d))
<1> DEFINE fin == {ACK, FIN}
           x == [d EXCEPT !.st = STATE_LAST_ACK, !.exp = TRUE, !.flags = fin, !.err = 0]
           last == STATE_LAST_ACK
           r == SendFin(d)
<1>1. d \in Socket /\ d.st # STATE_PEER_RESET /\ fin \in SUBSET Flags BY Known DEF Mute, Socket, Reached
<1>2. SYN \notin fin /\ last = STATE_LAST_ACK /\ last \in Reached BY Known
<1>3. r = SendSocket(x) BY <1>1, Zenon DEF SendFin
<1>7. x = [d EXCEPT !.st = last, !.exp = TRUE, !.flags = fin, !.err = 0] OBVIOUS
<1> HIDE DEF fin, last
<1> DEFINE y == [d EXCEPT !.st = last, !.exp = TRUE, !.flags = fin, !.err = 0]
<1>4. /\ y \in Socket /\ y.st = last /\ y.par = d.par /\ y.wcount = d.wcount /\ y.dlen = d.dlen
      /\ y.ack = d.ack /\ y.taken = d.taken /\ y.most = d.most /\ y.rcount = d.rcount /\ y.flags = fin /\ y.err = 0
  <2>1. d \in Socket /\ fin \in SUBSET Flags /\ last \in Reached BY <1>1, <1>2
  <2>2. y \in Socket BY ONLY <2>1, Known, Zenon DEF Socket
  <2> QED BY <2>1, <2>2, Zenon DEF Socket
<1> HIDE DEF x, y, r
<1>5. Mute(y) /\ Alive(y) BY <1>2, <1>4, TcpAssumption DEF Mute, Own, Alive
<1>6. Said(r) /\ r.c = y BY <1>3, <1>5, <1>7, EchoSays DEF x, y
<1> QED BY <1>2, <1>4, <1>6 DEF Fins, r

-----------------------------------------------------------------------------
(* The order of the serial line: SYNs come first.  Once the server is (or   *)
(* was) connected, no SYN is on its way and none will be sent, so the child *)
(* takes no second stream.                                                  *)
Live(c) == c.st \in {STATE_ESTABLISHED, STATE_CLOSING}
Opened(d, a) ==
  \/ a # "idle" \/ d.most > 0
  \/ d.st \in {STATE_ESTABLISHED, STATE_CLOSING, STATE_LAST_ACK, STATE_TIME_WAIT}

Syns == {m \in Segments : m.fl = {SYN}}
Later == {m \in Segments : SYN \notin m.fl}
ToServer(c) ==
  {m \in Segments : /\ SYN \in m.fl => m.fl = {SYN}
                    /\ c.st = STATE_SYN_SENT => m.fl = {SYN}
                    /\ Live(c) => RST \notin m.fl}
ToClient(i, c) ==
  {m \in Segments : RST \notin m.fl => /\ (SYN \in m.fl => m.fl = {SYN, ACK} /\ m.ack = Num(i, 1))
                                       /\ (c.st = STATE_SYN_SENT => SYN \in m.fl)}
Ordered(q) == \A k \in 1 .. Len(q) : SYN \in q[k].fl => \A j \in 1 .. k : q[j].fl = {SYN}

(* The client receives no data, and is not where a SYN of its own begins.    *)
Calm(c) ==
  /\ c \in Socket /\ c.rcount = 0 /\ c.st # STATE_SYN_RECEIVED
  /\ c.st = STATE_SYN_SENT => c.flags = {SYN} /\ c.wcount = 0 /\ c.dlen = 0
  /\ c.st \notin {STATE_SYN_SENT, STATE_CLOSED} => SYN \notin c.flags
  /\ Live(c) => RST \notin c.flags

Once(i, c, d, ns, nc, a, g) ==
  /\ Calm(c)
  /\ ns \in Seq(ToServer(c)) /\ Ordered(ns) /\ nc \in Seq(ToClient(i, c))
  /\ Mute(d)
  /\ a \notin {"opening", "failed"}
  /\ Opened(d, a) => d.st # STATE_SYN_RECEIVED /\ c.st # STATE_SYN_SENT /\ ns \in Seq(Later)
  /\ d.st = STATE_LAST_ACK => a # "idle"
  /\ d.st = STATE_ESTABLISHED => d.taken = d.most
  /\ a = "idle" => g = 0
  /\ a \in {"idle", "open"} /\ (d.st = STATE_ESTABLISHED \/ d.rcount # 0) => d.taken - d.rcount = g

(* What a full packet pool lets through is a prefix.                        *)
LEMMA Prefix ==
  ASSUME ~Routed, NEW M, NEW q \in Seq(M), NEW ms \in Seq(M)
  PROVE  /\ Transmit(q, ms) \in Seq(M)
         /\ Len(Transmit(q, ms)) <= Len(q) + Len(ms)
         /\ \A k \in 1 .. Len(Transmit(q, ms)) :
              Transmit(q, ms)[k] = IF k <= Len(q) THEN q[k] ELSE ms[k - Len(q)]
<1> DEFINE all == q \o ms
           n == IF Len(all) > MaxNet THEN MaxNet ELSE Len(all)
           t == SubSeq(all, 1, n)
<1>1. Transmit(q, ms) = t BY DEF Transmit
<1>2. all \in Seq(M) /\ Len(all) = Len(q) + Len(ms)
      /\ \A k \in 1 .. Len(all) : all[k] = IF k <= Len(q) THEN q[k] ELSE ms[k - Len(q)]
  BY ONLY q \in Seq(M), ms \in Seq(M)
<1>3. n \in 0 .. Len(all) BY <1>2, LinkAssumption
<1> HIDE DEF all, n
<1>4. t \in Seq(M) /\ Len(t) = n /\ \A k \in 1 .. n : t[k] = all[k]
  BY ONLY <1>2, <1>3
<1>5. Len(q) \in Nat /\ Len(ms) \in Nat OBVIOUS
<1> HIDE DEF t
<1> QED BY <1>1, <1>2, <1>3, <1>4, <1>5

LEMMA Behead ==
  ASSUME NEW M, NEW q \in Seq(M), q # << >>
  PROVE  /\ Head(q) \in M /\ Head(q) = q[1] /\ Tail(q) \in Seq(M) /\ Len(Tail(q)) = Len(q) - 1
         /\ Len(q) \in Nat /\ Len(q) >= 1
         /\ \A k \in 1 .. Len(Tail(q)) : Tail(q)[k] = q[k + 1]
OBVIOUS

LEMMA Widen == ASSUME NEW M, NEW N, M \subseteq N, NEW q \in Seq(M) PROVE q \in Seq(N)
OBVIOUS

LEMMA OrderedTail ==
  ASSUME NEW M, NEW q \in Seq(M), q # << >>, M \subseteq Segments, Ordered(q)
  PROVE  Ordered(Tail(q)) /\ (SYN \notin Head(q).fl => q \in Seq(Later))
<1> DEFINE t == Tail(q)
<1>1. /\ Head(q) = q[1] /\ t \in Seq(M) /\ Len(t) = Len(q) - 1 /\ Len(q) \in Nat /\ Len(q) >= 1
      /\ \A k \in 1 .. Len(t) : t[k] = q[k + 1]
  BY Behead
<1>2. \A k \in 1 .. Len(q) : SYN \in q[k].fl => \A j \in 1 .. k : q[j].fl = {SYN} BY DEF Ordered
<1> HIDE DEF t
<1>3. ASSUME NEW k \in 1 .. Len(t), SYN \in t[k].fl, NEW j \in 1 .. k PROVE t[j].fl = {SYN}
  <2>1. k + 1 \in 1 .. Len(q) /\ j + 1 \in 1 .. k + 1 /\ j \in 1 .. Len(t) BY <1>1
  <2>2. SYN \in q[k + 1].fl BY <1>1, <1>3
  <2>3. q[j + 1].fl = {SYN} BY <1>2, <2>1, <2>2
  <2> QED BY <1>1, <2>1, <2>3
<1>4. Ordered(t) BY <1>3 DEF Ordered
<1>5. ASSUME SYN \notin Head(q).fl PROVE q \in Seq(Later)
  <2>1. ASSUME NEW k \in 1 .. Len(q) PROVE q[k] \in Later
    <3>1. q[k] \in Segments OBVIOUS
    <3>2. SYN \notin q[k].fl
      <4>1. SUFFICES ASSUME SYN \in q[k].fl PROVE FALSE OBVIOUS
      <4>2. 1 \in 1 .. k OBVIOUS
      <4>3. q[1].fl = {SYN} BY <1>2, <4>1, <4>2
      <4> QED BY <1>1, <1>5, <4>3
    <3> QED BY <3>1, <3>2 DEF Later
  <2> QED BY <2>1, <1>1
<1> QED BY <1>4, <1>5 DEF t

LEMMA OrderedGrows ==
  ASSUME ~Routed, NEW q \in Seq(Segments), Ordered(q), NEW ms,
         ms \in Seq(Later) \/ (q \in Seq(Syns) /\ ms \in Seq(Syns))
  PROVE  Ordered(Transmit(q, ms))
<1> DEFINE t == Transmit(q, ms)
<1>1. CASE ms \in Seq(Later)
  <2>1. ms \in Seq(Segments)
    <3>1. Later \subseteq Segments BY DEF Later
    <3> QED BY <1>1, <3>1, Widen
  <2>2. /\ t \in Seq(Segments) /\ Len(t) <= Len(q) + Len(ms) 
        /\ \A k \in 1 .. Len(t) : t[k] = IF k <= Len(q) THEN q[k] ELSE ms[k - Len(q)]
    BY <2>1, Prefix
  <2>3. Len(q) \in Nat /\ Len(ms) \in Nat /\ Len(t) \in Nat BY <2>1, <2>2
  <2> HIDE DEF t
  <2>4. ASSUME NEW k \in 1 .. Len(t), SYN \in t[k].fl, NEW j \in 1 .. k PROVE t[j].fl = {SYN}
    <3>1. CASE k <= Len(q)
      <4>1. SYN \in q[k].fl /\ k \in 1 .. Len(q) BY <2>2, <2>3, <2>4, <3>1
      <4>2. q[j].fl = {SYN} BY <4>1 DEF Ordered
      <4>3. t[j] = q[j] BY <2>2, <2>3, <3>1
      <4> QED BY <4>2, <4>3
    <3>2. CASE ~(k <= Len(q))
      <4>1. t[k] = ms[k - Len(q)] /\ k - Len(q) \in 1 .. Len(ms) BY <2>2, <2>3, <3>2
      <4>2. ms[k - Len(q)] \in Later BY <1>1, <4>1
      <4> QED BY <2>4, <4>1, <4>2 DEF Later
    <3> QED BY <3>1, <3>2
  <2> QED BY <2>4 DEF Ordered, t
<1>2. CASE q \in Seq(Syns) /\ ms \in Seq(Syns)
  <2>1. t \in Seq(Syns) BY <1>2, Prefix
  <2> HIDE DEF t
  <2>2. ASSUME NEW k \in 1 .. Len(t) PROVE t[k].fl = {SYN}
    <3>1. t[k] \in Syns BY <2>1
    <3> QED BY <3>1 DEF Syns
  <2>3. ASSUME NEW k \in 1 .. Len(t), NEW j \in 1 .. k PROVE t[j].fl = {SYN}
    <3>1. Len(t) \in Nat BY <2>1
    <3>2. j \in 1 .. Len(t) BY <3>1
    <3> QED BY <2>2, <3>2
  <2> QED BY <2>3 DEF Ordered, t
<1> QED BY <1>1, <1>2

(* What the server says to a client that is connecting is its SYN.          *)
LEMMA Speaks ==
  ASSUME ~Routed, NEW i, NEW c, NEW nc \in Seq(ToClient(i, c)), NEW r, Said(r),
         r.c.st = STATE_SYN_RECEIVED => r.c.ack = Num(i, 1),
         c.st = STATE_SYN_SENT => r.c.st \in {STATE_LISTEN, STATE_CLOSED, STATE_SYN_RECEIVED}
  PROVE  Transmit(nc, r.out) \in Seq(ToClient(i, c))
<1>1. ASSUME NEW m \in Voice(r.c) PROVE m \in ToClient(i, c)
  <2>1. m \in Segments /\ (RST \notin m.fl => m.fl = r.c.flags /\ m.ack = r.c.ack /\ Alive(r.c))
    BY <1>1 DEF Voice
  <2>2. /\ r.c.st = STATE_SYN_RECEIVED => r.c.flags = {SYN, ACK}
        /\ r.c.st # STATE_SYN_RECEIVED => SYN \notin r.c.flags
    BY DEF Said, Mute, Own
  <2> QED BY <2>1, <2>2 DEF ToClient, Alive
<1>2. r.out \in Seq(ToClient(i, c)) BY <1>1, Widen DEF Said
<1> QED BY <1>2, Prefix

(* The program of the server, or the stack's timer.                         *)
LEMMA OnceMoves ==
  ASSUME ~Routed, NEW i, NEW c, NEW d, NEW ns, NEW nc, NEW a, NEW g, Once(i, c, d, ns, nc, a, g),
         d.st = STATE_SYN_RECEIVED => d.ack = Num(i, 1),
         NEW n, NEW r, Keeps(d, r, n) \/ Drops(d, r) \/ (Fins(d, r) /\ a # "idle"),
         NEW b, b \notin {"opening", "failed"}, b # "idle" \/ b = a,
         a # "idle" \/ b = a \/ d.st = STATE_ESTABLISHED,
         NEW h, h \in Int, b = "idle" => h = g,
         b \in {"idle", "open"} => /\ a \in {"idle", "open"} /\ (Keeps(d, r, n) \/ Drops(d, r))
                                   /\ n \in Int /\ g \in Int /\ d.rcount - n = h - g /\ (n # 0 => d.rcount # 0)
  PROVE  Once(i, c, r.c, ns, Transmit(nc, r.out), b, h)
<1>1. /\ Calm(c)
      /\ ns \in Seq(ToServer(c)) /\ Ordered(ns) /\ nc \in Seq(ToClient(i, c)) /\ Mute(d)
      /\ Opened(d, a) => d.st # STATE_SYN_RECEIVED /\ c.st # STATE_SYN_SENT /\ ns \in Seq(Later)
      /\ d.st = STATE_LAST_ACK => a # "idle"
      /\ d.st = STATE_ESTABLISHED => d.taken = d.most
      /\ a = "idle" => g = 0
      /\ a \in {"idle", "open"} /\ (d.st = STATE_ESTABLISHED \/ d.rcount # 0) => d.taken - d.rcount = g
  BY DEF Once
<1>2. Said(r) /\ Mute(r.c) /\ r.c.most = d.most BY DEF Keeps, Drops, Fins, Said
<1>3. \/ r.c.st = d.st /\ Keeps(d, r, n)
      \/ r.c.st \in {STATE_LISTEN, STATE_CLOSED} /\ Drops(d, r)
      \/ r.c.st = STATE_LAST_ACK /\ Fins(d, r) /\ a # "idle"
  BY DEF Keeps, Drops, Fins, Alive
<1>4. c.st = STATE_SYN_SENT => /\ a = "idle" /\ r.c.st \in {STATE_LISTEN, STATE_CLOSED, STATE_SYN_RECEIVED}
  <2>1. d.st \in Reached /\ d.st \notin {STATE_NOTINIT, STATE_SYN_SENT} BY <1>1 DEF Mute, Socket
  <2>2. c.st = STATE_SYN_SENT =>
          /\ a = "idle"
          /\ d.st \notin {STATE_ESTABLISHED, STATE_CLOSING, STATE_LAST_ACK, STATE_TIME_WAIT}
    BY <1>1 DEF Opened
  <2>3. c.st = STATE_SYN_SENT => d.st \in {STATE_LISTEN, STATE_CLOSED, STATE_SYN_RECEIVED}
    BY <2>1, <2>2 DEF Reached
  <2> QED BY <1>3, <2>2, <2>3
<1>5. r.c.st = STATE_SYN_RECEIVED => r.c.ack = Num(i, 1) BY <1>3 DEF Keeps
<1>6. Transmit(nc, r.out) \in Seq(ToClient(i, c)) BY <1>1, <1>2, <1>4, <1>5, Speaks
<1>7. Opened(r.c, b) => r.c.st # STATE_SYN_RECEIVED /\ c.st # STATE_SYN_SENT /\ ns \in Seq(Later)
  <2>1. Opened(r.c, b) => Opened(d, a) BY <1>2, <1>3 DEF Opened
  <2>2. d.st # STATE_SYN_RECEIVED => r.c.st # STATE_SYN_RECEIVED BY <1>3
  <2> QED BY <1>1, <2>1, <2>2
<1>8. r.c.st = STATE_LAST_ACK => b # "idle"
  <2>1. d.st = STATE_LAST_ACK => a # "idle" BY <1>1
  <2>2. r.c.st = STATE_LAST_ACK => d.st = STATE_LAST_ACK \/ a # "idle" BY <1>3
  <2>3. a # "idle" => b # "idle" OBVIOUS
  <2> QED BY <2>1, <2>2, <2>3
<1>9. r.c.st = STATE_ESTABLISHED => r.c.taken = r.c.most BY <1>1, <1>3 DEF Keeps
<1>10. b \in {"idle", "open"} /\ (r.c.st = STATE_ESTABLISHED \/ r.c.rcount # 0) => r.c.taken - r.c.rcount = h
  <2> SUFFICES ASSUME b \in {"idle", "open"}, r.c.st = STATE_ESTABLISHED \/ r.c.rcount # 0
               PROVE  r.c.taken - r.c.rcount = h
    OBVIOUS
  <2>1. ~Drops(d, r) BY <1>2 DEF Drops, Mute, Own, Alive
  <2>2. Keeps(d, r, n) BY <2>1
  <2>3. d.taken \in Int /\ d.rcount \in Int BY <1>1 DEF Mute, Socket
  <2>4. r.c.taken = d.taken /\ r.c.rcount = n /\ r.c.st = d.st BY <2>2 DEF Keeps
  <2>5. d.taken - d.rcount = g BY <1>1, <2>4
  <2>6. d.rcount - n = h - g /\ n \in Int /\ g \in Int OBVIOUS
  <2> QED BY <2>3, <2>4, <2>5, <2>6
<1>11. b = "idle" => h = 0 BY <1>1
<1> QED BY <1>1, <1>2, <1>6, <1>7, <1>8, <1>9, <1>10, <1>11 DEF Once

(* A segment comes to the server.                                           *)
LEMMA OnceHears ==
  ASSUME ~Routed, NEW i, NEW c, NEW d, NEW ns, NEW nc, NEW a, NEW g \in Int, Once(i, c, d, ns, nc, a, g),
         d.st = STATE_SYN_RECEIVED => d.ack = Num(i, 1), d.most >= 0,
         ns # << >>, NEW r, Hearing(d, Head(ns), r),
         RST \notin Head(ns).fl /\ SYN \in Head(ns).fl => Head(ns).seq = i
  PROVE  Once(i, c, r.c, Tail(ns), Transmit(nc, r.out), a, g)
<1> DEFINE m == Head(ns)  q == Tail(ns)
<1>1. /\ Calm(c)
      /\ ns \in Seq(ToServer(c)) /\ Ordered(ns) /\ nc \in Seq(ToClient(i, c)) /\ Mute(d)
      /\ a \notin {"opening", "failed"}
      /\ Opened(d, a) => d.st # STATE_SYN_RECEIVED /\ c.st # STATE_SYN_SENT /\ ns \in Seq(Later)
      /\ d.st = STATE_LAST_ACK => a # "idle"
      /\ d.st = STATE_ESTABLISHED => d.taken = d.most
      /\ a = "idle" => g = 0
      /\ a \in {"idle", "open"} /\ (d.st = STATE_ESTABLISHED \/ d.rcount # 0) => d.taken - d.rcount = g
  BY DEF Once
<1>2. ToServer(c) \subseteq Segments BY DEF ToServer
<1>3. m \in ToServer(c) /\ q \in Seq(ToServer(c)) BY <1>1, Behead
<1>4. Ordered(q) /\ (SYN \notin m.fl => ns \in Seq(Later)) BY <1>1, <1>2, OrderedTail
<1>5. ns \in Seq(Later) => q \in Seq(Later) /\ SYN \notin m.fl
  <2>1. ns \in Seq(Later) => q \in Seq(Later) /\ m \in Later BY Behead
  <2> QED BY <2>1 DEF Later
<1>6. (SYN \in m.fl => m.fl = {SYN}) /\ (c.st = STATE_SYN_SENT => m.fl = {SYN}) BY <1>3 DEF ToServer
<1> HIDE DEF m, q
<1>20. Once(i, c, d, q, nc, a, g)
  <2>1. Opened(d, a) => q \in Seq(Later) BY <1>1, <1>5
  <2> QED BY <1>1, <1>3, <1>4, <2>1 DEF Once
<1>7. CASE Keeps(d, r, d.rcount) \/ Drops(d, r)
  <2>1. d.rcount \in Int /\ d.rcount - d.rcount = g - g BY <1>1 DEF Mute, Socket
  <2> DEFINE n == d.rcount
  <2>2. /\ Keeps(d, r, n) \/ Drops(d, r) \/ (Fins(d, r) /\ a # "idle")
        /\ a \notin {"opening", "failed"} /\ (a # "idle" \/ a = a)
        /\ (a # "idle" \/ a = a \/ d.st = STATE_ESTABLISHED)
        /\ (a = "idle" => g = g)
        /\ (a \in {"idle", "open"} => /\ a \in {"idle", "open"} /\ (Keeps(d, r, n) \/ Drops(d, r))
                                     /\ n \in Int /\ g \in Int /\ d.rcount - n = g - g /\ (n # 0 => d.rcount # 0))
    BY <1>1, <1>7, <2>1
  <2> HIDE DEF n
  <2> QED BY ONLY ~Routed, <1>20, <2>2, d.st = STATE_SYN_RECEIVED => d.ack = Num(i, 1), g \in Int, OnceMoves DEF q
<1>8. CASE RST \notin m.fl /\ Hears(d, m, r)
  <2>1. SYN \in m.fl /\ d.st = STATE_LISTEN /\ Said(r) /\ Mute(r.c) /\ r.c.st = STATE_SYN_RECEIVED
        /\ r.c.most = d.most
    BY <1>8 DEF Hears, Said
  <2>2. ~Opened(d, a) BY <1>1, <1>5, <2>1
  <2>3. r.c.ack = Num(i, 1) BY <1>8, <2>1 DEF Hears, Num, m
  <2>4. Transmit(nc, r.out) \in Seq(ToClient(i, c)) BY <1>1, <2>1, <2>3, Speaks
  <2>5. ~Opened(r.c, a) BY <2>1, <2>2 DEF Opened
  <2>6. r.c.rcount = 0 BY <2>1 DEF Mute, Own
  <2> QED BY <1>1, <1>3, <1>4, <2>1, <2>4, <2>5, <2>6 DEF Once, q
<1>9. CASE RST \notin m.fl /\ Opens(d, m, r)
  <2>1. /\ d.st = STATE_SYN_RECEIVED /\ ACK \in m.fl /\ Said(r) /\ Mute(r.c) /\ r.c.st = STATE_ESTABLISHED
        /\ r.c.taken = d.taken /\ r.c.most = d.most /\ r.c.rcount = d.rcount
    BY <1>9 DEF Opens, Said
  <2>2. SYN \notin m.fl /\ c.st # STATE_SYN_SENT /\ q \in Seq(Later) BY <1>4, <1>5, <1>6, <2>1
  <2>3. a = "idle" /\ d.most = 0 /\ g = 0
    <3>1. ~Opened(d, a) BY <1>1, <2>1
    <3>2. d.most \in Int BY <1>1 DEF Mute, Socket
    <3> QED BY <1>1, <3>1, <3>2 DEF Opened
  <2>4. d.taken = 0 /\ d.rcount = 0 BY <1>1, <2>1 DEF Mute, Own
  <2>5. Transmit(nc, r.out) \in Seq(ToClient(i, c)) BY <1>1, <2>1, <2>2, Speaks
  <2> QED BY <1>1, <1>3, <1>4, <2>1, <2>2, <2>3, <2>4, <2>5 DEF Once, q
<1>10. CASE RST \notin m.fl /\ (Accepts(d, m, r) \/ Ends(d, m, r) \/ Lapses(d, r))
  <2>1. /\ d.st \in {STATE_ESTABLISHED, STATE_CLOSING} /\ Said(r) /\ Mute(r.c)
        /\ r.c.st \in {STATE_ESTABLISHED, STATE_CLOSING, STATE_TIME_WAIT}
    BY <1>10 DEF Accepts, Ends, Lapses, Said
  <2>2. Opened(d, a) BY <2>1 DEF Opened
  <2>3. c.st # STATE_SYN_SENT /\ q \in Seq(Later) BY <1>1, <1>5, <2>2
  <2>4. Transmit(nc, r.out) \in Seq(ToClient(i, c)) BY <1>1, <2>1, <2>3, Speaks
  <2>5. d.taken \in Int /\ d.rcount \in Int /\ d.most \in Int BY <1>1 DEF Mute, Socket
  <2>6. m.len \in Int BY <1>3 DEF ToServer, Segments
  <2>7. r.c.st = STATE_ESTABLISHED => r.c.taken = r.c.most
    BY <1>1, <1>10, <2>5, <2>6 DEF Accepts, Ends, Lapses
  <2>8. r.c.taken - r.c.rcount = d.taken - d.rcount /\ (r.c.rcount # 0 => d.rcount # 0 \/ d.st = STATE_ESTABLISHED)
    BY <1>10, <2>5, <2>6 DEF Accepts, Ends, Lapses
  <2>9. r.c.st = STATE_ESTABLISHED => d.st = STATE_ESTABLISHED BY <1>10 DEF Accepts, Ends, Lapses
  <2> QED BY <1>1, <1>3, <1>4, <2>1, <2>3, <2>4, <2>7, <2>8, <2>9 DEF Once, q
<1> QED BY <1>7, <1>8, <1>9, <1>10 DEF Hearing, m, q

-----------------------------------------------------------------------------
(* The client's side of the same: it says SYN until it is connected, then   *)
(* no more, and no reset while it is alive.                                  *)
Speech(x) == {m \in Segments : SYN \notin m.fl /\ (Live(x) => RST \notin m.fl)}
Comes(c, x) ==
  /\ Calm(x) /\ (x.st = STATE_SYN_SENT => c.st = STATE_SYN_SENT)
  /\ Live(x) => Live(c) \/ c.st = STATE_SYN_SENT
Weak(c, r) ==
  /\ Comes(c, r.c)
  /\ r.out \in Seq(IF r.c.st = STATE_SYN_SENT THEN Syns ELSE Speech(r.c))

(* Socket e sends n bytes at most, in one segment at most (r may set timer  *)
(* and error count once more).                                              *)
Utterance(e, n) ==
  {m \in Segments :
     IF e.st = STATE_CLOSED THEN m.fl = {RST} /\ m.len = 0
     ELSE m.fl = e.flags /\ m.len = n /\ (n # 0 => m.dat = e.base + e.dlen)}
SameBut(e, x) ==
  /\ x \in Socket /\ x.st = e.st /\ x.flags = e.flags /\ x.rcount = e.rcount
  /\ x.base = e.base /\ x.wcount = e.wcount
Pushes(e, r, n) ==
  /\ n \in Int /\ SameBut(e, r.c) /\ r.c.dlen = e.dlen + n /\ r.out \in Seq(Utterance(e, n))
  /\ n # 0 => /\ e.st \in {STATE_SYN_SENT, STATE_SYN_RECEIVED, STATE_ESTABLISHED, STATE_CLOSING}
              /\ e.wcount # e.dlen /\ n <= e.wcount - e.dlen /\ (e.wcount > e.dlen => n > 0)
Utters(e, r) == \E n : Pushes(e, r, n)

LEMMA Sounds ==
  ASSUME NEW e \in Socket, e.st # STATE_CLOSED
  PROVE  Utters(e, SendSocket(e))
<1>2. PICK n \in Int, b \in BOOLEAN :
        /\ SendSocket(e) = Sent(e, n, b)
        /\ n # 0 => /\ e.st \in {STATE_SYN_SENT, STATE_SYN_RECEIVED, STATE_ESTABLISHED, STATE_CLOSING}
                   /\ e.wcount # e.dlen /\ n <= e.wcount - e.dlen
                   /\ (e.wcount > e.dlen => n > 0)
  BY Sends
<1>3. SendSocket(e) \in Results BY Sends
<1> DEFINE y == [e EXCEPT !.dlen = e.dlen + n, !.exp = b]
           m == [fl |-> e.flags, seq |-> IF n = 0 THEN e.seq ELSE Word32(e.seq + e.dlen),
                 ack |-> e.ack, dat |-> IF n = 0 THEN 0 ELSE e.base + e.dlen, len |-> n]
           out == IF e.ip THEN <<m>> ELSE << >>
<1>4. SendSocket(e).c = y /\ SendSocket(e).out = out BY <1>2 DEF Sent
<1>5. y \in Socket /\ out \in Seq(Segments) BY <1>3, <1>4 DEF Results
<1>6. /\ y.st = e.st /\ y.flags = e.flags /\ y.rcount = e.rcount /\ y.base = e.base /\ y.wcount = e.wcount
      /\ y.dlen = e.dlen + n
  BY Zenon DEF Socket
<1>7. m.fl = e.flags /\ m.len = n /\ (n # 0 => m.dat = e.base + e.dlen) OBVIOUS
<1> HIDE DEF y, m
<1>11. e.ip => m \in Utterance(e, n)
  <2>1. ASSUME e.ip PROVE m \in Segments
    <3>1. out = <<m>> BY <2>1
    <3>2. <<m>> \in Seq(Segments) BY <1>5, <3>1
    <3> QED BY <3>2
  <2> QED BY <1>7, <2>1 DEF Utterance
<1>12. out \in Seq(Utterance(e, n))
  <2>1. CASE e.ip
    <3>1. out = <<m>> /\ m \in Utterance(e, n) BY <1>11, <2>1
    <3> QED BY <3>1
  <2>2. CASE ~e.ip
    <3>1. out = << >> BY <2>2
    <3> QED BY <3>1
  <2> QED BY <2>1, <2>2
<1> HIDE DEF out
<1>13. SameBut(e, y) BY <1>5, <1>6 DEF SameBut
<1>14. Pushes(e, SendSocket(e), n) BY <1>2, <1>4, <1>6, <1>12, <1>13 DEF Pushes
<1> QED BY <1>14 DEF Utters

LEMMA Mutes ==
  ASSUME NEW e \in Socket
  PROVE  Pushes(e, Done(e), 0) /\ Utters(e, Done(e))
<1>1. Done(e).c = e /\ Done(e).out = << >> /\ e.dlen = e.dlen + 0 BY DEF Done, Socket
<1>2. Pushes(e, Done(e), 0) BY <1>1 DEF Pushes, SameBut
<1> QED BY <1>2 DEF Utters

LEMMA Resets ==
  ASSUME NEW e \in Socket, e.st = STATE_CLOSED, NEW m \in Segments, NEW r, r.c = e,
         r.out = << >> \/ (r.out = <<m>> /\ m.fl = {RST} /\ m.len = 0)
  PROVE  Utters(e, r)
<1>1. e.dlen = e.dlen + 0 BY DEF Socket
<1>2. r.out \in Seq(Utterance(e, 0))
  <2>1. CASE r.out = << >> BY <2>1
  <2>2. CASE r.out = <<m>> /\ m.fl = {RST} /\ m.len = 0
    <3>1. m \in Utterance(e, 0) BY <2>2 DEF Utterance
    <3> QED BY <2>2, <3>1
  <2> QED BY <2>1, <2>2
<1>3. Pushes(e, r, 0) BY <1>1, <1>2 DEF Pushes, SameBut
<1> QED BY <1>3 DEF Utters

LEMMA Retimed ==
  ASSUME NEW e, NEW r, Utters(e, r), NEW z, SameBut(r.c, z), z.dlen = r.c.dlen,
         NEW t, t.c = z, t.out = r.out
  PROVE  Utters(e, t)
<1>1. PICK n : Pushes(e, r, n) BY DEF Utters
<1>2. Pushes(e, t, n) BY <1>1 DEF Pushes, SameBut
<1> QED BY <1>2 DEF Utters

LEMMA UtterWeak ==
  ASSUME NEW c, NEW e, Comes(c, e), NEW r, Utters(e, r)
  PROVE  Weak(c, r)
<1>1. PICK n : Pushes(e, r, n) BY DEF Utters
<1> DEFINE x == r.c
           S == IF x.st = STATE_SYN_SENT THEN Syns ELSE Speech(x)
<1>2. x \in Socket /\ x.st = e.st /\ x.flags = e.flags /\ x.rcount = e.rcount BY <1>1 DEF Pushes, SameBut
<1>3. Live(x) = Live(e) BY <1>2 DEF Live
<1>4. Comes(c, x)
  <2>1. x.dlen = e.dlen + n /\ x.wcount = e.wcount /\ (n # 0 => e.wcount # e.dlen) BY <1>1 DEF Pushes, SameBut
  <2>2. e.st = STATE_SYN_SENT => e.wcount = 0 /\ e.dlen = 0 BY DEF Comes, Calm
  <2>3. e.st = STATE_SYN_SENT => x.wcount = 0 /\ x.dlen = 0 BY <2>1, <2>2
  <2> QED BY <1>2, <1>3, <2>3 DEF Comes, Calm
<1>5. ASSUME NEW m \in Utterance(e, n) PROVE m \in S
  <2>1. /\ m \in Segments
        /\ IF e.st = STATE_CLOSED THEN m.fl = {RST} ELSE m.fl = e.flags
    BY DEF Utterance
  <2>2. CASE e.st = STATE_SYN_SENT
    <3>1. m.fl = {SYN} BY <2>1, <2>2 DEF Comes, Calm
    <3> QED BY <1>2, <2>1, <2>2, <3>1 DEF Syns
  <2>3. CASE e.st # STATE_SYN_SENT
    <3>1. SYN \notin m.fl /\ (Live(e) => RST \notin m.fl) BY <2>1, <2>3 DEF Comes, Calm, Live
    <3> QED BY <1>2, <1>3, <2>1, <2>3, <3>1 DEF Speech
  <2> QED BY <2>2, <2>3
<1>6. r.out \in Seq(Utterance(e, n)) BY <1>1 DEF Pushes
<1> HIDE DEF S
<1>7. r.out \in Seq(S) BY <1>5, <1>6, Widen
<1> HIDE DEF x
<1> QED BY <1>4, <1>7 DEF Weak, S, x

(* Flags, error count and counts of a socket that is not being opened.      *)
LEMMA Retuned ==
  ASSUME NEW c, Calm(c), NEW d \in Socket, d.rcount = 0, d.st = c.st, d.flags \in {c.flags, {ACK}, {PSH, ACK}, {ACK, FIN}},
         c.st = STATE_SYN_SENT => d.flags = c.flags /\ d.wcount = c.wcount /\ d.dlen = c.dlen
  PROVE  Comes(c, d)
<1>1. Live(d) = Live(c) BY DEF Live
<1> QED BY <1>1 DEF Comes, Calm

LEMMA WeakSelf == ASSUME NEW c, Calm(c) PROVE Comes(c, c) /\ Utters(c, Done(c))
BY Mutes DEF Comes, Calm

(* A socket of the client that is nuked.                                    *)
Gone(c, e) == Comes(c, e) /\ e.st = STATE_CLOSED /\ e.wcount = 0

LEMMA NukeGone ==
  ASSUME NEW c, NEW d \in Socket, ~d.par
  PROVE  /\ Gone(c, Nuke(d)) /\ Nuke(d).dlen = d.dlen
         /\ Gone(c, [Nuke(d) EXCEPT !.dlen = 0]) /\ [Nuke(d) EXCEPT !.dlen = 0].dlen = 0
<1> DEFINE x == Nuke(d)
           e == [x EXCEPT !.dlen = 0]
<1>3. PICK b \in BOOLEAN : b = (d.dfree \/ ~d.own) OBVIOUS
<1>4. x = [d EXCEPT !.st = STATE_CLOSED, !.own = FALSE, !.dfree = b,
                    !.wcount = 0, !.rcount = 0, !.exp = FALSE]
  BY <1>3 DEF Nuke, Socket
<1> HIDE DEF x
<1>5. x \in Socket BY <1>4, Known, ZenonT(40) DEF Socket
<1>6. x.st = STATE_CLOSED /\ x.rcount = 0 /\ x.wcount = 0 /\ x.dlen = d.dlen BY <1>4, Zenon DEF Socket
<1>7. e \in Socket /\ e.st = x.st /\ e.rcount = x.rcount /\ e.wcount = x.wcount /\ e.dlen = 0
  BY <1>5, Known, Zenon DEF Socket
<1> HIDE DEF e
<1>8. Comes(c, x) /\ Comes(c, e) BY <1>5, <1>6, <1>7 DEF Comes, Calm, Live
<1> QED BY <1>6, <1>7, <1>8 DEF x, e, Gone

(* What a segment makes of the client's socket, before it says anything.    *)
Counts(c, e) == e.base = c.base /\ e.wcount = c.wcount /\ e.dlen = c.dlen
Rests(c, e) == Comes(c, e) /\ e.st = c.st /\ Counts(c, e)
Connects(c, e) == Comes(c, e) /\ c.st = STATE_SYN_SENT /\ e.st = STATE_ESTABLISHED /\ Counts(c, e)
Settles(c, m, e) ==
  /\ Comes(c, e) /\ c.st = STATE_ESTABLISHED /\ ACK \in m.fl /\ RST \notin m.fl
  /\ e.st = STATE_ESTABLISHED \/ (e.st = STATE_CLOSING /\ FIN \in m.fl)
  /\ \/ /\ Outstanding(c, m) <= c.dlen
        /\ e.base = c.base + (c.dlen - Outstanding(c, m)) /\ e.dlen = Outstanding(c, m)
        /\ e.wcount = c.wcount - (c.dlen - Outstanding(c, m))
     \/ ~(Outstanding(c, m) <= c.dlen) /\ Counts(c, e)
Lingers(c, m, e) ==
  /\ Comes(c, e) /\ c.st = STATE_CLOSING /\ e.st = STATE_TIME_WAIT /\ Counts(c, e)
  /\ m.ack = ULong(c.seq + 1) /\ RST \notin m.fl
Dies(c, e) == Gone(c, e) /\ (e.dlen = 0 \/ (e.dlen = c.dlen /\ ~Live(c)))
Turns(c, m, e) == Rests(c, e) \/ Connects(c, e) \/ Settles(c, m, e) \/ Lingers(c, m, e) \/ Dies(c, e)

LEMMA CSynSent ==
  ASSUME LongSpace = SeqSpace, NEW i \in Words, NEW w, NEW most, NEW c, Sender(i, c, w, most), Calm(c),
         c.st = STATE_SYN_SENT, NEW m \in ToClient(i, c), RST \notin m.fl
  PROVE  \E e : Connects(c, e) /\ Utters(e, SynSentProc(c, m))
<1> DEFINE r == SendSocket(c)
           acked == ACK \in m.fl /\ m.ack = ULong(c.seq + 1)
           d == [c EXCEPT !.flags = {ACK}, !.err = 0]
           x == [d EXCEPT !.st = STATE_ESTABLISHED, !.seq = Word32(@ + 1),
                          !.ack = Word32(m.seq + 1), !.exp = FALSE]
           y == [d EXCEPT !.st = STATE_SYN_RECEIVED, !.ack = Word32(@ + 1)]
           e == IF acked THEN x ELSE y
<1>0. c \in Socket /\ {ACK} \in SUBSET Flags /\ 0 \in Int BY Known DEF Calm
<1>1. c \in Socket /\ c.rcount = 0 BY DEF Calm
<1>2. d \in Socket BY ONLY <1>0, Zenon DEF Socket
<1>3. d.rcount = c.rcount /\ d.flags = {ACK} /\ d.base = c.base /\ d.wcount = c.wcount /\ d.dlen = c.dlen
  BY <1>1, Zenon DEF Socket
<1> HIDE DEF d
<1>4. m \in Segments /\ SYN \in m.fl /\ ACK \in m.fl /\ m.ack = Num(i, 1) BY DEF ToClient
<1>5. Word32(d.seq + 1) \in Words /\ Word32(m.seq + 1) \in Words
  <2>1. d.seq + 1 \in Int /\ m.seq + 1 \in Int BY <1>2, <1>4 DEF Socket, Segments, Words
  <2> QED BY <2>1, Numbers
<1>6. acked
  <2>1. c.seq = i BY DEF Sender
  <2> QED BY <1>4, <2>1 DEF Num, Word32, ULong
<1>7. x \in Socket
  <2>1. STATE_ESTABLISHED \in Reached BY Known
  <2> QED BY <1>2, <1>5, <2>1, ZenonT(40) DEF Socket
<1>8. /\ x.st = STATE_ESTABLISHED /\ x.rcount = d.rcount /\ x.flags = d.flags
      /\ x.base = d.base /\ x.wcount = d.wcount /\ x.dlen = d.dlen
  BY <1>2, Zenon DEF Socket
<1>9. SynSentProc(c, m) = IF SYN \in m.fl THEN SendSocket(e) ELSE [r EXCEPT !.out = RstSpecial(m) \o @]
  BY Zenon DEF SynSentProc, d
<1>10. e = x BY <1>6
<1> HIDE DEF x, e
<1>11. SynSentProc(c, m) = SendSocket(x) BY <1>4, <1>9, <1>10
<1>12. x.flags = {ACK} /\ x.rcount = 0 BY <1>1, <1>3, <1>8
<1>13. Comes(c, x) BY <1>7, <1>8, <1>12 DEF Comes, Calm
<1>14. Connects(c, x) BY <1>3, <1>8, <1>13 DEF Connects, Counts
<1>15. Utters(x, SendSocket(x)) BY <1>7, <1>8, Sounds
<1> QED BY <1>11, <1>14, <1>15

LEMMA CEstablished ==
  ASSUME NEW c, Calm(c), c.st = STATE_ESTABLISHED, NEW m \in Segments, m.len = 0, RST \notin m.fl
  PROVE  \E e : (Rests(c, e) \/ Settles(c, m, e)) /\ Utters(e, EstablishedProc(c, m))
<1> DEFINE left == Outstanding(c, m)
           n == c.dlen - left
           z == Release(c, n)
           d == IF left <= c.dlen THEN z ELSE c
           f == [d EXCEPT !.ack = Word32(@ + 1), !.st = STATE_CLOSING, !.exp = TRUE]
<1>1. c \in Socket /\ c.rcount = 0 BY DEF Calm
<1>2. left \in Int
  <2>1. c.seq + c.dlen \in Int /\ m.ack \in Int BY <1>1 DEF Socket, Segments, Words
  <2>2. ULong(c.seq + c.dlen) \in Int BY <2>1, Numbers
  <2>3. ULong(c.seq + c.dlen) - m.ack \in Int BY <2>1, <2>2
  <2> QED BY <2>3, Numbers DEF Outstanding
<1>3. c.dlen \in Int /\ c.wcount \in Int /\ c.base \in Int /\ c.seq \in Int BY <1>1 DEF Socket, Words
<1> HIDE DEF left
<1>4. /\ n \in Int /\ c.wcount - n \in Int /\ c.dlen - n \in Int /\ c.base + n \in Int /\ c.seq + n \in Int
      /\ c.dlen - n = left
  BY <1>2, <1>3
<1>5. Word32(c.seq + n) \in Words BY <1>4, Numbers
<1>6. PICK b \in BOOLEAN : b = (c.dlen # n) OBVIOUS
<1> HIDE DEF n
<1>7. z = [c EXCEPT !.flags = {ACK}, !.err = 0, !.wcount = c.wcount - n, !.dlen = c.dlen - n,
                    !.base = c.base + n, !.seq = Word32(c.seq + n), !.exp = b]
  BY <1>1, <1>6 DEF Release, Socket
<1> HIDE DEF z
<1>8. z \in Socket BY <1>1, <1>4, <1>5, <1>7, Known, ZenonT(60) DEF Socket
<1>9. /\ z.st = c.st /\ z.rcount = c.rcount /\ z.flags = {ACK}
      /\ z.base = c.base + n /\ z.wcount = c.wcount - n /\ z.dlen = c.dlen - n
  BY <1>1, <1>7, Zenon DEF Socket
<1>10. Comes(c, z)
  <2>1. z.rcount = 0 /\ z.flags \in {c.flags, {ACK}, {PSH, ACK}, {ACK, FIN}} BY <1>1, <1>9
  <2> QED BY <1>8, <1>9, <2>1, Retuned
<1>11. Comes(c, c) BY WeakSelf
<1>12. /\ d \in Socket /\ Comes(c, d) /\ d.st = STATE_ESTABLISHED
       /\ d.rcount = 0
  BY <1>1, <1>8, <1>9, <1>10, <1>11
<1> DEFINE Counted(e) == \/ left <= c.dlen /\ e.base = c.base + (c.dlen - left) /\ e.dlen = left
                            /\ e.wcount = c.wcount - (c.dlen - left)
                         \/ ~(left <= c.dlen) /\ Counts(c, e)
<1>13. Counted(d)
  <2>1. CASE left <= c.dlen BY <2>1, <1>4, <1>9 DEF n
  <2>2. CASE ~(left <= c.dlen) BY <2>2 DEF Counts
  <2> QED BY <2>1, <2>2
<1> HIDE DEF d
<1>14. Word32(d.ack + 1) \in Words
  <2>1. d.ack + 1 \in Int BY <1>12 DEF Socket, Words
  <2> QED BY <2>1, Numbers
<1>15. f \in Socket
  <2>1. STATE_CLOSING \in Reached BY Known
  <2> QED BY <1>12, <1>14, <2>1, ZenonT(40) DEF Socket
<1>16. /\ f.st = STATE_CLOSING /\ f.rcount = d.rcount /\ f.flags = d.flags
       /\ f.base = d.base /\ f.wcount = d.wcount /\ f.dlen = d.dlen
  BY <1>12, Zenon DEF Socket
<1>17. Comes(c, f) BY <1>12, <1>15, <1>16 DEF Comes, Calm, Live
<1>18. Counted(f) BY <1>13, <1>16 DEF Counts
<1>19. Take(d, m) = d BY DEF Take
<1>20. ProcessTcpData(d, m) = IF ~Exact(d, m) THEN SendSocket(d)
                              ELSE IF FIN \in m.fl THEN SendSocket(f) ELSE Done(d)
  <2> DEFINE t == Take(d, m)
             k == [t EXCEPT !.ack = Word32(@ + 1), !.st = STATE_CLOSING, !.exp = TRUE]
             g == IF FIN \notin m.fl THEN t ELSE k
  <2>1. ProcessTcpData(d, m) = IF ~Exact(d, m) THEN SendSocket(d)
                               ELSE IF m.len > 0 \/ g.st # d.st THEN SendSocket(g) ELSE Done(g)
    BY <1>12, Processed
  <2>2. k = f BY <1>19
  <2>3. ~(m.len > 0) OBVIOUS
  <2> HIDE DEF k, f
  <2>4. CASE FIN \in m.fl
    <3>1. g = f BY <2>2, <2>4
    <3>2. g.st # d.st BY <3>1, <1>12, <1>16
    <3> QED BY <2>1, <2>3, <2>4, <3>1, <3>2
  <2>5. CASE FIN \notin m.fl
    <3>1. g = d BY <1>19, <2>5
    <3> QED BY <2>1, <2>3, <2>5, <3>1
  <2> QED BY <2>4, <2>5
<1>21. EstablishedProc(c, m) = IF ACK \notin m.fl THEN Done(c)
                               ELSE IF m.fl # {ACK} \/ m.len > 0 THEN ProcessTcpData(d, m) ELSE Done(d)
  BY Zenon DEF EstablishedProc, d, z, n, left
<1> HIDE DEF f
<1>22. /\ Utters(d, SendSocket(d)) /\ Utters(d, Done(d)) /\ Utters(f, SendSocket(f)) /\ Utters(c, Done(c))
  BY <1>1, <1>12, <1>15, <1>16, Sounds, Mutes
<1>23. ACK \in m.fl => Settles(c, m, d) /\ (FIN \in m.fl => Settles(c, m, f))
  BY <1>12, <1>13, <1>16, <1>17, <1>18 DEF Settles, left
<1>24. Rests(c, c) BY <1>11 DEF Rests, Counts
<1> QED BY <1>20, <1>21, <1>22, <1>23, <1>24

LEMMA CClosing ==
  ASSUME NEW c, Calm(c), c.st = STATE_CLOSING, NEW m, RST \notin m.fl
  PROVE  \E e : (Rests(c, e) \/ Lingers(c, m, e)) /\ Utters(e, ClosingProc(c, m))
<1> DEFINE a == [c EXCEPT !.flags = {ACK, FIN}]
           r == SendSocket(a)
           z == [r.c EXCEPT !.exp = TRUE, !.err = MaxErr - 1]
           x == [c EXCEPT !.err = 0, !.flags = {ACK}]
           t == [c EXCEPT !.st = STATE_TIME_WAIT, !.err = 0, !.flags = {ACK, FIN}]
<1>0. c \in Socket BY DEF Calm
<1>1. c \in Socket /\ c.rcount = 0 BY DEF Calm
<1>2. a \in Socket /\ t \in Socket
  <2>2. {ACK, FIN} \in SUBSET Flags BY Known
  <2>1. a \in Socket BY ONLY <1>0, <2>2, Zenon DEF Socket
  <2>3. STATE_TIME_WAIT \in Reached /\ 0 \in Int /\ {ACK, FIN} \in SUBSET Flags BY Known
  <2> DEFINE fl == {ACK, FIN}  over == STATE_TIME_WAIT
  <2>5. fl \in SUBSET Flags /\ over \in Reached BY <2>3
  <2> HIDE DEF fl, over
  <2>6. [c EXCEPT !.st = over, !.err = 0, !.flags = fl] \in Socket
    BY <1>0, <2>3, <2>5, Zenon DEF Socket
  <2>4. t \in Socket BY <2>6 DEF fl, over
  <2> QED BY <2>1, <2>4
<1>3. /\ a.st = c.st /\ a.flags = {ACK, FIN} /\ a.rcount = c.rcount
      /\ a.base = c.base /\ a.dlen = c.dlen /\ a.wcount = c.wcount
  BY <1>1, Zenon DEF Socket
<1>4. t.st = STATE_TIME_WAIT /\ t.flags = {ACK, FIN} BY <1>1 DEF Socket
<1>5. t.rcount = c.rcount /\ t.base = c.base /\ t.dlen = c.dlen /\ t.wcount = c.wcount BY <1>1 DEF Socket
<1>20. ClosingProc(c, m) = IF m.ack = ULong(c.seq + 1)
                             THEN IF c.rcount > 0 THEN Done(x) ELSE SendSocket(t)
                             ELSE [r EXCEPT !.c.exp = TRUE, !.c.err = MaxErr - 1]
  BY Zenon DEF ClosingProc
<1> HIDE DEF a, x, t
<1>6. ~(c.rcount > 0) BY <1>1
<1>7. Utters(a, r) /\ r \in Results
  <2>1. a.st # STATE_CLOSED BY <1>3
  <2> QED BY <1>2, <2>1, Sounds, Sends
<1> HIDE DEF r
<1>11. r.c \in Socket BY <1>7 DEF Results
<1>12. z \in Socket BY <1>11, Known, Zenon DEF Socket
<1>13. /\ z.st = r.c.st /\ z.flags = r.c.flags /\ z.rcount = r.c.rcount
       /\ z.base = r.c.base /\ z.dlen = r.c.dlen /\ z.wcount = r.c.wcount
  BY <1>11, Zenon DEF Socket
<1>14. [r EXCEPT !.c.exp = TRUE, !.c.err = MaxErr - 1] = [r EXCEPT !.c = z] BY <1>7 DEF Results
<1> HIDE DEF z
<1>15. [r EXCEPT !.c = z].c = z /\ [r EXCEPT !.c = z].out = r.out BY <1>7 DEF Results
<1>16. SameBut(r.c, z) BY <1>12, <1>13 DEF SameBut
<1>17. Utters(a, [r EXCEPT !.c = z])
  <2> DEFINE s == [r EXCEPT !.c = z]
  <2>1. Utters(a, r) /\ SameBut(r.c, z) /\ z.dlen = r.c.dlen /\ s.c = z /\ s.out = r.out
    BY <1>7, <1>13, <1>15, <1>16
  <2> HIDE DEF s
  <2>2. Utters(a, s) BY ONLY <2>1, Retimed
  <2> QED BY <2>2 DEF s
<1>18. Rests(c, a)
  <2>1. a.rcount = 0 /\ a.flags \in {c.flags, {ACK}, {PSH, ACK}, {ACK, FIN}} BY <1>1, <1>3
  <2>2. Comes(c, a) BY <1>2, <1>3, <2>1, Retuned
  <2> QED BY <1>3, <2>2 DEF Rests, Counts
<1>19. m.ack = ULong(c.seq + 1) => Lingers(c, m, t) /\ Utters(t, SendSocket(t))
  <2>1. SYN \notin t.flags /\ t.rcount = 0 BY <1>1, <1>4, <1>5
  <2>2. Comes(c, t) BY <1>2, <1>4, <2>1 DEF Comes, Calm, Live
  <2>3. t.st # STATE_CLOSED BY <1>4
  <2>4. Utters(t, SendSocket(t)) BY <1>2, <2>3, Sounds
  <2> QED BY <1>4, <1>5, <2>2, <2>4 DEF Lingers, Counts
<1> QED BY <1>6, <1>14, <1>17, <1>18, <1>19, <1>20

LEMMA CLastAck ==
  ASSUME NEW c, Calm(c), ~c.par, c.st = STATE_LAST_ACK, NEW m
  PROVE  \E e : (Rests(c, e) \/ Dies(c, e)) /\ Utters(e, LastAckProc(c, m))
<1> DEFINE a == [c EXCEPT !.flags = {ACK, FIN}]
           r == SendSocket(a)
           z == [r.c EXCEPT !.err = 0]
           x == [c EXCEPT !.exp = FALSE, !.dlen = 0, !.err = 0]
<1>0. c \in Socket BY DEF Calm
<1>1. c \in Socket /\ c.rcount = 0 BY DEF Calm
<1>2. a \in Socket /\ x \in Socket
  <2>1. a \in Socket BY <1>0, Known, Zenon DEF Socket
  <2>2. x \in Socket BY <1>0, Known, Zenon DEF Socket
  <2> QED BY <2>1, <2>2
<1>3. /\ a.st = c.st /\ a.flags = {ACK, FIN} /\ a.rcount = c.rcount
      /\ a.base = c.base /\ a.dlen = c.dlen /\ a.wcount = c.wcount
  BY <1>1, Zenon DEF Socket
<1>4. x.par = c.par /\ x.dlen = 0 BY <1>1, Zenon DEF Socket
<1>20. LastAckProc(c, m) = IF m.ack = ULong(c.seq + 1) THEN Done(Nuke(x)) ELSE [r EXCEPT !.c.err = 0]
  BY Zenon DEF LastAckProc
<1> HIDE DEF a, x
<1>7. Utters(a, r) /\ r \in Results
  <2>1. a.st # STATE_CLOSED BY <1>3
  <2> QED BY <1>2, <2>1, Sounds, Sends
<1> HIDE DEF r
<1>11. r.c \in Socket BY <1>7 DEF Results
<1>12. z \in Socket BY <1>11, Known, Zenon DEF Socket
<1>13. /\ z.st = r.c.st /\ z.flags = r.c.flags /\ z.rcount = r.c.rcount
       /\ z.base = r.c.base /\ z.dlen = r.c.dlen /\ z.wcount = r.c.wcount
  BY <1>11, Zenon DEF Socket
<1>14. [r EXCEPT !.c.err = 0] = [r EXCEPT !.c = z] BY <1>7 DEF Results
<1> HIDE DEF z
<1>15. [r EXCEPT !.c = z].c = z /\ [r EXCEPT !.c = z].out = r.out BY <1>7 DEF Results
<1>16. SameBut(r.c, z) BY <1>12, <1>13 DEF SameBut
<1>17. Utters(a, [r EXCEPT !.c = z])
  <2> DEFINE s == [r EXCEPT !.c = z]
  <2>1. Utters(a, r) /\ SameBut(r.c, z) /\ z.dlen = r.c.dlen /\ s.c = z /\ s.out = r.out
    BY <1>7, <1>13, <1>15, <1>16
  <2> HIDE DEF s
  <2>2. Utters(a, s) BY ONLY <2>1, Retimed
  <2> QED BY <2>2 DEF s
<1>18. Rests(c, a)
  <2>1. a.rcount = 0 /\ a.flags \in {c.flags, {ACK}, {PSH, ACK}, {ACK, FIN}} BY <1>1, <1>3
  <2>2. Comes(c, a) BY <1>2, <1>3, <2>1, Retuned
  <2> QED BY <1>3, <2>2 DEF Rests, Counts
<1>19. Dies(c, Nuke(x)) /\ Utters(Nuke(x), Done(Nuke(x)))
  <2>1. Gone(c, Nuke(x)) /\ Nuke(x).dlen = 0 BY <1>2, <1>4, NukeGone
  <2>2. Nuke(x) \in Socket BY <2>1 DEF Gone, Comes, Calm
  <2> QED BY <2>1, <2>2, Mutes DEF Dies
<1> QED BY <1>14, <1>17, <1>18, <1>19, <1>20

LEMMA CTcp ==
  ASSUME LongSpace = SeqSpace, NEW i \in Words, NEW w, NEW most, NEW c, Sender(i, c, w, most), Calm(c),
         NEW m \in ToClient(i, c), m.len = 0, NEW isn
  PROVE  \E e : Turns(c, m, e) /\ Utters(e, Tcp(c, m, isn))
<1> DEFINE x == [c EXCEPT !.dlen = 0, !.wcount = 0, !.rcount = 0]
           k == [c |-> c, out |-> IF RST \in m.fl \/ SYN \in m.fl THEN << >> ELSE RstSpecial(m), up |-> TRUE]
<1>1. c \in Socket /\ c.rcount = 0 /\ ~c.par BY DEF Calm, Sender
<1>2. m \in Segments BY DEF ToClient
<1>4. c.st \in {STATE_CLOSED, STATE_SYN_SENT, STATE_ESTABLISHED, STATE_CLOSING,
                STATE_LAST_ACK, STATE_TIME_WAIT}
  BY <1>1 DEF Sender, Socket, Reached, Calm
<1>5. CASE c.st = STATE_CLOSED
  <2>1. Tcp(c, m, isn) = k BY <1>5 DEF Tcp
  <2>2. Comes(c, c) BY WeakSelf
  <2>3. Rests(c, c) BY <2>2 DEF Rests, Counts
  <2> DEFINE s == [fl |-> {RST}, seq |-> m.ack, ack |-> m.seq, dat |-> 0, len |-> 0]
  <2>4. s \in Segments /\ s.fl = {RST} /\ s.len = 0 BY <1>2, Known DEF Segments
  <2>5. RstSpecial(m) = <<s>> BY DEF RstSpecial
  <2>6. k.c = c /\ (k.out = << >> \/ k.out = <<s>>) BY <2>5
  <2> HIDE DEF k, s
  <2>7. Utters(c, k) BY <1>1, <1>5, <2>4, <2>6, Resets
  <2> QED BY <2>1, <2>3, <2>7 DEF Turns
<1>6. CASE c.st # STATE_CLOSED
  <2>1. c.st > STATE_NOTINIT BY <1>4, <1>6
  <2>2. CASE RST \in m.fl
    <3>1. Tcp(c, m, isn) = TcpRst(x) BY <2>1, <2>2 DEF Tcp
    <3>2. x \in Socket BY <1>1, Known, Zenon DEF Socket
    <3>3. x.dlen = 0 /\ x.wcount = 0 /\ x.rcount = 0 BY <1>1, Zenon DEF Socket
    <3> HIDE DEF x
    <3> DEFINE e == [x EXCEPT !.flags = {RST}, !.st = STATE_CLOSED]
               s == [fl |-> {RST}, seq |-> e.seq, ack |-> e.ack, dat |-> 0, len |-> 0]
               t == [c |-> e, out |-> IF x.ip THEN <<s>> ELSE << >>, up |-> x.ip]
    <3>4. TcpRst(x) = t BY Zenon DEF TcpRst, FastTcpPack
    <3>15. {RST} \in SUBSET Flags /\ STATE_CLOSED \in Reached BY Known
    <3>5. e \in Socket BY ONLY <3>2, <3>15, Zenon DEF Socket
    <3>6. e.st = STATE_CLOSED /\ e.dlen = 0 /\ e.wcount = 0 /\ e.rcount = 0 BY <3>2, <3>3, Zenon DEF Socket
    <3> HIDE DEF e
    <3>7. s \in Segments /\ s.fl = {RST} /\ s.len = 0 BY <3>5, Known DEF Segments, Socket
    <3>8. t.c = e /\ (t.out = << >> \/ t.out = <<s>>) OBVIOUS
    <3> HIDE DEF t, s
    <3>9. Utters(e, t) BY <3>5, <3>6, <3>7, <3>8, Resets
    <3>10. Dies(c, e) BY <3>5, <3>6 DEF Dies, Gone, Comes, Calm, Live
    <3> QED BY <3>1, <3>4, <3>9, <3>10 DEF Turns
  <2>3. CASE RST \notin m.fl
    <3>1. Tcp(c, m, isn) = ProcTcp(c, m, isn) BY <2>1, <2>3 DEF Tcp
    <3> HIDE DEF x, k
    <3>2. CASE c.st = STATE_SYN_SENT
      <4>1. ProcTcp(c, m, isn) = SynSentProc(c, m) BY <3>2 DEF ProcTcp
      <4> QED BY <2>3, <3>1, <3>2, <4>1, CSynSent DEF Turns
    <3>4. CASE c.st = STATE_ESTABLISHED
      <4>1. ProcTcp(c, m, isn) = EstablishedProc(c, m) BY <3>4 DEF ProcTcp
      <4> QED BY <1>2, <2>3, <3>1, <3>4, <4>1, CEstablished DEF Turns
    <3>5. CASE c.st = STATE_CLOSING
      <4>1. ProcTcp(c, m, isn) = ClosingProc(c, m) BY <3>5 DEF ProcTcp
      <4> QED BY <2>3, <3>1, <3>5, <4>1, CClosing DEF Turns
    <3>6. CASE c.st = STATE_LAST_ACK
      <4>1. ProcTcp(c, m, isn) = LastAckProc(c, m) BY <3>6 DEF ProcTcp
      <4> QED BY <1>1, <3>1, <3>6, <4>1, CLastAck DEF Turns
    <3>7. CASE c.st = STATE_TIME_WAIT
      <4>1. ProcTcp(c, m, isn) = Done(Nuke(c)) BY <3>7 DEF ProcTcp
      <4>2. Gone(c, Nuke(c)) /\ Nuke(c).dlen = c.dlen BY <1>1, NukeGone
      <4>3. Dies(c, Nuke(c)) BY <3>7, <4>2 DEF Dies, Live
      <4>4. Nuke(c) \in Socket BY <4>2 DEF Gone, Comes, Calm
      <4> QED BY <3>1, <4>1, <4>3, <4>4, Mutes DEF Turns
    <3> QED BY <1>4, <1>6, <3>2, <3>4, <3>5, <3>6, <3>7
  <2> QED BY <2>2, <2>3
<1> QED BY <1>5, <1>6

(* What check_sockets and the program make of it.                           *)
Restarts(c, e) == Comes(c, e) /\ e.st = c.st /\ e.base = c.base /\ e.wcount = c.wcount /\ e.dlen = 0
Fills(c, e) == Comes(c, e) /\ e.st = c.st /\ e.base = c.base /\ e.dlen = c.dlen /\ e.wcount >= c.wcount
Lasts(c, e) == Comes(c, e) /\ e.st = STATE_LAST_ACK /\ Counts(c, e)
Wipes(c, e) == Gone(c, e) /\ e.dlen = c.dlen

LEMMA CRound ==
  ASSUME NEW c, Calm(c), ~c.par, c.st # STATE_CLOSED, NEW expired \in BOOLEAN
  PROVE  LET r == CheckRound(c, expired) IN
         /\ \E e : \/ (Rests(c, e) \/ (expired /\ Dies(c, e))) /\ Utters(e, r)
                   \/ expired /\ Restarts(c, e) /\ r = SendSocket(e)
         /\ r.out # << >> => r.c.st = c.st
<1> DEFINE late == expired /\ c.exp
           fresh == c.wcount - c.dlen # 0 /\ c.dlen < MaxTailW
           pushing == late /\ ~Spent(c) /\ c.st > STATE_SYN_RECEIVED /\ c.st < STATE_FINWAIT1
           fl == IF fresh \/ pushing THEN {PSH, ACK} ELSE c.flags
           er == IF late THEN c.err + 1 ELSE c.err
           d == [c EXCEPT !.flags = fl, !.err = er]
           a == [d EXCEPT !.dlen = 0]
           r == CheckRound(c, expired)
<1>1. c \in Socket /\ c.rcount = 0 BY DEF Calm
<1>2. fl \in SUBSET Flags /\ er \in Int BY <1>1, Known DEF Socket
<1>14. CheckRound(c, expired) = CASE late /\ Spent(c) -> Done([Nuke(d) EXCEPT !.dlen = 0])
                                  [] late /\ ~Spent(c) -> SendSocket(a)
                                  [] ~late /\ fresh -> SendSocket(d)
                                  [] OTHER -> Done(c)
  BY Zenon DEF CheckRound, StartAgain
<1>3. fl \in {c.flags, {ACK}, {PSH, ACK}, {ACK, FIN}} OBVIOUS
<1>16. c.st = STATE_SYN_SENT => fl = c.flags /\ c.wcount = 0 /\ c.dlen = 0
  <2>1. c.st = STATE_SYN_SENT => c.wcount = 0 /\ c.dlen = 0 BY DEF Calm
  <2>2. c.st = STATE_SYN_SENT => ~fresh /\ ~pushing BY <2>1
  <2> QED BY <2>1, <2>2
<1> HIDE DEF fl, er
<1>4. d \in Socket BY <1>1, <1>2, Zenon DEF Socket
<1>5. /\ d.st = c.st /\ d.par = c.par /\ d.base = c.base /\ d.dlen = c.dlen
      /\ d.wcount = c.wcount /\ d.flags = fl /\ d.rcount = c.rcount
  BY <1>1, <1>2, Zenon DEF Socket
<1> HIDE DEF d
<1>6. a \in Socket BY <1>4, Known, Zenon DEF Socket
<1>7. /\ a.st = d.st /\ a.par = d.par /\ a.base = d.base /\ a.dlen = 0
      /\ a.wcount = d.wcount /\ a.flags = d.flags /\ a.rcount = d.rcount
  BY <1>4, Zenon DEF Socket
<1> HIDE DEF a
<1>8. Comes(c, d) /\ Comes(c, a)
  <2>1. d.rcount = 0 /\ a.rcount = 0 /\ a.st = c.st /\ a.flags = fl BY <1>1, <1>5, <1>7
  <2>2. c.st = STATE_SYN_SENT => /\ d.flags = c.flags /\ d.wcount = c.wcount /\ d.dlen = c.dlen
                                 /\ a.flags = c.flags /\ a.wcount = c.wcount /\ a.dlen = c.dlen
    BY <1>5, <1>7, <1>16
  <2> QED BY <1>3, <1>4, <1>5, <1>6, <2>1, <2>2, Retuned
<1>9. Rests(c, d) /\ Restarts(c, a) /\ Rests(c, c)
  BY <1>5, <1>7, <1>8, WeakSelf DEF Rests, Restarts, Counts
<1>10. Utters(d, SendSocket(d)) /\ Utters(a, SendSocket(a)) /\ Utters(c, Done(c))
       /\ SendSocket(d).c.st = c.st /\ SendSocket(a).c.st = c.st
  <2>1. d.st # STATE_CLOSED /\ a.st # STATE_CLOSED BY <1>5, <1>7
  <2>2. Utters(d, SendSocket(d)) /\ Utters(a, SendSocket(a)) /\ Utters(c, Done(c))
    BY <1>1, <1>4, <1>6, <2>1, Sounds, Mutes
  <2>3. SendSocket(d).c.st = d.st /\ SendSocket(a).c.st = a.st BY <2>2 DEF Utters, Pushes, SameBut
  <2> QED BY <1>5, <1>7, <2>2, <2>3
<1> DEFINE g == [Nuke(d) EXCEPT !.dlen = 0]
<1>11. Dies(c, g) /\ Utters(g, Done(g))
  <2>1. ~d.par BY <1>5
  <2>2. Gone(c, g) /\ g.dlen = 0 BY <1>4, <2>1, NukeGone
  <2>3. g \in Socket BY <2>2 DEF Gone, Comes, Calm
  <2> QED BY <2>2, <2>3, Mutes DEF Dies
<1>12. Done(g).out = << >> /\ Done(c).out = << >> BY DEF Done
<1> HIDE DEF g, fresh
<1>13. CASE late /\ Spent(c)
  <2>1. r = Done(g) /\ expired BY <1>13, <1>14 DEF g
  <2> QED BY <1>11, <1>12, <2>1
<1>15. CASE late /\ ~Spent(c)
  <2>1. r = SendSocket(a) /\ expired BY <1>15, <1>14
  <2> QED BY <1>9, <1>10, <2>1
<1>17. CASE ~late /\ fresh
  <2>1. r = SendSocket(d) BY <1>17, <1>14
  <2> QED BY <1>9, <1>10, <2>1
<1>18. CASE ~late /\ ~fresh
  <2>1. r = Done(c) BY <1>18, <1>14
  <2> QED BY <1>9, <1>10, <1>12, <2>1
<1> QED BY <1>13, <1>15, <1>17, <1>18

LEMMA CWrites ==
  ASSUME NEW i, NEW w, NEW most, NEW c, Sender(i, c, w, most), Calm(c), NEW n \in Nat
  PROVE  Fills(c, WriteTcpBytes(c, n)) /\ Utters(WriteTcpBytes(c, n), Done(WriteTcpBytes(c, n)))
<1> DEFINE k == IF n > MaxTailW - c.wcount THEN MaxTailW - c.wcount ELSE n
           d == [c EXCEPT !.wcount = c.wcount + k]
<1>1. c \in Socket BY DEF Calm
<1>2. c.wcount \in Int /\ MaxTailW \in Int BY <1>1, TcpAssumption DEF Socket
<1>3. CASE c.st # STATE_ESTABLISHED
  <2>1. WriteTcpBytes(c, n) = c BY <1>3 DEF WriteTcpBytes
  <2>2. Fills(c, c) BY <1>2, WeakSelf DEF Fills
  <2> QED BY <2>1, <2>2, <1>1, Mutes
<1>4. CASE c.st = STATE_ESTABLISHED
  <2>1. WriteTcpBytes(c, n) = d BY <1>4 DEF WriteTcpBytes
  <2>2. c.wcount <= MaxTailW BY <1>4 DEF Sender
  <2>3. k \in Nat BY <1>2, <2>2
  <2>4. c.wcount + k \in Int /\ c.wcount + k >= c.wcount BY <1>2, <2>3
  <2> HIDE DEF k
  <2>5. d \in Socket BY <1>1, <2>4, Zenon DEF Socket
  <2>6. /\ d.st = c.st /\ d.base = c.base /\ d.dlen = c.dlen
        /\ d.wcount = c.wcount + k /\ d.rcount = c.rcount /\ d.flags = c.flags
    BY <1>1, Zenon DEF Socket
  <2> HIDE DEF d
  <2>7. Comes(c, d) BY <1>4, <2>5, <2>6 DEF Comes, Calm, Live
  <2>8. Fills(c, d) BY <2>4, <2>6, <2>7 DEF Fills
  <2> QED BY <2>1, <2>5, <2>8, Mutes
<1> QED BY <1>3, <1>4

LEMMA CReads ==
  ASSUME NEW c, Calm(c), NEW n \in 0 .. c.rcount
  PROVE  n = 0 /\ \E e : Rests(c, e) /\ Utters(e, SockRead(c, n))
<1> DEFINE d == Drain(c, n)
           e == [d EXCEPT !.flags = {ACK}, !.err = 0]
<1>0. n = 0 BY DEF Calm
<1>1. c \in Socket BY DEF Calm
<1>2. c.rcount - n \in Int BY <1>0, <1>1 DEF Socket
<1>3. d = [c EXCEPT !.rcount = c.rcount - n] BY DEF Drain
<1> HIDE DEF d
<1>4. d \in Socket BY <1>1, <1>2, <1>3, Zenon DEF Socket
<1>5. /\ d.st = c.st /\ d.base = c.base /\ d.dlen = c.dlen
      /\ d.wcount = c.wcount /\ d.rcount = c.rcount - n /\ d.flags = c.flags
  BY <1>1, <1>3, Zenon DEF Socket
<1>6. e \in Socket BY <1>4, Known, Zenon DEF Socket
<1>7. /\ e.st = d.st /\ e.base = d.base /\ e.dlen = d.dlen
      /\ e.wcount = d.wcount /\ e.rcount = d.rcount /\ e.flags = {ACK}
  BY <1>4, Zenon DEF Socket
<1> HIDE DEF e
<1> DEFINE advertise == /\ n > 2 \/ (d.rcount < LowMark /\ n > 0)
                        /\ \/ d.rcount = 0
                           \/ d.rcount < MaxTailR \div 2 /\ c.rcount > MaxTailR \div 2
<1>11. SockRead(c, n) = IF c.st # STATE_ESTABLISHED \/ c.dlen # 0 THEN Done(d)
                        ELSE IF c.wcount # 0 THEN SendSocket(d)
                        ELSE IF advertise THEN SendSocket(e) ELSE Done(d)
  BY Zenon DEF SockRead, d, e
<1>8. c.rcount = 0 /\ d.rcount = 0 BY <1>0, <1>5 DEF Calm
<1>9. Rests(c, d)
  <2>1. Comes(c, d) BY <1>4, <1>5, <1>8, Retuned
  <2> QED BY <2>1, <1>5 DEF Rests, Counts
<1>10. c.st = STATE_ESTABLISHED => Rests(c, e)
  <2>1. e.rcount = 0 /\ e.st = c.st /\ e.flags = {ACK} BY <1>5, <1>7, <1>8
  <2>2. c.st = STATE_ESTABLISHED => Comes(c, e) BY <1>6, <2>1, Retuned
  <2> QED BY <2>2, <1>5, <1>7 DEF Rests, Counts
<1>12. c.st = STATE_ESTABLISHED => Utters(d, SendSocket(d)) /\ Utters(e, SendSocket(e))
  <2>1. c.st = STATE_ESTABLISHED => d.st # STATE_CLOSED /\ e.st # STATE_CLOSED BY <1>5, <1>7
  <2> QED BY <1>4, <1>6, <2>1, Sounds
<1>13. Utters(d, Done(d)) BY <1>4, Mutes
<1> HIDE DEF advertise
<1> QED BY <1>0, <1>9, <1>10, <1>11, <1>12, <1>13

LEMMA CEnds ==
  ASSUME NEW c, Calm(c), ~c.par
  PROVE  LET d == [c EXCEPT !.rcount = 0] IN
         /\ Rests(c, d) /\ Utters(d, Done(d))
         /\ Wipes(c, Nuke(d)) /\ Utters(Nuke(d), Done(Nuke(d)))
         /\ Wipes(c, Nuke(c)) /\ Utters(Nuke(c), Done(Nuke(c)))
         /\ \E e : Lasts(c, e) /\ Utters(e, SendFin(c))
<1> DEFINE d == [c EXCEPT !.rcount = 0]
           e == [c EXCEPT !.st = STATE_LAST_ACK, !.exp = TRUE, !.flags = {ACK, FIN}, !.err = 0]
<1>1. c \in Socket BY DEF Calm
<1>2. d \in Socket BY <1>1, Known, Zenon DEF Socket
<1>3. /\ d.st = c.st /\ d.par = c.par /\ d.base = c.base /\ d.dlen = c.dlen
      /\ d.wcount = c.wcount /\ d.flags = c.flags /\ d.rcount = 0
  BY <1>1, Zenon DEF Socket
<1> HIDE DEF d
<1>4. Rests(c, d)
  <2>1. Comes(c, d) BY <1>2, <1>3, Retuned
  <2> QED BY <2>1, <1>3 DEF Rests, Counts
<1>5. Wipes(c, Nuke(d)) /\ Wipes(c, Nuke(c))
  <2>1. ~d.par BY <1>3
  <2> QED BY <1>1, <1>2, <1>3, <2>1, NukeGone DEF Wipes
<1>6. Nuke(d) \in Socket /\ Nuke(c) \in Socket BY <1>5 DEF Wipes, Gone, Comes, Calm
<1>7. \E f : Lasts(c, f) /\ Utters(f, SendFin(c))
  <2> DEFINE fl == {ACK, FIN}  fin == STATE_LAST_ACK
  <2>1. fl \in SUBSET Flags /\ fin \in Reached /\ SYN \notin fl BY Known
  <2>2. fin = STATE_LAST_ACK OBVIOUS
  <2> DEFINE f == [c EXCEPT !.st = fin, !.exp = TRUE, !.flags = fl, !.err = 0]
  <2>3. f = e OBVIOUS
  <2> HIDE DEF fl, fin, e
  <2>4. f \in Socket BY <1>1, <2>1, Known, Zenon DEF Socket
  <2>5. /\ f.st = fin /\ f.base = c.base /\ f.dlen = c.dlen /\ f.wcount = c.wcount
        /\ f.rcount = c.rcount /\ f.flags = fl
    BY <1>1, Zenon DEF Socket
  <2> HIDE DEF f
  <2>6. Comes(c, f) /\ f.st # STATE_CLOSED BY <2>1, <2>2, <2>4, <2>5 DEF Comes, Calm, Live
  <2>7. Lasts(c, f) BY <2>2, <2>5, <2>6 DEF Lasts, Counts
  <2>8. SendFin(c) = SendSocket(f)
    <3>1. c.st # STATE_PEER_RESET BY <1>1 DEF Socket, Reached
    <3> QED BY <3>1, <2>3 DEF SendFin, e
  <2> QED BY <2>4, <2>6, <2>7, <2>8, Sounds
<1> QED BY <1>2, <1>4, <1>5, <1>6, <1>7, Mutes DEF d

LEMMA CChecks ==
  ASSUME NEW i \in Words, NEW w \in Nat, NEW most \in Int, NEW c, Sender(i, c, w, most), Calm(c),
         NEW expired \in BOOLEAN
  PROVE  Weak(c, CheckSockets(c, expired))
<1> DEFINE r1 == CheckRound(c, expired)
           r2 == CheckRound(r1.c, FALSE)
           t == [c |-> r2.c, out |-> r1.out \o r2.out, up |-> r1.up /\ r2.up]
<1>0. ~c.par BY DEF Sender
<1>1. CheckSockets(c, expired) = IF c.st > STATE_UDP THEN IF r1.out = << >> THEN r1 ELSE t ELSE Done(c)
  BY <1>0 DEF CheckSockets
<1>2. Weak(c, Done(c)) BY WeakSelf, UtterWeak
<1>3. ASSUME NEW x, Calm(x), x.st # STATE_CLOSED, ~x.par, NEW e \in BOOLEAN PROVE Weak(x, CheckRound(x, e))
  <2>1. PICK y : \/ (Rests(x, y) \/ (e /\ Dies(x, y))) /\ Utters(y, CheckRound(x, e))
                 \/ e /\ Restarts(x, y) /\ CheckRound(x, e) = SendSocket(y)
    BY <1>3, CRound
  <2>2. Comes(x, y) BY <2>1 DEF Rests, Dies, Gone, Restarts
  <2>3. Restarts(x, y) => y \in Socket /\ y.st # STATE_CLOSED BY <1>3 DEF Restarts, Comes, Calm
  <2>4. Utters(y, CheckRound(x, e)) BY <2>1, <2>3, Sounds
  <2> QED BY <2>2, <2>4, UtterWeak
<1>4. ASSUME c.st > STATE_UDP, r1.out # << >> PROVE Weak(c, t)
  <2>1. c.st # STATE_CLOSED BY <1>4
  <2>2. Weak(c, r1) /\ r1.c.st = c.st
    <3>1. Weak(c, r1) BY <1>0, <1>3, <2>1
    <3>2. r1.c.st = c.st BY <1>0, <1>4, <2>1, CRound
    <3> QED BY <3>1, <3>2
  <2>3. Calm(r1.c) BY <2>2 DEF Weak, Comes
  <2>4. ~r1.c.par /\ r1.c.st # STATE_CLOSED
    <3>1. Sender(i, r1.c, w, most) BY <2>1, ClientRound DEF ClientStep, Client1
    <3> QED BY <2>1, <2>2, <3>1 DEF Sender
  <2> DEFINE x == r1.c
  <2>5. Weak(x, r2) /\ r2.c.st = x.st
    <3>1. FALSE \in BOOLEAN OBVIOUS
    <3>2. Weak(x, r2) BY <1>3, <2>3, <2>4, <3>1
    <3>3. PICK y : Rests(x, y) /\ Utters(y, r2) BY <2>3, <2>4, <3>1, CRound
    <3> QED BY <3>2, <3>3 DEF Rests, Utters, Pushes, SameBut
  <2> DEFINE S == IF c.st = STATE_SYN_SENT THEN Syns ELSE IF Live(c) THEN {m \in Segments : SYN \notin m.fl /\ RST \notin m.fl}
                  ELSE {m \in Segments : SYN \notin m.fl}
  <2> HIDE DEF r1, r2
  <2>6. r1.out \in Seq(S)
    <3>1. Live(r1.c) = Live(c) BY <2>2 DEF Live
    <3> QED BY <2>2, <3>1 DEF Weak, Speech
  <2>7. r2.out \in Seq(S)
    <3>1. Live(r2.c) = Live(c) BY <2>2, <2>5 DEF Live
    <3> QED BY <2>2, <2>5, <3>1 DEF Weak, Speech
  <2> HIDE DEF S
  <2>8. r1.out \o r2.out \in Seq(S) BY <2>6, <2>7
  <2>9. t.c = r2.c /\ t.out = r1.out \o r2.out OBVIOUS
  <2> HIDE DEF t
  <2>10. Live(t.c) = Live(c) /\ t.c.st = c.st BY <2>2, <2>5, <2>9 DEF Live
  <2>11. Comes(c, t.c) BY <2>5, <2>9, <2>10 DEF Weak, Comes
  <2>12. t.out \in Seq(IF t.c.st = STATE_SYN_SENT THEN Syns ELSE Speech(t.c))
    BY <2>8, <2>9, <2>10 DEF S, Speech
  <2> QED BY <2>11, <2>12 DEF Weak
<1>5. c.st > STATE_UDP => Weak(c, r1)
  <2>1. c.st > STATE_UDP => c.st # STATE_CLOSED OBVIOUS
  <2> QED BY <1>0, <1>3, <2>1
<1> QED BY <1>1, <1>2, <1>4, <1>5

LEMMA COpens ==
  ASSUME NEW i \in Words
  PROVE  LET r == TcpOpen(Blank, i) IN
         /\ Calm(r.c) /\ r.c.st = STATE_SYN_SENT /\ r.out \in Seq(Syns)
         /\ r.c.base = 0 /\ r.c.wcount = 0 /\ r.c.dlen = 0
<1> DEFINE a == [Blank EXCEPT !.ip = TRUE, !.own = TRUE, !.seq = i, !.ack = i]
           b == [a EXCEPT !.flags = {SYN}, !.st = STATE_SYN_SENT]
           d == [b EXCEPT !.exp = TRUE]
           m == [fl |-> {SYN}, seq |-> i, ack |-> i, dat |-> 0, len |-> 0]
<1>1. Blank \in Socket
  <2>1. 0 \in Words BY TcpAssumption DEF Words
  <2>2. STATE_NOTINIT \in Reached BY DEF Reached
  <2> QED BY <2>1, <2>2, Known DEF Blank, Socket
<1>2. Blank.base = 0 /\ Blank.wcount = 0 /\ Blank.dlen = 0 /\ Blank.rcount = 0 BY DEF Blank
<1>3. a \in Socket BY <1>1, Zenon DEF Socket
<1>4. /\ a.base = Blank.base /\ a.wcount = Blank.wcount /\ a.dlen = Blank.dlen /\ a.rcount = Blank.rcount
      /\ a.ip /\ a.seq = i /\ a.ack = i
  BY <1>1, Zenon DEF Socket
<1> HIDE DEF a
<1>5. b \in Socket BY <1>3, Known, Zenon DEF Socket
<1>6. /\ b.base = a.base /\ b.wcount = a.wcount /\ b.dlen = a.dlen /\ b.rcount = a.rcount
      /\ b.ip = a.ip /\ b.seq = i /\ b.ack = i /\ b.st = STATE_SYN_SENT /\ b.flags = {SYN}
  BY <1>3, <1>4, Zenon DEF Socket
<1> DEFINE r == [c |-> b, out |-> << m >>, up |-> TRUE]
<1>7. TcpSyn(a) = r
  <2>1. a.ip = TRUE BY <1>3, <1>4 DEF Socket
  <2> QED BY <1>6, <2>1, Zenon DEF TcpSyn, FastTcpPack
<1> HIDE DEF b
<1>8. d \in Socket BY <1>5, Zenon DEF Socket
<1>9. /\ d.base = b.base /\ d.wcount = b.wcount /\ d.dlen = b.dlen /\ d.rcount = b.rcount
      /\ d.st = STATE_SYN_SENT /\ d.flags = {SYN}
  BY <1>5, <1>6, Zenon DEF Socket
<1> HIDE DEF d
<1>10. TcpOpen(Blank, i) = [r EXCEPT !.c.exp = TRUE] BY <1>7, Zenon DEF TcpOpen, a
<1>11. m \in Syns BY Known DEF Syns, Segments
<1> HIDE DEF m
<1>13. << m >> \in Seq(Syns) BY <1>11
<1>16. r.c = b /\ r.out = << m >> OBVIOUS
<1>17. r = [c |-> b, out |-> << m >>, up |-> TRUE] OBVIOUS
<1> DEFINE s == <<m>>
<1> HIDE DEF s
<1>14. [r EXCEPT !.c.exp = TRUE].c = d /\ [r EXCEPT !.c.exp = TRUE].out = << m >>
  <2>1. r = [c |-> b, out |-> s, up |-> TRUE] BY <1>17 DEF s
  <2>2. [r EXCEPT !.c.exp = TRUE].c = [b EXCEPT !.exp = TRUE] BY <2>1
  <2>3. [r EXCEPT !.c.exp = TRUE].out = s BY <2>1
  <2> QED BY <2>2, <2>3 DEF d, s
<1>15. Calm(d) BY <1>2, <1>4, <1>6, <1>8, <1>9 DEF Calm, Live
<1> HIDE DEF r
<1>18. TcpOpen(Blank, i).c = d /\ TcpOpen(Blank, i).out = << m >> BY <1>10, <1>14
<1>19. d.st = STATE_SYN_SENT /\ d.base = 0 /\ d.wcount = 0 /\ d.dlen = 0 BY <1>2, <1>4, <1>6, <1>9
<1> QED BY <1>13, <1>15, <1>18, <1>19

-----------------------------------------------------------------------------
(* The steps of the serial link.                                            *)
LEMMA OnceSpeaks ==
  ASSUME ~Routed, NEW i, NEW c, NEW d, NEW ns, NEW nc, NEW a, NEW g, Once(i, c, d, ns, nc, a, g),
         NEW r, Weak(c, r)
  PROVE  Once(i, r.c, d, Transmit(ns, r.out), nc, a, g)
<1> DEFINE x == r.c
           S == IF x.st = STATE_SYN_SENT THEN Syns ELSE Speech(x)
<1>1. /\ Calm(c)
      /\ ns \in Seq(ToServer(c)) /\ Ordered(ns) /\ nc \in Seq(ToClient(i, c)) /\ Mute(d)
      /\ a \notin {"opening", "failed"}
      /\ Opened(d, a) => d.st # STATE_SYN_RECEIVED /\ c.st # STATE_SYN_SENT /\ ns \in Seq(Later)
      /\ d.st = STATE_LAST_ACK => a # "idle"
      /\ d.st = STATE_ESTABLISHED => d.taken = d.most
      /\ a = "idle" => g = 0
      /\ a \in {"idle", "open"} /\ (d.st = STATE_ESTABLISHED \/ d.rcount # 0) => d.taken - d.rcount = g
  BY DEF Once
<1>2. Comes(c, x) /\ r.out \in Seq(S) BY DEF Weak
<1>3. /\ Calm(x) /\ (x.st = STATE_SYN_SENT => c.st = STATE_SYN_SENT)
      /\ Live(x) => Live(c) \/ c.st = STATE_SYN_SENT
  BY <1>2 DEF Comes
<1> HIDE DEF x
<1>4. ToServer(c) \subseteq ToServer(x)
  <2> SUFFICES ASSUME NEW m \in ToServer(c) PROVE m \in ToServer(x)
    OBVIOUS
  <2>1. /\ m \in Segments /\ (SYN \in m.fl => m.fl = {SYN}) /\ (c.st = STATE_SYN_SENT => m.fl = {SYN})
        /\ (Live(c) => RST \notin m.fl)
    BY DEF ToServer
  <2> QED BY <1>3, <2>1 DEF ToServer
<1>5. S \subseteq ToServer(x)
  <2>1. CASE x.st = STATE_SYN_SENT
    <3>1. ~Live(x) BY <2>1 DEF Live
    <3>2. S = Syns BY <2>1
    <3> QED BY <3>1, <3>2 DEF Syns, ToServer
  <2>2. CASE x.st # STATE_SYN_SENT
    <3>1. S = Speech(x) BY <2>2
    <3> QED BY <2>2, <3>1 DEF Speech, ToServer
  <2> QED BY <2>1, <2>2
<1>6. x.st = STATE_SYN_SENT => S \subseteq Syns BY DEF Syns
<1>7. x.st # STATE_SYN_SENT => S \subseteq Later BY DEF Speech, Later
<1>8. ToServer(x) \subseteq Segments /\ Syns \subseteq Segments BY DEF ToServer, Syns
<1> HIDE DEF S
<1>9. ns \in Seq(ToServer(x)) /\ r.out \in Seq(ToServer(x)) BY <1>1, <1>2, <1>4, <1>5, Widen
<1>10. Transmit(ns, r.out) \in Seq(ToServer(x)) BY <1>9, Prefix
<1>11. ns \in Seq(Segments) BY <1>8, <1>9, Widen
<1>12. Ordered(Transmit(ns, r.out))
  <2>1. CASE x.st # STATE_SYN_SENT
    <3>1. r.out \in Seq(Later) BY <1>2, <1>7, <2>1, Widen
    <3> QED BY <1>1, <1>11, <3>1, OrderedGrows
  <2>2. CASE x.st = STATE_SYN_SENT
    <3>1. r.out \in Seq(Syns) BY <1>2, <1>6, <2>2, Widen
    <3>2. ToServer(x) \subseteq Syns BY <2>2 DEF ToServer, Syns
    <3>3. ns \in Seq(Syns) BY <1>9, <3>2, Widen
    <3> QED BY <1>1, <1>11, <3>1, <3>3, OrderedGrows
  <2> QED BY <2>1, <2>2
<1>13. Opened(d, a) => x.st # STATE_SYN_SENT /\ Transmit(ns, r.out) \in Seq(Later)
  <2> SUFFICES ASSUME Opened(d, a) PROVE x.st # STATE_SYN_SENT /\ Transmit(ns, r.out) \in Seq(Later)
    OBVIOUS
  <2>1. x.st # STATE_SYN_SENT /\ ns \in Seq(Later) BY <1>1, <1>3
  <2>2. r.out \in Seq(Later) BY <1>2, <1>7, <2>1, Widen
  <2> QED BY <2>1, <2>2, Prefix
<1>14. nc \in Seq(ToClient(i, x))
  <2>1. ToClient(i, c) \subseteq ToClient(i, x) BY <1>3 DEF ToClient
  <2> QED BY <1>1, <2>1, Widen
<1> QED BY <1>1, <1>3, <1>10, <1>12, <1>13, <1>14 DEF Once, x

LEMMA OnceLost ==
  ASSUME NEW i, NEW c, NEW d, NEW ns, NEW nc, NEW a, NEW g, Once(i, c, d, ns, nc, a, g)
  PROVE  /\ ns # << >> => Once(i, c, d, Tail(ns), nc, a, g)
         /\ nc # << >> => Once(i, c, d, ns, Tail(nc), a, g) /\ Head(nc) \in ToClient(i, c)
<1>1. /\ Calm(c)
      /\ ns \in Seq(ToServer(c)) /\ Ordered(ns) /\ nc \in Seq(ToClient(i, c)) /\ Mute(d)
      /\ a \notin {"opening", "failed"}
      /\ Opened(d, a) => d.st # STATE_SYN_RECEIVED /\ c.st # STATE_SYN_SENT /\ ns \in Seq(Later)
      /\ d.st = STATE_LAST_ACK => a # "idle"
      /\ d.st = STATE_ESTABLISHED => d.taken = d.most
      /\ a = "idle" => g = 0
      /\ a \in {"idle", "open"} /\ (d.st = STATE_ESTABLISHED \/ d.rcount # 0) => d.taken - d.rcount = g
  BY DEF Once
<1>2. ASSUME ns # << >> PROVE Once(i, c, d, Tail(ns), nc, a, g)
  <2> DEFINE q == Tail(ns)
  <2>1. ToServer(c) \subseteq Segments BY DEF ToServer
  <2>2. q \in Seq(ToServer(c)) BY <1>1, <1>2, Behead
  <2>3. Ordered(q) BY <1>1, <1>2, <2>1, OrderedTail
  <2>4. ns \in Seq(Later) => q \in Seq(Later) BY <1>2, Behead
  <2> HIDE DEF q
  <2>5. Opened(d, a) => q \in Seq(Later) BY <1>1, <2>4
  <2> QED BY <1>1, <2>2, <2>3, <2>5 DEF Once, q
<1>3. ASSUME nc # << >> PROVE Once(i, c, d, ns, Tail(nc), a, g) /\ Head(nc) \in ToClient(i, c)
  <2> DEFINE q == Tail(nc)
  <2>1. q \in Seq(ToClient(i, c)) /\ Head(nc) \in ToClient(i, c) BY <1>1, <1>3, Behead
  <2> HIDE DEF q
  <2> QED BY <1>1, <2>1 DEF Once, q
<1> QED BY <1>2, <1>3

(* The connection, and what programs have read.                             *)
Conn(i) == Once(i, sk[Client], sk[Server], net[Server], net[Client], app[Server], got[Server])
Counted(i) == Inv(i) /\ got \in [Host -> Int] /\ Conn(i)
Serial == Short /\ Quiet /\ ~Routed /\ LongSpace = SeqSpace

LEMMA Moves ==
  ASSUME NEW i \in Isn, Inv(i), NEW h \in Host, NEW r, NEW q, Apply(h, r, q)
  PROVE  /\ sk'[h] = r.c /\ sk'[Peer(h)] = sk[Peer(h)]
         /\ net'[h] = q /\ net'[Peer(h)] = Transmit(net[Peer(h)], r.out)
<1>1. Peer(h) \in Host /\ Peer(h) # h BY Hosts
<1>2. sk' = [sk EXCEPT ![h] = r.c] /\ net' = [net EXCEPT ![h] = q, ![Peer(h)] = Transmit(@, r.out)]
  BY DEF Apply
<1>3. sk \in [Host -> Socket] /\ net = [g \in Host |-> net[g]] BY Facts
<1> QED BY <1>1, <1>2, <1>3

LEMMA ClientOnce ==
  ASSUME Serial, NEW i \in Isn, Counted(i), NEW r, NEW q, Apply(Client, r, q), Weak(sk[Client], r),
         q = net[Client] \/ (net[Client] # << >> /\ q = Tail(net[Client])),
         app'[Server] = app[Server], got'[Server] = got[Server]
  PROVE  Conn(i)'
<1> DEFINE c == sk[Client]  d == sk[Server]  ns == net[Server]  nc == net[Client]
           a == app[Server]  g == got[Server]
<1>1. Once(i, c, d, ns, nc, a, g) /\ ~Routed BY DEF Counted, Conn, Serial
<1>2. sk'[Client] = r.c /\ sk'[Server] = d /\ net'[Client] = q /\ net'[Server] = Transmit(ns, r.out)
  BY Moves, Hosts DEF Counted
<1>3. Weak(c, r) /\ (q = nc \/ (nc # << >> /\ q = Tail(nc))) OBVIOUS
<1>4. app'[Server] = a /\ got'[Server] = g OBVIOUS
<1> HIDE DEF c, d, ns, nc, a, g
<1>5. Once(i, c, d, ns, q, a, g) BY <1>1, <1>3, OnceLost
<1>6. Once(i, r.c, d, Transmit(ns, r.out), q, a, g) BY <1>1, <1>3, <1>5, OnceSpeaks
<1> QED BY <1>2, <1>4, <1>6 DEF Conn

LEMMA ServerAcks ==
  ASSUME NEW i \in Isn, Counted(i)
  PROVE  /\ Mute(sk[Server]) /\ Calm(sk[Client]) /\ ~sk[Client].par
         /\ sk[Server].st = STATE_SYN_RECEIVED => sk[Server].ack = Num(i, 1)
         /\ sk[Server].most >= 0 /\ got[Server] \in Int /\ sk[Server].rcount \in Int
         /\ app[Server] \notin {"opening", "failed"}
<1>1. Mute(sk[Server]) /\ Calm(sk[Client]) /\ app[Server] \notin {"opening", "failed"}
  BY DEF Counted, Conn, Once
<1>2. Receiver(i, sk[Server], Total[Client], Past(sk[Client]))
      /\ Sender(i, sk[Client], wrote[Client], sk[Server].most)
      /\ sk[Server] \in Socket
  BY Facts DEF Counted
<1>3. sk[Server].st = STATE_SYN_RECEIVED => sk[Server].ack = Num(i, 1 + sk[Server].taken) /\ sk[Server].taken = 0
  BY <1>1, <1>2 DEF Receiver, Mute, Own
<1>4. 1 + 0 = 1 OBVIOUS
<1>5. sk[Server].most >= 0 /\ sk[Server].rcount \in Int BY <1>2 DEF Receiver, Socket
<1>6. got[Server] \in Int BY Hosts DEF Counted
<1> QED BY <1>1, <1>2, <1>3, <1>4, <1>5, <1>6 DEF Sender

LEMMA ServerOnce ==
  ASSUME Serial, NEW i \in Isn, Counted(i), NEW r, Apply(Server, r, net[Server]),
         NEW n, Keeps(sk[Server], r, n) \/ Drops(sk[Server], r) \/ (Fins(sk[Server], r) /\ app[Server] # "idle"),
         NEW b, b \notin {"opening", "failed"}, b # "idle" \/ b = app[Server],
         app[Server] # "idle" \/ b = app[Server] \/ sk[Server].st = STATE_ESTABLISHED,
         NEW h \in Int, b = "idle" => h = got[Server],
         b \in {"idle", "open"} => /\ app[Server] \in {"idle", "open"}
                                   /\ Keeps(sk[Server], r, n) \/ Drops(sk[Server], r)
                                   /\ n \in Int /\ sk[Server].rcount - n = h - got[Server]
                                   /\ (n # 0 => sk[Server].rcount # 0),
         app'[Server] = b, got'[Server] = h
  PROVE  Conn(i)'
<1> DEFINE c == sk[Client]  d == sk[Server]  ns == net[Server]  nc == net[Client]
           a == app[Server]  g == got[Server]
<1>1. Once(i, c, d, ns, nc, a, g) /\ ~Routed BY DEF Counted, Conn, Serial
<1>2. sk'[Server] = r.c /\ sk'[Client] = c /\ net'[Server] = ns /\ net'[Client] = Transmit(nc, r.out)
  BY Moves, Hosts DEF Counted
<1>3. (d.st = STATE_SYN_RECEIVED => d.ack = Num(i, 1)) /\ g \in Int BY ServerAcks
<1>4. /\ Keeps(d, r, n) \/ Drops(d, r) \/ (Fins(d, r) /\ a # "idle")
      /\ b \notin {"opening", "failed"} /\ (b # "idle" \/ b = a)
      /\ (a # "idle" \/ b = a \/ d.st = STATE_ESTABLISHED)
      /\ (b = "idle" => h = g) /\ h \in Int
      /\ (b \in {"idle", "open"} => /\ a \in {"idle", "open"} /\ (Keeps(d, r, n) \/ Drops(d, r))
                                   /\ n \in Int /\ g \in Int /\ d.rcount - n = h - g /\ (n # 0 => d.rcount # 0))
  BY <1>3
<1> HIDE DEF c, d, ns, nc, a, g
<1>5. Once(i, c, r.c, ns, Transmit(nc, r.out), b, h) BY ONLY <1>1, <1>3, <1>4, OnceMoves
<1> QED BY <1>2, <1>5 DEF Conn

LEMMA DeliverOnce ==
  ASSUME Serial, NEW i \in Isn, Counted(i), NEW h \in Host, DeliverNext(h) \/ DeliverAny(h)
  PROVE  Conn(i)'
<1> DEFINE m == Head(net[h])  q == Tail(net[h])
<1>1. ~Routed /\ net[h] # << >> /\ Receive(h, m, q) BY DEF Serial, DeliverNext, DeliverAny
<1>2. PICK isn \in Isn : Apply(h, Tcp(sk[h], m, isn), q) BY <1>1 DEF Receive
<1>3. app' = app /\ got' = got BY <1>1 DEF Receive
<1>4. Inv(i) /\ Conn(i) BY DEF Counted
<1>5. CASE h = Client
  <2>1. Sender(i, sk[Client], wrote[Client], sk[Server].most) /\ Calm(sk[Client]) /\ i \in Words
    BY <1>4, Facts, ServerAcks
  <2>2. m \in ToClient(i, sk[Client]) BY <1>1, <1>4, <1>5, OnceLost DEF Conn
  <2>3. m.len = 0
    <3>1. net[Client] \in Queues(FromServer(i, sk[Server].most, Past(sk[Client]))) BY <1>4, Facts
    <3>2. m \in FromServer(i, sk[Server].most, Past(sk[Client])) BY <1>1, <1>5, <3>1, Taken
    <3> QED BY <3>2 DEF FromServer, Serial
  <2>4. LongSpace = SeqSpace BY DEF Serial
  <2> DEFINE c == sk[Client]
  <2>5. \E e : Turns(c, m, e) /\ Utters(e, Tcp(c, m, isn)) BY <2>1, <2>2, <2>3, <2>4, CTcp
  <2>6. Weak(c, Tcp(c, m, isn))
    <3>1. PICK e : Turns(c, m, e) /\ Utters(e, Tcp(c, m, isn)) BY <2>5
    <3>2. Comes(c, e) BY <3>1 DEF Turns, Rests, Connects, Settles, Lingers, Dies, Gone
    <3> QED BY <3>1, <3>2, UtterWeak
  <2> QED BY <1>1, <1>2, <1>3, <1>5, <2>6, ClientOnce
<1>6. CASE h = Server
  <2> DEFINE d == sk[Server]  c == sk[Client]  ns == net[Server]  nc == net[Client]
             r == Tcp(d, m, isn)
  <2>1. /\ i \in Words /\ wrote[Client] \in 0 .. Total[Client] /\ Past(c) \in BOOLEAN
        /\ Receiver(i, d, Total[Client], Past(c)) /\ net[Server] \in Queues(FromClient(i, wrote[Client], Past(c)))
    BY <1>4, Facts
  <2>2. m \in FromClient(i, wrote[Client], Past(c)) BY <1>1, <1>6, <2>1, Taken
  <2>3. Mute(d) /\ (d.st = STATE_SYN_RECEIVED => d.ack = Num(i, 1)) /\ d.most >= 0 /\ got[Server] \in Int
    BY ServerAcks
  <2>4. Once(i, c, d, ns, nc, app[Server], got[Server]) BY <1>4 DEF Conn
  <2>5. SYN \in m.fl => m.fl = {SYN}
    <3>1. ns \in Seq(ToServer(c)) BY <2>4 DEF Once
    <3>2. m \in ToServer(c) BY <1>1, <1>6, <3>1, Behead
    <3> QED BY <3>2 DEF ToServer
  <2>6. Hearing(d, m, r)
    <3>1. Total[Client] < SeqSpace /\ isn \in Words BY Hosts DEF Serial, Short
    <3> HIDE DEF d, c, ns, nc
    <3> QED BY <2>1, <2>2, <2>3, <2>5, <3>1, STcp
  <2>7. RST \notin m.fl /\ SYN \in m.fl => m.seq = i BY <2>2 DEF FromClient
  <2>8. /\ sk'[Server] = r.c /\ sk'[Client] = c /\ net'[Server] = Tail(ns)
        /\ net'[Client] = Transmit(nc, r.out)
    BY <1>2, <1>4, <1>6, Moves, Hosts
  <2>9. m = Head(ns) /\ ns # << >> BY <1>1, <1>6
  <2> HIDE DEF d, c, ns, nc, r, m
  <2>10. Once(i, c, r.c, Tail(ns), Transmit(nc, r.out), app[Server], got[Server])
    BY <1>1, <2>3, <2>4, <2>6, <2>7, <2>9, OnceHears
  <2> QED BY <1>3, <2>8, <2>10 DEF Conn
<1> QED BY <1>5, <1>6, Hosts

LEMMA LoseOnce ==
  ASSUME NEW i \in Isn, Counted(i), NEW h \in Host, Lose(h)
  PROVE  Conn(i)'
<1>1. Inv(i) /\ Conn(i) BY DEF Counted
<1>2. /\ net[h] # << >> /\ net' = [net EXCEPT ![h] = Tail(@)] /\ sk' = sk /\ app' = app /\ got' = got
  BY DEF Lose
<1>3. net = [g \in Host |-> net[g]] BY <1>1, Facts
<1>4. net'[h] = Tail(net[h]) /\ (\A g \in Host : g # h => net'[g] = net[g]) BY <1>2, <1>3
<1>5. Once(i, sk[Client], sk[Server], net[Server], net[Client], app[Server], got[Server]) BY <1>1 DEF Conn
<1>6. CASE h = Client
  <2>1. Once(i, sk[Client], sk[Server], net[Server], Tail(net[Client]), app[Server], got[Server])
    BY <1>2, <1>5, <1>6, OnceLost
  <2>2. net'[Client] = Tail(net[Client]) /\ net'[Server] = net[Server] BY <1>4, <1>6, Hosts
  <2> QED BY <1>2, <2>1, <2>2 DEF Conn
<1>7. CASE h = Server
  <2>1. Once(i, sk[Client], sk[Server], Tail(net[Server]), net[Client], app[Server], got[Server])
    BY <1>2, <1>5, <1>7, OnceLost
  <2>2. net'[Server] = Tail(net[Server]) /\ net'[Client] = net[Client] BY <1>4, <1>7, Hosts
  <2> QED BY <1>2, <2>1, <2>2 DEF Conn
<1> QED BY <1>6, <1>7, Hosts

LEMMA CheckOnce ==
  ASSUME Serial, NEW i \in Isn, Counted(i), NEW h \in Host, NEW expired \in BOOLEAN, Check(h, expired)
  PROVE  Conn(i)'
<1>1. Apply(h, CheckSockets(sk[h], expired), net[h]) /\ app' = app /\ got' = got BY DEF Check
<1>2. Inv(i) BY DEF Counted
<1>3. CASE h = Client
  <2>1. /\ i \in Words /\ wrote[Client] \in Nat /\ sk[Server].most \in Int
        /\ Sender(i, sk[Client], wrote[Client], sk[Server].most) /\ Calm(sk[Client])
    BY <1>2, Facts, ServerAcks
  <2>2. Weak(sk[Client], CheckSockets(sk[Client], expired)) BY <2>1, CChecks
  <2> QED BY <1>1, <1>3, <2>2, ClientOnce
<1>4. CASE h = Server
  <2> DEFINE r == CheckSockets(sk[Server], expired)
             n == sk[Server].rcount
             b == app[Server]
             g == got[Server]
  <2>1. Keeps(sk[Server], r, n) \/ Drops(sk[Server], r) BY ServerAcks, SChecks
  <2>2. n \in Int /\ g \in Int /\ n - n = g - g /\ b \notin {"opening", "failed"} BY ServerAcks
  <2>3. Apply(Server, r, net[Server]) /\ app'[Server] = b /\ got'[Server] = g BY <1>1, <1>4
  <2>4. sk[Server].rcount - n = g - got[Server] BY <2>2
  <2>5. n # 0 => sk[Server].rcount # 0 OBVIOUS
  <2>6. (b = app[Server]) /\ (b = "idle" => g = got[Server]) OBVIOUS
  <2> HIDE DEF r, n, b, g
  <2>7. b \in {"idle", "open"} => app[Server] \in {"idle", "open"} BY <2>6
  <2> QED BY <2>1, <2>2, <2>3, <2>4, <2>5, <2>6, <2>7, ServerOnce
<1> QED BY <1>3, <1>4, Hosts

(* A program's call that reads nothing.                                     *)
LEMMA ProgramOnce ==
  ASSUME Serial, NEW i \in Isn, Counted(i), NEW h \in Host, NEW from, NEW to, NEW r,
         Program(h, from, to, r), got' = got,
         h = Client => Weak(sk[Client], r),
         h = Server =>
           /\ to \notin {"idle", "opening", "failed"}
           /\ \/ Drops(sk[Server], r) /\ to # "open"
              \/ \E n : Keeps(sk[Server], r, n) /\ (to # "open" \/ n = sk[Server].rcount)
              \/ Fins(sk[Server], r) /\ from # "idle" /\ to # "open"
           /\ from # "idle" \/ sk[Server].st = STATE_ESTABLISHED
           /\ to = "open" => from \in {"idle", "open"}
  PROVE  Conn(i)'
<1>1. app[h] = from /\ app' = [app EXCEPT ![h] = to] /\ Apply(h, r, net[h]) BY DEF Program
<1>2. app \in [Host -> AppStates] /\ Inv(i) BY Facts DEF Counted
<1>3. CASE h = Client
  <2>1. app'[Server] = app[Server] BY <1>1, <1>2, <1>3, Hosts
  <2> QED BY <1>1, <1>3, <2>1, ClientOnce
<1>4. CASE h = Server
  <2>1. app'[Server] = to /\ app[Server] = from BY <1>1, <1>2, <1>4, Hosts
  <2> DEFINE d == sk[Server]  g == got[Server]
  <2>2. Drops(d, r) \/ (\E n : Keeps(d, r, n)) \/ Fins(d, r) BY <1>4
  <2>3. PICK n : /\ Keeps(d, r, n) \/ Drops(d, r) \/ (Fins(d, r) /\ from # "idle")
                 /\ to = "open" => Keeps(d, r, n) /\ n = d.rcount
    BY <1>4
  <2>4. d.rcount \in Int /\ g \in Int BY ServerAcks
  <2>5. Apply(Server, r, net[Server]) /\ got'[Server] = g BY <1>1, <1>4
  <2>6. /\ to \notin {"opening", "failed"} /\ to # "idle"
        /\ from # "idle" \/ d.st = STATE_ESTABLISHED
        /\ to = "open" => from \in {"idle", "open"}
    BY <1>4
  <2>7. to \in {"idle", "open"} => /\ from \in {"idle", "open"}
                                   /\ Keeps(d, r, n) \/ Drops(d, r)
                                   /\ n \in Int /\ d.rcount - n = g - g /\ (n # 0 => d.rcount # 0)
    BY <2>3, <2>4, <2>6
  <2>8. /\ Keeps(sk[Server], r, n) \/ Drops(sk[Server], r) \/ (Fins(sk[Server], r) /\ app[Server] # "idle")
        /\ to \notin {"opening", "failed"} /\ (to # "idle" \/ to = app[Server])
        /\ (app[Server] # "idle" \/ to = app[Server] \/ sk[Server].st = STATE_ESTABLISHED)
        /\ g \in Int /\ (to = "idle" => g = got[Server])
        /\ (to \in {"idle", "open"} => /\ app[Server] \in {"idle", "open"}
                                       /\ Keeps(sk[Server], r, n) \/ Drops(sk[Server], r)
                                       /\ n \in Int /\ sk[Server].rcount - n = g - got[Server]
                                       /\ (n # 0 => sk[Server].rcount # 0))
        /\ app'[Server] = to /\ got'[Server] = g
    BY <2>1, <2>3, <2>4, <2>5, <2>6, <2>7
  <2> HIDE DEF d, g
  <2>9. Serial /\ Counted(i) /\ i \in Isn /\ Apply(Server, r, net[Server]) BY <2>5
  <2> QED BY ONLY <2>8, <2>9, ServerOnce
<1> QED BY <1>3, <1>4, Hosts

LEMMA OpeningOnce == ASSUME Serial, NEW i \in Isn, Counted(i), Connected \/ Accept PROVE Conn(i)'
<1>1. Calm(sk[Client]) /\ Mute(sk[Server]) BY ServerAcks
<1>2. CASE Connected
  <2> DEFINE to == IF sk[Client].st = STATE_CLOSED THEN "failed" ELSE "open"
  <2>1. Program(Client, "opening", to, Done(sk[Client])) /\ got' = got BY <1>2 DEF Connected
  <2>2. Weak(sk[Client], Done(sk[Client])) BY <1>1, WeakSelf, UtterWeak
  <2> HIDE DEF to
  <2> QED BY <2>1, <2>2, Hosts, ProgramOnce
<1>3. CASE Accept
  <2>1. Program(Server, "idle", "open", Done(sk[Server])) /\ got' = got /\ sk[Server].st = STATE_ESTABLISHED
    BY <1>3 DEF Accept
  <2>2. Keeps(sk[Server], Done(sk[Server]), sk[Server].rcount) BY <1>1, MuteStays
  <2> QED BY <2>1, <2>2, Hosts, ProgramOnce
<1> QED BY <1>2, <1>3

LEMMA WriteOnce == ASSUME Serial, NEW i \in Isn, Counted(i), NEW h \in Host, Write(h) PROVE Conn(i)'
<1>1. PICK n \in 1 .. (Total[h] - wrote[h]) : Program(h, "open", "open", Done(WriteTcpBytes(sk[h], n)))
  BY DEF Write
<1>2. got' = got BY DEF Write
<1>3. Inv(i) BY DEF Counted
<1>4. h # Server
  <2>1. h = Server => Total[h] - wrote[h] = 0 BY <1>3, Facts, Hosts DEF Serial, Quiet
  <2> QED BY <2>1
<1>5. h = Client BY <1>4, Hosts
<1>6. n \in Nat OBVIOUS
<1>7. Weak(sk[Client], Done(WriteTcpBytes(sk[Client], n)))
  <2>1. Sender(i, sk[Client], wrote[Client], sk[Server].most) /\ Calm(sk[Client]) BY <1>3, Facts, ServerAcks
  <2>2. Fills(sk[Client], WriteTcpBytes(sk[Client], n))
        /\ Utters(WriteTcpBytes(sk[Client], n), Done(WriteTcpBytes(sk[Client], n)))
    BY <1>6, <2>1, CWrites
  <2> QED BY <2>2, UtterWeak DEF Fills
<1> QED BY <1>1, <1>2, <1>4, <1>5, <1>7, ProgramOnce

LEMMA ReadOnce == ASSUME Serial, NEW i \in Isn, Counted(i), NEW h \in Host, Read(h) PROVE Conn(i)'
<1>1. PICK n \in 0 .. sk[h].rcount : /\ Program(h, "open", "open", SockRead(sk[h], n))
                                     /\ got' = [got EXCEPT ![h] = @ + n]
  BY DEF Read
<1>2. Inv(i) /\ got \in [Host -> Int] BY DEF Counted
<1>3. Calm(sk[Client]) /\ Mute(sk[Server]) BY ServerAcks
<1>4. CASE h = Client
  <2>1. n = 0 /\ \E e : Rests(sk[Client], e) /\ Utters(e, SockRead(sk[Client], n)) BY <1>3, <1>4, CReads
  <2>2. Weak(sk[Client], SockRead(sk[Client], n)) BY <2>1, UtterWeak DEF Rests
  <2>3. got' = got
    <3>1. got[h] + n = got[h] BY <1>2, <2>1
    <3> QED BY <1>1, <1>2, <3>1
  <2> QED BY <1>1, <1>4, <2>2, <2>3, Hosts, ProgramOnce
<1>5. CASE h = Server
  <2> DEFINE d == sk[Server]  r == SockRead(d, n)  k == d.rcount - n  b == "open"  t == got[Server] + n
  <2>1. Keeps(d, r, k) BY <1>3, <1>5, SReads
  <2>2. d.rcount \in Int /\ got[Server] \in Int /\ n \in Int BY <1>5, ServerAcks
  <2>3. k \in Int /\ t \in Int /\ d.rcount - k = t - got[Server] /\ (k # 0 => d.rcount # 0)
    BY <1>5, <2>2
  <2>4. /\ app[Server] = "open" /\ app' = [app EXCEPT ![Server] = "open"] /\ Apply(Server, r, net[Server])
        /\ got' = [got EXCEPT ![Server] = t]
    BY <1>1, <1>5 DEF Program
  <2>5. app \in [Host -> AppStates] BY <1>2, Facts
  <2>6. app'[Server] = b /\ got'[Server] = t BY <1>2, <2>4, <2>5, Hosts
  <2>7. b \notin {"opening", "failed"} /\ b # "idle" /\ b = app[Server] BY <2>4
  <2> HIDE DEF r, k, t, b
  <2>8. app[Server] # "idle" /\ (b \in {"idle", "open"} => app[Server] \in {"idle", "open"}) BY <2>7
  <2> QED BY <2>1, <2>3, <2>4, <2>6, <2>7, <2>8, ServerOnce
<1> QED BY <1>4, <1>5, Hosts

LEMMA CloseOnce == ASSUME Serial, NEW i \in Isn, Counted(i), NEW h \in Host, Close(h) PROVE Conn(i)'
<1> DEFINE c == [sk[h] EXCEPT !.rcount = 0]
           gone == c.st < STATE_ESTABLISHED
           to == IF gone THEN "closed" ELSE IF Flushed(c) THEN "fin" ELSE "flushing"
           r == Done(IF gone THEN Nuke(c) ELSE c)
<1>1. PICK from \in {"open", "failed"} : Program(h, from, to, r) BY DEF Close
<1>2. got' = got BY DEF Close
<1>3. to \notin {"idle", "opening", "failed"} /\ to # "open" OBVIOUS
<1> HIDE DEF to
<1>4. Calm(sk[Client]) /\ ~sk[Client].par /\ Mute(sk[Server]) BY ServerAcks
<1>5. ASSUME h = Client PROVE Weak(sk[Client], r)
  <2>1. Weak(sk[Client], Done(c)) /\ Weak(sk[Client], Done(Nuke(c)))
    BY <1>4, <1>5, CEnds, UtterWeak DEF Rests, Wipes, Gone
  <2> HIDE DEF c, gone
  <2> QED BY <2>1
<1>6. ASSUME h = Server PROVE Drops(sk[Server], r) \/ \E n : Keeps(sk[Server], r, n)
  <2>1. Keeps(sk[Server], Done(c), 0) /\ Drops(sk[Server], Done(Nuke(c))) BY <1>4, <1>6, SCloses
  <2> HIDE DEF c, gone
  <2> QED BY <2>1
<1> HIDE DEF r
<1> QED BY <1>1, <1>2, <1>3, <1>5, <1>6, ProgramOnce

LEMMA EndingOnce ==
  ASSUME Serial, NEW i \in Isn, Counted(i), NEW h \in Host, Flush(h) \/ Fin(h) \/ CloseEnds(h)
  PROVE  Conn(i)'
<1>1. Calm(sk[Client]) /\ ~sk[Client].par /\ Mute(sk[Server]) BY ServerAcks
<1>2. CASE Flush(h)
  <2>1. Program(h, "flushing", "fin", Done(sk[h])) /\ got' = got BY <1>2 DEF Flush
  <2>2. Weak(sk[Client], Done(sk[Client])) BY <1>1, WeakSelf, UtterWeak
  <2>3. Keeps(sk[Server], Done(sk[Server]), sk[Server].rcount) BY <1>1, MuteStays
  <2> QED BY <2>1, <2>2, <2>3, ProgramOnce
<1>3. CASE Fin(h)
  <2> DEFINE to == IF sk[h].st = STATE_PEER_RESET THEN "closed" ELSE "last"
  <2>1. Program(h, "fin", to, SendFin(sk[h])) /\ got' = got BY <1>3 DEF Fin
  <2>2. to \notin {"idle", "opening", "failed"} /\ to # "open" OBVIOUS
  <2> HIDE DEF to
  <2>3. Weak(sk[Client], SendFin(sk[Client]))
    <3>1. PICK e : Lasts(sk[Client], e) /\ Utters(e, SendFin(sk[Client])) BY <1>1, CEnds
    <3> QED BY <3>1, UtterWeak DEF Lasts
  <2>4. Fins(sk[Server], SendFin(sk[Server])) BY <1>1, SFin
  <2> QED BY <2>1, <2>2, <2>3, <2>4, ProgramOnce
<1>4. CASE CloseEnds(h)
  <2>1. Program(h, "last", "closed", Done(Nuke(sk[h]))) /\ got' = got BY <1>4 DEF CloseEnds
  <2>2. Weak(sk[Client], Done(Nuke(sk[Client]))) BY <1>1, CEnds, UtterWeak DEF Wipes, Gone
  <2>3. Drops(sk[Server], Done(Nuke(sk[Server]))) BY <1>1, SNukes
  <2> QED BY <2>1, <2>2, <2>3, ProgramOnce
<1> QED BY <1>2, <1>3, <1>4

(* Every step of a connection keeps what was read in step with the ring.    *)
LEMMA StepOnce == ASSUME Serial, NEW i \in Isn, Counted(i), [Next]_vars PROVE Counted(i)'
<1>1. Inv(i) /\ got \in [Host -> Int] /\ Conn(i) BY DEF Counted
<1>2. Inv(i)' BY <1>1, StepInv DEF Serial
<1>3. app[Client] # "idle" BY <1>1, Facts
<1>4. ~Connect BY <1>3 DEF Connect, Program
<1>5. got' \in [Host -> Int]
  <2>1. ASSUME NEW h \in Host, Read(h) PROVE got' \in [Host -> Int]
    <3>1. PICK n \in 0 .. sk[h].rcount : got' = [got EXCEPT ![h] = @ + n] BY <2>1 DEF Read
    <3>2. got[h] + n \in Int BY <1>1
    <3> QED BY <1>1, <3>1, <3>2
  <2>2. ASSUME NEW h \in Host,
               \/ DeliverNext(h) \/ DeliverAny(h) \/ Lose(h) \/ Check(h, FALSE) \/ Check(h, TRUE)
               \/ Write(h) \/ Close(h) \/ Flush(h) \/ Fin(h) \/ CloseEnds(h)
        PROVE  got' = got
    BY <2>2 DEF DeliverNext, DeliverAny, Receive, Lose, Check, Write, Close, Flush, Fin, CloseEnds
  <2>3. Connected \/ Accept \/ Idle \/ UNCHANGED vars => got' = got
    BY DEF Connected, Accept, Idle, vars
  <2> QED BY <1>1, <1>4, <2>1, <2>2, <2>3 DEF Next
<1>6. Conn(i)'
  <2>1. UNCHANGED vars => Conn(i)' BY <1>1 DEF vars, Conn
  <2>2. Idle => UNCHANGED vars BY DEF Idle
  <2>3. ASSUME NEW h \in Host,
               \/ DeliverNext(h) \/ DeliverAny(h) \/ Lose(h) \/ Check(h, FALSE) \/ Check(h, TRUE)
               \/ Write(h) \/ Read(h) \/ Close(h) \/ Flush(h) \/ Fin(h) \/ CloseEnds(h)
        PROVE  Conn(i)'
    BY <2>3, DeliverOnce, LoseOnce, CheckOnce, WriteOnce, ReadOnce, CloseOnce, EndingOnce
  <2> QED BY <1>4, <2>1, <2>2, <2>3, OpeningOnce DEF Next
<1> QED BY <1>2, <1>5, <1>6 DEF Counted

LEMMA ConnectOnce ==
  ASSUME Serial, Start, got = [h \in Host |-> 0], Connect
  PROVE  \E i \in Isn : Counted(i)'
<1>1. PICK i \in Isn : Program(Client, "idle", "opening", TcpOpen(sk[Client], i)) BY DEF Connect
<1>2. Inv(i)' BY <1>1, ConnectStep DEF Connect
<1>3. /\ sk = [h \in Host |-> IF h = Server THEN Child ELSE Blank] /\ app = [h \in Host |-> "idle"]
      /\ net = [h \in Host |-> << >>] /\ got' = [h \in Host |-> 0]
  BY DEF Start, Serial, Connect
<1> DEFINE r == TcpOpen(Blank, i)  c == r.c
<1>4. /\ Apply(Client, r, << >>) /\ app' = [app EXCEPT ![Client] = "opening"]
  BY <1>1, <1>3, Hosts DEF Program
<1>5. Calm(c) /\ c.st = STATE_SYN_SENT /\ r.out \in Seq(Syns) BY Hosts, COpens
<1> HIDE DEF r
<1>6. /\ sk' = [sk EXCEPT ![Client] = c]
      /\ net' = [net EXCEPT ![Client] = << >>, ![Server] = Transmit(<< >>, r.out)]
  BY <1>3, <1>4, Hosts DEF Apply
<1>7. /\ sk'[Client] = c /\ sk'[Server] = Child /\ net'[Client] = << >>
      /\ net'[Server] = Transmit(<< >>, r.out) /\ app'[Server] = "idle" /\ got'[Server] = 0
  BY <1>3, <1>4, <1>6, Hosts
<1>8. Blank \in Socket /\ Child \in Socket
  <2>1. 0 \in Words BY TcpAssumption DEF Words
  <2>2. STATE_NOTINIT \in Reached BY DEF Reached
  <2>3. Blank \in Socket BY <2>1, <2>2, Known DEF Blank, Socket
  <2> QED BY <2>3, Known, Zenon DEF Child, Socket
<1>9. /\ Child.st = STATE_LISTEN /\ Child.par /\ Child.wcount = 0 /\ Child.dlen = 0
      /\ Child.most = 0 /\ Child.err = 0 /\ Child.flags = {} /\ Child.rcount = 0 /\ Child.taken = 0
  <2>1. /\ Child.st = STATE_LISTEN /\ Child.par /\ Child.wcount = Blank.wcount /\ Child.dlen = Blank.dlen
        /\ Child.most = Blank.most /\ Child.err = Blank.err /\ Child.flags = Blank.flags
        /\ Child.rcount = Blank.rcount /\ Child.taken = Blank.taken
    BY <1>8, Zenon DEF Child, Socket
  <2> QED BY <2>1 DEF Blank
<1>10. Mute(Child) BY <1>8, <1>9, Known, TcpAssumption DEF Mute, Own
<1>11. ~Opened(Child, "idle") /\ Child.st # STATE_LAST_ACK /\ Child.st # STATE_ESTABLISHED
  BY <1>9 DEF Opened
<1>12. Syns \subseteq ToServer(c) /\ Syns \subseteq Segments BY <1>5 DEF Syns, ToServer, Live
<1>13. << >> \in Seq(Syns) /\ << >> \in Seq(ToClient(i, c)) OBVIOUS
<1> DEFINE q == Transmit(<< >>, r.out)
<1>14. q \in Seq(Syns) BY <1>5, <1>13, Prefix DEF Serial
<1> HIDE DEF q, c
<1>15. q \in Seq(ToServer(c)) BY <1>12, <1>14, Widen
<1>16. Ordered(q)
  <2>1. \A k \in 1 .. Len(q) : q[k] \in Syns BY ONLY <1>14
  <2>2. \A k \in 1 .. Len(q) : q[k].fl = {SYN} BY <2>1 DEF Syns
  <2>3. Len(q) \in Nat BY ONLY <1>14
  <2> QED BY <2>2, <2>3 DEF Ordered
<1>17. Once(i, c, Child, q, << >>, "idle", 0)
  BY <1>5, <1>9, <1>10, <1>11, <1>13, <1>15, <1>16 DEF Once
<1>18. Conn(i)' BY <1>7, <1>17 DEF Conn, q
<1>19. got' \in [Host -> Int] BY <1>3
<1> QED BY <1>2, <1>18, <1>19 DEF Counted

(* Before the connect, or in the connection.                                *)
OInv == (Start /\ got = [h \in Host |-> 0]) \/ \E i \in Isn : Counted(i)

LEMMA StepOInv == ASSUME Serial PROVE OInv /\ [Next]_vars => OInv'
<1> SUFFICES ASSUME OInv, [Next]_vars PROVE OInv'
  OBVIOUS
<1>1. CASE Start /\ got = [h \in Host |-> 0]
  <2>1. CASE Connect
    <3>1. \E i \in Isn : Counted(i)' BY <1>1, <2>1, ConnectOnce
    <3> QED BY <3>1 DEF OInv
  <2>2. CASE UNCHANGED vars BY <1>1, <2>2 DEF OInv, Start, vars
  <2> QED BY <1>1, <2>1, <2>2, StartMoves
<1>2. ASSUME NEW i \in Isn, Counted(i) PROVE OInv'
  <2>1. Counted(i)' BY <1>2, StepOnce
  <2> QED BY <2>1 DEF OInv
<1> QED BY <1>1, <1>2 DEF OInv

(* A read takes what the ring holds, and what the ring holds begins where   *)
(* the reads before it ended.                                               *)
LEMMA ReadsOn ==
  ASSUME Serial, OInv, [Next]_vars, NEW h \in Host, got'[h] > got[h]
  PROVE  sk[h].taken - sk[h].rcount = got[h]
<1>1. CASE Start /\ got = [g \in Host |-> 0]
  <2>1. Connect \/ UNCHANGED vars BY <1>1, StartMoves
  <2>2. got' = got BY <2>1 DEF Connect, vars
  <2> QED BY <1>1, <2>2
<1>2. ASSUME NEW i \in Isn, Counted(i) PROVE sk[h].taken - sk[h].rcount = got[h]
  <2>1. got \in [Host -> Int] /\ Conn(i) /\ Calm(sk[Client]) BY <1>2, ServerAcks DEF Counted
  <2>2. ASSUME NEW g \in Host,
               \/ DeliverNext(g) \/ DeliverAny(g) \/ Lose(g) \/ Check(g, FALSE) \/ Check(g, TRUE)
               \/ Write(g) \/ Close(g) \/ Flush(g) \/ Fin(g) \/ CloseEnds(g)
        PROVE  got' = got
    BY <2>2 DEF DeliverNext, DeliverAny, Receive, Lose, Check, Write, Close, Flush, Fin, CloseEnds
  <2>3. Connect \/ Connected \/ Accept \/ Idle \/ UNCHANGED vars => got' = got
    BY DEF Connect, Connected, Accept, Idle, vars
  <2>4. got[h] \in Int BY <2>1
  <2>5. got' # got BY <2>4
  <2>6. PICK g \in Host : Read(g) BY <2>2, <2>3, <2>5 DEF Next
  <2>7. PICK n \in 0 .. sk[g].rcount : app[g] = "open" /\ got' = [got EXCEPT ![g] = @ + n]
    BY <2>6 DEF Read, Program
  <2>8. g = h BY <2>1, <2>4, <2>7
  <2>9. n > 0 /\ sk[h].rcount # 0
    <3>1. got'[h] = got[h] + n BY <2>1, <2>7, <2>8
    <3> QED BY <2>4, <2>7, <2>8, <3>1
  <2>10. h = Server BY <2>1, <2>9, Hosts DEF Calm
  <2> QED BY <2>1, <2>7, <2>8, <2>9, <2>10 DEF Conn, Once
<1> QED BY <1>1, <1>2 DEF OInv

(* Whatever the line loses, however late the timers are and however often   *)
(* they expire: what the server's program reads continues what it read      *)
(* before, no byte twice and none skipped, although resets and timeouts     *)
(* empty the ring under it (AJK_sockread, socket.c; tcp.c:102-183).  The    *)
(* line is serial and the server writes nothing.                            *)
THEOREM ReadsInOrder == ASSUME Serial PROVE Spec => ReadInOrder
<1>1. Init => OInv BY DEF Init, OInv, Start
<1>2. OInv /\ [Next]_vars => OInv' BY StepOInv
<1>3. OInv /\ [Next]_vars =>
        [\A h \in Host : got'[h] > got[h] => sk[h].taken - sk[h].rcount = got[h]]_vars
  BY ReadsOn
<1> QED BY <1>1, <1>2, <1>3, PTL DEF Spec, ReadInOrder
-----------------------------------------------------------------------------
(* The bytes in flight.  On the serial line, with timers that wait for the  *)
(* line to fall silent, the acknowledgements under way are those of what is *)
(* in flight, or all name the last byte the server has accepted.            *)
Within(n) == {m \in Segments : m.len # 0 => m.dat + m.len <= n}
Replies(i, k) == {m \in Segments : RST \notin m.fl => \E t \in 0 .. k : m.ack = Num(i, 1 + t)}
Newest(i, k) == {m \in Segments : RST \notin m.fl => m.ack = Num(i, 1 + k)}
Partings(i, k) == {m \in Segments : FIN \in m.fl /\ RST \notin m.fl => m.ack = Num(i, 1 + k)}
Ongoing == {m \in Segments : FIN \in m.fl => RST \in m.fl}

(* The server has sent its FIN, or lost the connection.                     *)
Over(d, a) == ~Serving(d) /\ a # "idle"

Waiting(i, d, a) ==
  /\ d.st \notin {STATE_CLOSING, STATE_TIME_WAIT}
  /\ d.st \in {STATE_SYN_RECEIVED, STATE_ESTABLISHED, STATE_LAST_ACK} => d.ack = Num(i, 1 + d.most)
  /\ a \in {"open", "flushing", "fin"} => d.st = STATE_ESTABLISHED

Replied(i, c, d, nc, a) ==
  /\ nc \in Seq(Replies(i, d.most))
  /\ c.st = STATE_ESTABLISHED =>
       /\ d.most <= c.base + c.dlen \/ (c.dlen >= 1 /\ nc \in Seq(Newest(i, d.most)))
       /\ nc \in Seq(Ongoing) \/ (Over(d, a) /\ nc \in Seq(Partings(i, d.most)))
  /\ c.st = STATE_CLOSING =>
       /\ Over(d, a)
       /\ d.most = c.base \/ (c.base + 2 <= d.most /\ nc \in Seq(Newest(i, d.most)))

Flight(i, c, d, ns, nc, a, b, us) ==
  /\ c.st \in {STATE_SYN_SENT, STATE_ESTABLISHED, STATE_CLOSING, STATE_LAST_ACK, STATE_CLOSED}
  /\ ~Live(c) => c.dlen = 0 /\ c.wcount = 0
  /\ Live(c) => /\ Waiting(i, d, a) /\ Replied(i, c, d, nc, a)
                /\ d.most <= c.base + c.wcount
                /\ us => ns \in Seq(Within(c.base + c.dlen))
                /\ b \in {"fin", "last", "closed"} => c.wcount = 0

(* A step of the server.                                                    *)
LEMMA FlightServer ==
  ASSUME ~Routed, NEW i, NEW c \in Socket, NEW d, NEW ns, NEW nc, NEW a, NEW b, NEW us,
         Flight(i, c, d, ns, nc, a, b, us), d.most \in Nat, c.dlen <= c.wcount,
         NEW r, Said(r), r.c.most \in Nat,
         NEW q, q = ns \/ (ns # << >> /\ q = Tail(ns)), NEW e, NEW vs, vs => us,
         Live(c) =>
           /\ Waiting(i, r.c, e)
           /\ r.c.most = d.most \/ (Serving(d) /\ d.most < r.c.most /\ r.c.most <= c.base + c.dlen)
           /\ Over(d, a) => Over(r.c, e)
           /\ FIN \in r.c.flags /\ Alive(r.c) => Over(r.c, e)
  PROVE  Flight(i, c, r.c, q, Transmit(nc, r.out), e, b, vs)
<1> DEFINE x == r.c  t == Transmit(nc, r.out)
<1>1. /\ c.st \in {STATE_SYN_SENT, STATE_ESTABLISHED, STATE_CLOSING, STATE_LAST_ACK, STATE_CLOSED}
      /\ ~Live(c) => c.dlen = 0 /\ c.wcount = 0
  BY DEF Flight
<1>2. ASSUME Live(c) PROVE /\ Replied(i, c, x, t, e) /\ x.most <= c.base + c.wcount
                           /\ vs => q \in Seq(Within(c.base + c.dlen))
                           /\ b \in {"fin", "last", "closed"} => c.wcount = 0
  <2>1. /\ Waiting(i, x, e) /\ (Over(d, a) => Over(x, e)) /\ (FIN \in x.flags /\ Alive(x) => Over(x, e))
        /\ x.most = d.most \/ (Serving(d) /\ d.most < x.most /\ x.most <= c.base + c.dlen)
    BY <1>2
  <2>2. /\ Replied(i, c, d, nc, a) /\ d.most <= c.base + c.wcount
        /\ us => ns \in Seq(Within(c.base + c.dlen))
        /\ b \in {"fin", "last", "closed"} => c.wcount = 0
    BY <1>2 DEF Flight
  <2>3. c.base \in Int /\ c.dlen \in Int /\ c.wcount \in Int BY DEF Socket
  <2>4. x.most <= c.base + c.wcount BY <2>1, <2>2, <2>3
  <2>5. vs => q \in Seq(Within(c.base + c.dlen))
    <3>1. us => ns \in Seq(Within(c.base + c.dlen)) /\ (ns # << >> => Tail(ns) \in Seq(Within(c.base + c.dlen)))
      BY <2>2, Behead
    <3> QED BY <3>1
  <2> HIDE DEF x, t
  <2>6. Mute(x) /\ r.out \in Seq(Voice(x)) BY DEF Said, x
  <2>7. ASSUME NEW m \in Voice(x), RST \notin m.fl
        PROVE  m.ack = Num(i, 1 + x.most) /\ m.fl = x.flags /\ Alive(x)
    <3>1. m.fl = x.flags /\ m.ack = x.ack /\ Alive(x) BY <2>7 DEF Voice
    <3>2. x.st \in Reached /\ x.st \notin {STATE_NOTINIT, STATE_SYN_SENT} BY <2>6 DEF Mute, Socket
    <3>3. x.st \notin {STATE_LISTEN, STATE_CLOSED, STATE_CLOSING, STATE_TIME_WAIT}
      BY <2>1, <3>1 DEF Waiting, Alive
    <3>4. x.st \in {STATE_SYN_RECEIVED, STATE_ESTABLISHED, STATE_LAST_ACK} BY <3>2, <3>3 DEF Reached
    <3> QED BY <2>1, <3>1, <3>4 DEF Waiting
  <2>8. x.most \in 0 .. x.most /\ Voice(x) \subseteq Segments BY DEF x, Voice
  <2>9. /\ Voice(x) \subseteq Replies(i, x.most) /\ Voice(x) \subseteq Newest(i, x.most)
        /\ Voice(x) \subseteq Partings(i, x.most)
    BY <2>7, <2>8 DEF Replies, Newest, Partings
  <2>10. ~(FIN \in x.flags /\ Alive(x)) => Voice(x) \subseteq Ongoing
    BY <2>7, <2>8 DEF Ongoing
  <2>11. r.out \in Seq(Replies(i, x.most)) /\ r.out \in Seq(Newest(i, x.most)) /\ r.out \in Seq(Partings(i, x.most))
    BY <2>6, <2>9, Widen
  <2>12. ~(FIN \in x.flags /\ Alive(x)) => r.out \in Seq(Ongoing) BY <2>6, <2>10, Widen
  <2>13. t \in Seq(Replies(i, x.most))
    <3>1. d.most <= x.most BY <2>1, <2>8 DEF x
    <3>2. Replies(i, d.most) \subseteq Replies(i, x.most)
      <4>1. ASSUME NEW k \in 0 .. d.most PROVE k \in 0 .. x.most BY <3>1 DEF x
      <4> QED BY <4>1 DEF Replies
    <3>3. nc \in Seq(Replies(i, x.most)) BY <2>2, <3>2, Widen DEF Replied
    <3> QED BY <2>11, <3>3, Prefix DEF t
  <2>14. ASSUME x.most = d.most, nc \in Seq(Newest(i, d.most)) PROVE t \in Seq(Newest(i, x.most))
    BY <2>11, <2>14, Prefix DEF t
  <2>15. ASSUME c.st = STATE_ESTABLISHED
         PROVE  /\ x.most <= c.base + c.dlen \/ (c.dlen >= 1 /\ t \in Seq(Newest(i, x.most)))
                /\ t \in Seq(Ongoing) \/ (Over(x, e) /\ t \in Seq(Partings(i, x.most)))
    <3>1. d.most <= c.base + c.dlen \/ (c.dlen >= 1 /\ nc \in Seq(Newest(i, d.most)))
      BY <2>2, <2>15 DEF Replied
    <3>2. nc \in Seq(Ongoing) \/ (Over(d, a) /\ nc \in Seq(Partings(i, d.most)))
      BY <2>2, <2>15 DEF Replied
    <3>3. x.most <= c.base + c.dlen \/ (c.dlen >= 1 /\ t \in Seq(Newest(i, x.most))) BY <2>1, <2>14, <3>1
    <3>4. CASE Over(d, a) /\ nc \in Seq(Partings(i, d.most))
      <4>1. x.most = d.most /\ Over(x, e) BY <2>1, <3>4 DEF Over
      <4>2. t \in Seq(Partings(i, x.most)) BY <2>11, <3>4, <4>1, Prefix DEF t
      <4> QED BY <3>3, <4>1, <4>2
    <3>5. CASE nc \in Seq(Ongoing)
      <4>1. CASE FIN \in x.flags /\ Alive(x)
        <5>1. Ongoing \subseteq Partings(i, x.most) BY DEF Ongoing, Partings
        <5>2. nc \in Seq(Partings(i, x.most)) BY <3>5, <5>1, Widen
        <5>3. t \in Seq(Partings(i, x.most)) BY <2>11, <5>2, Prefix DEF t
        <5> QED BY <2>1, <3>3, <4>1, <5>3
      <4>2. CASE ~(FIN \in x.flags /\ Alive(x))
        <5>1. t \in Seq(Ongoing) BY <2>12, <3>5, <4>2, Prefix DEF t
        <5> QED BY <3>3, <5>1
      <4> QED BY <4>1, <4>2
    <3> QED BY <3>2, <3>4, <3>5
  <2>16. ASSUME c.st = STATE_CLOSING
         PROVE  /\ Over(x, e)
                /\ x.most = c.base \/ (c.base + 2 <= x.most /\ t \in Seq(Newest(i, x.most)))
    <3>1. Over(d, a) /\ (d.most = c.base \/ (c.base + 2 <= d.most /\ nc \in Seq(Newest(i, d.most))))
      BY <2>2, <2>16 DEF Replied
    <3>2. x.most = d.most /\ Over(x, e) BY <2>1, <3>1 DEF Over
    <3> QED BY <2>14, <3>1, <3>2
  <2>17. Replied(i, c, x, t, e) BY <2>13, <2>15, <2>16 DEF Replied
  <2> QED BY <2>2, <2>4, <2>5, <2>17
<1>3. Live(c) => Waiting(i, x, e) OBVIOUS
<1> QED BY <1>1, <1>2, <1>3 DEF Flight

(* A socket of the server that waits for a live client has its FIN among    *)
(* its flags only when it has sent it.                                      *)
LEMMA Finless ==
  ASSUME NEW i, NEW x, Mute(x), NEW e, Waiting(i, x, e), x.st = STATE_LAST_ACK => e # "idle",
         FIN \in x.flags, Alive(x)
  PROVE  Over(x, e)
<1>1. x.st \in {STATE_SYN_RECEIVED, STATE_ESTABLISHED, STATE_LAST_ACK}
  BY DEF Mute, Socket, Reached, Waiting, Alive
<1>2. x.st \notin {STATE_SYN_RECEIVED, STATE_ESTABLISHED} BY DEF Mute, Own
<1> QED BY <1>1, <1>2 DEF Over, Serving

(* The server hears a segment.                                              *)
LEMMA FlightHears ==
  ASSUME ~Routed, NEW i, NEW c \in Socket, NEW d, NEW ns, NEW nc, NEW a, NEW g, NEW b,
         Once(i, c, d, ns, nc, a, g), Flight(i, c, d, ns, nc, a, b, TRUE), d.most \in Nat, c.dlen <= c.wcount,
         NEW w, ns # << >>, Head(ns) \in FromClient(i, w, Past(c)), i \in Words,
         NEW r, Hearing(d, Head(ns), r), r.c.most \in Nat, NEW vs
  PROVE  Flight(i, c, r.c, Tail(ns), Transmit(nc, r.out), a, b, vs)
<1> DEFINE m == Head(ns)  x == r.c
<1>1. m \in Segments /\ (RST \notin m.fl => (SYN \in m.fl => m.seq = i) /\ (FIN \in m.fl => Past(c)))
  BY DEF FromClient
<1>2. /\ ns \in Seq(ToServer(c)) /\ Mute(d)
      /\ Opened(d, a) => d.st # STATE_SYN_RECEIVED /\ ns \in Seq(Later)
      /\ d.st = STATE_LAST_ACK => a # "idle"
      /\ d.st = STATE_ESTABLISHED => d.taken = d.most
  BY DEF Once
<1>3. (Live(c) => RST \notin m.fl) /\ (ns \in Seq(Later) => SYN \notin m.fl)
  <2>1. m \in ToServer(c) BY <1>2, Behead
  <2>2. ns \in Seq(Later) => m \in Later BY Behead
  <2> QED BY <2>1, <2>2 DEF ToServer, Later
<1>4. Said(r) /\ Mute(x) BY DEF Hearing, Keeps, Drops, Hears, Opens, Accepts, Ends, Lapses, Said
<1>5. d.most \in Int /\ d.taken \in Int /\ x.most \in Int /\ m.len \in Int /\ m.dat \in Int
      /\ c.base \in Int /\ c.dlen \in Int /\ i \in Int
  <2> HIDE DEF m, x
  <2>1. d \in Socket /\ x \in Socket BY <1>2, <1>4 DEF Mute
  <2>2. i \in Int BY TcpAssumption DEF Words
  <2>3. m.len \in Int /\ m.dat \in Int BY <1>1 DEF Segments
  <2> QED BY <2>1, <2>2, <2>3 DEF Socket
<1> HIDE DEF m, x
<1>6. ASSUME Live(c)
      PROVE  /\ Waiting(i, x, a)
             /\ x.most = d.most \/ (Serving(d) /\ d.most < x.most /\ x.most <= c.base + c.dlen)
             /\ Over(d, a) => Over(x, a)
             /\ x.st = STATE_LAST_ACK => a # "idle"
  <2>1. Waiting(i, d, a) /\ ns \in Seq(Within(c.base + c.dlen)) /\ (c.st = STATE_CLOSING => Over(d, a))
    BY <1>6 DEF Flight, Replied
  <2>2. m.len # 0 => m.dat + m.len <= c.base + c.dlen
    <3>1. m \in Within(c.base + c.dlen) BY <2>1, Behead DEF m
    <3> QED BY <3>1 DEF Within
  <2>3. RST \notin m.fl BY <1>3, <1>6
  <2>4. CASE Keeps(d, r, d.rcount)
    <3>1. x.st = d.st /\ x.ack = d.ack /\ x.most = d.most BY <2>4 DEF Keeps, x
    <3> QED BY <1>2, <2>1, <3>1 DEF Waiting, Over, Serving
  <2>5. CASE Drops(d, r) /\ (d.st = STATE_ESTABLISHED => RST \in m.fl)
    <3>1. x.st \in {STATE_LISTEN, STATE_CLOSED} /\ x.most = d.most BY <2>5 DEF Drops, Alive, x
    <3>2. d.st # STATE_ESTABLISHED BY <2>3, <2>5
    <3> QED BY <2>1, <3>1, <3>2 DEF Waiting, Over, Serving
  <2>6. CASE Hears(d, m, r)
    <3>1. d.st = STATE_LISTEN /\ SYN \in m.fl /\ x.st = STATE_SYN_RECEIVED /\ x.most = d.most
          /\ x.ack = Word32(m.seq + 1)
      BY <2>6 DEF Hears, x
    <3>2. ~Opened(d, a) BY <1>2, <1>3, <3>1
    <3>3. a = "idle" /\ d.most = 0 BY <3>2 DEF Opened
    <3>4. x.ack = Num(i, 1) BY <1>1, <2>3, <3>1 DEF Num
    <3>5. 1 + 0 = 1 OBVIOUS
    <3>6. x.ack = Num(i, 1 + x.most) BY <3>1, <3>3, <3>4, <3>5
    <3> QED BY <3>1, <3>3, <3>6 DEF Waiting, Over
  <2>7. CASE Opens(d, m, r)
    <3>1. d.st = STATE_SYN_RECEIVED /\ x.st = STATE_ESTABLISHED /\ x.ack = d.ack /\ x.most = d.most
      BY <2>7 DEF Opens, x
    <3> QED BY <2>1, <3>1 DEF Waiting, Over, Serving
  <2>8. CASE Accepts(d, m, r)
    <3>1. /\ d.st = STATE_ESTABLISHED /\ m.len > 0 /\ m.dat = d.taken /\ x.st = STATE_ESTABLISHED
          /\ x.ack = Word32(d.ack + m.len)
          /\ x.most = (IF d.most > d.taken + m.len THEN d.most ELSE d.taken + m.len)
      BY <2>8 DEF Accepts, x
    <3>2. x.most = d.most + m.len /\ d.most < x.most BY <1>2, <1>5, <3>1
    <3>3. x.most <= c.base + c.dlen BY <1>2, <1>5, <2>2, <3>1, <3>2
    <3>4. d.ack = Word32(i + (1 + d.most)) BY <2>1, <3>1 DEF Waiting, Num
    <3>5. i + (1 + d.most) \in Int BY <1>5
    <3>6. Word32(Word32(i + (1 + d.most)) + m.len) = Word32((i + (1 + d.most)) + m.len)
      BY <1>5, <3>5, Numbers, Zenon
    <3>7. (i + (1 + d.most)) + m.len = i + (1 + x.most) BY <1>5, <3>2
    <3>8. x.ack = Num(i, 1 + x.most) BY <3>1, <3>4, <3>6, <3>7, Zenon DEF Num
    <3> QED BY <3>1, <3>2, <3>3, <3>8 DEF Waiting, Over, Serving
  <2>9. CASE Ends(d, m, r)
    <3>1. d.st = STATE_ESTABLISHED /\ FIN \in m.fl BY <2>9 DEF Ends
    <3>2. c.st = STATE_CLOSING BY <1>1, <1>6, <2>3, <3>1 DEF Past, Live
    <3> QED BY <2>1, <3>1, <3>2 DEF Over, Serving
  <2>10. CASE Lapses(d, r)
    <3>1. d.st = STATE_CLOSING BY <2>10 DEF Lapses
    <3> QED BY <2>1, <3>1 DEF Waiting
  <2> QED BY <2>4, <2>5, <2>6, <2>7, <2>8, <2>9, <2>10 DEF Hearing, m
<1>7. Live(c) => (FIN \in x.flags /\ Alive(x) => Over(x, a)) BY <1>4, <1>6, Finless
<1> DEFINE q == Tail(ns)
<1>8. q = ns \/ (ns # << >> /\ q = Tail(ns)) OBVIOUS
<1>9. vs => TRUE OBVIOUS
<1> HIDE DEF q
<1>10. /\ ~Routed /\ c \in Socket /\ Flight(i, c, d, ns, nc, a, b, TRUE) /\ d.most \in Nat /\ c.dlen <= c.wcount
       /\ Said(r) /\ r.c.most \in Nat
       /\ Live(c) =>
           /\ Waiting(i, r.c, a)
           /\ r.c.most = d.most \/ (Serving(d) /\ d.most < r.c.most /\ r.c.most <= c.base + c.dlen)
           /\ Over(d, a) => Over(r.c, a)
           /\ FIN \in r.c.flags /\ Alive(r.c) => Over(r.c, a)
  BY <1>4, <1>6, <1>7 DEF x
<1>11. Flight(i, c, r.c, q, Transmit(nc, r.out), a, b, vs) BY ONLY <1>8, <1>9, <1>10, FlightServer
<1> QED BY <1>11 DEF q

(* The server's program moves from a to e, or the stack's timer expires.    *)
LEMMA FlightMoves ==
  ASSUME ~Routed, NEW i, NEW c \in Socket, NEW d, NEW ns, NEW nc, NEW a, NEW g, NEW b,
         Once(i, c, d, ns, nc, a, g), Flight(i, c, d, ns, nc, a, b, TRUE), d.most \in Nat, c.dlen <= c.wcount,
         NEW r, NEW n, NEW e, NEW vs, a # "idle" => e # "idle",
         \/ Keeps(d, r, n) /\ (e \in {"open", "flushing", "fin"} =>
                                 a \in {"open", "flushing", "fin"} \/ d.st = STATE_ESTABLISHED)
         \/ Drops(d, r) /\ (e \in {"open", "flushing", "fin"} => e = a /\ d.st # STATE_ESTABLISHED)
         \/ Fins(d, r) /\ a = "fin" /\ e \notin {"open", "flushing", "fin"}
  PROVE  Flight(i, c, r.c, ns, Transmit(nc, r.out), e, b, vs)
<1> DEFINE x == r.c
<1>1. Mute(d) /\ (d.st = STATE_LAST_ACK => a # "idle") BY DEF Once
<1>2. Said(r) /\ Mute(x) /\ x.most = d.most BY DEF Keeps, Drops, Fins, Said
<1> HIDE DEF x
<1>3. ASSUME Live(c)
      PROVE  /\ Waiting(i, x, e)
             /\ Over(d, a) => Over(x, e)
             /\ x.st = STATE_LAST_ACK => e # "idle"
  <2>1. Waiting(i, d, a) BY <1>3 DEF Flight
  <2>2. CASE Keeps(d, r, n) /\ (e \in {"open", "flushing", "fin"} =>
                                  a \in {"open", "flushing", "fin"} \/ d.st = STATE_ESTABLISHED)
    <3>1. x.st = d.st /\ x.ack = d.ack /\ x.most = d.most BY <2>2 DEF Keeps, x
    <3> QED BY <1>1, <2>1, <2>2, <3>1 DEF Waiting, Over, Serving
  <2>3. CASE Drops(d, r) /\ (e \in {"open", "flushing", "fin"} => e = a /\ d.st # STATE_ESTABLISHED)
    <3>1. x.st \in {STATE_LISTEN, STATE_CLOSED} BY <2>3 DEF Drops, Alive, x
    <3> QED BY <2>1, <2>3, <3>1 DEF Waiting, Over, Serving
  <2>4. CASE Fins(d, r) /\ a = "fin" /\ e \notin {"open", "flushing", "fin"}
    <3>1. x.st = STATE_LAST_ACK /\ x.ack = d.ack /\ x.most = d.most /\ d.st = STATE_ESTABLISHED
      BY <2>1, <2>4 DEF Fins, x, Waiting
    <3> QED BY <2>1, <2>4, <3>1 DEF Waiting, Over, Serving
  <2> QED BY <2>2, <2>3, <2>4
<1>4. Live(c) => (FIN \in x.flags /\ Alive(x) => Over(x, e)) BY <1>2, <1>3, Finless
<1>5. x.most \in Nat BY <1>2
<1>6. vs => TRUE OBVIOUS
<1> QED BY <1>2, <1>3, <1>4, <1>5, <1>6, FlightServer DEF x

-----------------------------------------------------------------------------
(* How many bytes in flight an acknowledgement of t bytes leaves.            *)
LEMMA Unanswered ==
  ASSUME LongSpace = SeqSpace, NEW i \in Words, NEW c \in Socket, c.seq = Num(i, 1 + c.base),
         0 <= c.base, 0 <= c.dlen, c.base + c.dlen < SeqSpace,
         NEW m \in Segments, NEW t \in Nat, m.ack = Num(i, 1 + t), t < SeqSpace
  PROVE  /\ Outstanding(c, m) \in Nat
         /\ t <= c.base + c.dlen => Outstanding(c, m) = c.base + c.dlen - t
         /\ t > c.base + c.dlen => Outstanding(c, m) > c.dlen
<1> DEFINE l == Outstanding(c, m)  y == i + (1 + (c.base + c.dlen))  z == i + (1 + t)  u == c.seq + c.dlen
<1>1. /\ SeqSpace \in Nat \ {0} /\ i \in Int /\ c.base \in Int /\ c.dlen \in Int /\ c.seq \in Int /\ m.ack \in Int
      /\ y \in Int /\ z \in Int /\ u \in Int
  BY TcpAssumption DEF Socket, Segments, Words
<1>2. l = Word32(Word32(u) + (0 - m.ack))
  <2>1. \A x : ULong(x) = Word32(x) BY DEF ULong, Word32
  <2>2. Word32(u) \in Int BY <1>1, Numbers DEF Words
  <2>3. Word32(u) - m.ack = Word32(u) + (0 - m.ack) BY <1>1, <2>2
  <2> QED BY <2>1, <2>3, Zenon DEF Outstanding
<1> HIDE DEF l
<1>3. l = Word32(u + (0 - m.ack))
  <2>1. 0 - m.ack \in Int BY <1>1
  <2> HIDE DEF u
  <2> QED BY <1>1, <1>2, <2>1, Numbers, Zenon
<1>4. l \in 0 .. SeqSpace - 1
  <2>1. u + (0 - m.ack) \in Int BY <1>1
  <2> HIDE DEF u
  <2> QED BY <1>3, <2>1, Numbers, Zenon DEF Words
<1>5. Word32(u) = Word32(y)
  <2> DEFINE v == i + (1 + c.base)
  <2>1. c.seq = Word32(v) /\ v \in Int /\ v + c.dlen = y BY <1>1 DEF Num
  <2> HIDE DEF v, y
  <2>2. Word32(Word32(v) + c.dlen) = Word32(v + c.dlen) BY <1>1, <2>1, Numbers, Zenon
  <2> QED BY <2>1, <2>2, Zenon
<1>6. Word32(l + m.ack) = Word32(u)
  <2>1. u + (0 - m.ack) \in Int /\ (u + (0 - m.ack)) + m.ack = u BY <1>1
  <2> HIDE DEF u
  <2>2. Word32(Word32(u + (0 - m.ack)) + m.ack) = Word32((u + (0 - m.ack)) + m.ack)
    BY <1>1, <2>1, Numbers, Zenon
  <2> QED BY <1>3, <2>1, <2>2, Zenon
<1>7. Word32(m.ack + l) = Word32(z + l)
  <2>1. m.ack = Word32(z) /\ l \in Int BY <1>4 DEF Num
  <2> HIDE DEF z
  <2>2. Word32(Word32(z) + l) = Word32(z + l) BY <1>1, <2>1, Numbers, Zenon
  <2> QED BY <2>1, <2>2, Zenon
<1>8. Word32(z + l) = Word32(y)
  <2>1. l + m.ack = m.ack + l BY <1>1, <1>4
  <2> QED BY <1>5, <1>6, <1>7, <2>1, Zenon
<1> DEFINE x == z + l
<1>9. x \in Int /\ Word32(x) = Word32(y) BY <1>1, <1>4, <1>8
<1>10. x - y < SeqSpace /\ y - x < SeqSpace => x = y
  <2> HIDE DEF x, y, z, u
  <2> QED BY <1>1, <1>9, Numbers
<1>11. ASSUME t <= c.base + c.dlen PROVE l = c.base + c.dlen - t
  <2>1. x - y < SeqSpace /\ y - x < SeqSpace BY <1>1, <1>4, <1>11
  <2>2. (i + (1 + t)) + l = i + (1 + (c.base + c.dlen)) BY <1>10, <2>1
  <2>3. i \in Int /\ t \in Int /\ l \in Int /\ c.base \in Int /\ c.dlen \in Int BY <1>1, <1>4
  <2> QED BY ONLY <2>2, <2>3
<1>12. ASSUME t > c.base + c.dlen PROVE l > c.dlen
  <2> SUFFICES ASSUME l <= c.dlen PROVE FALSE
    BY <1>1, <1>4
  <2>1. x - y < SeqSpace /\ y - x < SeqSpace BY <1>1, <1>4, <1>12
  <2>2. x = y BY <1>10, <2>1
  <2> QED BY <1>1, <1>4, <1>12, <2>2
<1> QED BY <1>4, <1>11, <1>12, TcpAssumption DEF l

(* Different counts below the range of the numbers have different numbers.  *)
LEMMA Distinct ==
  ASSUME NEW i \in Words, NEW s \in Int, NEW t \in Int, s - t < SeqSpace, t - s < SeqSpace,
         Num(i, 1 + s) = Num(i, 1 + t)
  PROVE  s = t
<1> DEFINE x == i + (1 + s)  y == i + (1 + t)
<1>1. SeqSpace \in Nat \ {0} /\ i \in Int BY TcpAssumption DEF Words
<1>2. x \in Int /\ y \in Int /\ x - y < SeqSpace /\ y - x < SeqSpace BY <1>1
<1>3. Word32(x) = Word32(y) BY DEF Num
<1> HIDE DEF x, y
<1>4. x = y BY <1>2, <1>3, Numbers
<1> QED BY <1>1, <1>4 DEF x, y

(* A segment arrived, or was lost.                                          *)
LEMMA FlightTail ==
  ASSUME NEW i, NEW c, NEW d, NEW ns, NEW nc, NEW a, NEW b, NEW us, Flight(i, c, d, ns, nc, a, b, us)
  PROVE  /\ ns # << >> => Flight(i, c, d, Tail(ns), nc, a, b, us)
         /\ nc # << >> => Flight(i, c, d, ns, Tail(nc), a, b, us)
<1>1. /\ c.st \in {STATE_SYN_SENT, STATE_ESTABLISHED, STATE_CLOSING, STATE_LAST_ACK, STATE_CLOSED}
      /\ ~Live(c) => c.dlen = 0 /\ c.wcount = 0
      /\ Live(c) => /\ Waiting(i, d, a) /\ Replied(i, c, d, nc, a)
                    /\ d.most <= c.base + c.wcount
                    /\ us => ns \in Seq(Within(c.base + c.dlen))
                    /\ b \in {"fin", "last", "closed"} => c.wcount = 0
  BY DEF Flight
<1>2. ASSUME ns # << >> PROVE Flight(i, c, d, Tail(ns), nc, a, b, us)
  <2> DEFINE q == Tail(ns)
  <2>1. ns \in Seq(Within(c.base + c.dlen)) => q \in Seq(Within(c.base + c.dlen)) BY <1>2, Behead
  <2> HIDE DEF q
  <2> QED BY <1>1, <2>1 DEF Flight, q
<1>3. ASSUME nc # << >> PROVE Flight(i, c, d, ns, Tail(nc), a, b, us)
  <2> DEFINE q == Tail(nc)
  <2>1. \A M : nc \in Seq(M) => q \in Seq(M) BY <1>3, Behead
  <2> HIDE DEF q
  <2>2. Replied(i, c, d, nc, a) => Replied(i, c, d, q, a) BY <2>1 DEF Replied
  <2> QED BY <1>1, <2>2 DEF Flight, q
<1> QED BY <1>2, <1>3

(* An acknowledgement of t bytes: they leave the buffer when t is among     *)
(* those in flight, and nothing changes otherwise.                          *)
LEMMA Settled ==
  ASSUME LongSpace = SeqSpace, Total[Client] < SeqSpace, NEW i \in Words, NEW w \in 0 .. Total[Client],
         NEW most \in 0 .. Total[Client], NEW c, Sender(i, c, w, most), c.st = STATE_ESTABLISHED,
         NEW m \in Segments, NEW t \in 0 .. most, m.ack = Num(i, 1 + t), NEW e, Settles(c, m, e)
  PROVE  /\ \/ Counts(c, e) /\ (t < c.base \/ t > c.base + c.dlen)
            \/ /\ c.base <= t /\ t <= c.base + c.dlen /\ e.base = t
               /\ e.base + e.dlen = c.base + c.dlen /\ e.base + e.wcount = c.base + c.wcount
         /\ e.dlen <= e.wcount /\ (c.wcount = 0 => e.wcount = 0)
<1> DEFINE l == Outstanding(c, m)
<1>1. /\ c \in Socket /\ c.seq = Num(i, 1 + c.base) /\ 0 <= c.dlen /\ c.dlen <= c.wcount
      /\ c.base + c.wcount <= w /\ 0 <= c.base
  BY DEF Sender
<1>2. /\ c.base \in Int /\ c.dlen \in Int /\ c.wcount \in Int /\ w \in Int /\ t \in Nat /\ SeqSpace \in Int
      /\ Total[Client] \in Int /\ w <= Total[Client] /\ t <= Total[Client]
  BY <1>1, Hosts, TcpAssumption DEF Socket
<1>3. c.base + c.dlen < SeqSpace /\ t < SeqSpace BY <1>1, <1>2
<1>4. /\ l \in Nat
      /\ t <= c.base + c.dlen => l = c.base + c.dlen - t
      /\ t > c.base + c.dlen => l > c.dlen
  BY <1>1, <1>2, <1>3, Unanswered
<1>5. \/ /\ l <= c.dlen /\ e.base = c.base + (c.dlen - l) /\ e.dlen = l
         /\ e.wcount = c.wcount - (c.dlen - l)
      \/ ~(l <= c.dlen) /\ Counts(c, e)
  BY DEF Settles
<1> HIDE DEF l
<1>6. CASE t > c.base + c.dlen
  <2>1. Counts(c, e) BY <1>2, <1>4, <1>5, <1>6
  <2> QED BY <1>1, <1>6, <2>1 DEF Counts
<1>7. CASE t < c.base
  <2>1. Counts(c, e) BY <1>1, <1>2, <1>4, <1>5, <1>7
  <2> QED BY <1>1, <1>7, <2>1 DEF Counts
<1>8. CASE c.base <= t /\ t <= c.base + c.dlen
  <2>1. l = c.base + c.dlen - t /\ l <= c.dlen BY <1>2, <1>4, <1>8
  <2>2. e.base = c.base + (c.dlen - l) /\ e.dlen = l /\ e.wcount = c.wcount - (c.dlen - l) BY <1>5, <2>1
  <2> QED BY <1>1, <1>2, <1>8, <2>1, <2>2
<1> QED BY <1>2, <1>6, <1>7, <1>8

(* The client's socket turns: it settles what is acknowledged.              *)
LEMMA FlightSettles ==
  ASSUME LongSpace = SeqSpace, Total[Client] < SeqSpace, NEW i \in Words, NEW w \in 0 .. Total[Client],
         NEW d, d.most \in 0 .. Total[Client], NEW c, Sender(i, c, w, d.most),
         NEW ns, NEW nc, NEW a, NEW b, NEW us, Flight(i, c, d, ns, nc, a, b, us),
         nc # << >>, NEW e, Settles(c, Head(nc), e)
  PROVE  Flight(i, e, d, ns, Tail(nc), a, b, us) /\ e.dlen <= e.wcount
<1> DEFINE m == Head(nc)  q == Tail(nc)
<1>1. /\ c.st = STATE_ESTABLISHED /\ RST \notin m.fl /\ e \in Socket
      /\ e.st = STATE_ESTABLISHED \/ (e.st = STATE_CLOSING /\ FIN \in m.fl)
  BY DEF Settles, Comes, Calm
<1>2. /\ Waiting(i, d, a) /\ nc \in Seq(Replies(i, d.most))
      /\ d.most <= c.base + c.wcount
      /\ us => ns \in Seq(Within(c.base + c.dlen))
      /\ b \in {"fin", "last", "closed"} => c.wcount = 0
      /\ d.most <= c.base + c.dlen \/ (c.dlen >= 1 /\ nc \in Seq(Newest(i, d.most)))
      /\ nc \in Seq(Ongoing) \/ (Over(d, a) /\ nc \in Seq(Partings(i, d.most)))
  BY <1>1 DEF Flight, Replied, Live
<1>3. \A M : nc \in Seq(M) => q \in Seq(M) /\ m \in M BY Behead
<1> HIDE DEF m, q
<1>4. m \in Replies(i, d.most) BY <1>2, <1>3
<1>5. m \in Segments /\ \E t \in 0 .. d.most : m.ack = Num(i, 1 + t) BY <1>1, <1>4 DEF Replies
<1>6. PICK t \in 0 .. d.most : /\ m.ack = Num(i, 1 + t)
                               /\ nc \in Seq(Newest(i, d.most)) \/ e.st = STATE_CLOSING => t = d.most
  <2>1. CASE nc \in Seq(Newest(i, d.most)) \/ e.st = STATE_CLOSING
    <3>1. e.st = STATE_CLOSING => m \in Partings(i, d.most) /\ FIN \in m.fl
      <4>1. ASSUME e.st = STATE_CLOSING PROVE FIN \in m.fl /\ ~(nc \in Seq(Ongoing))
        <5>1. FIN \in m.fl BY <1>1, <4>1
        <5>2. m \notin Ongoing BY <1>1, <5>1 DEF Ongoing
        <5> QED BY <1>3, <5>1, <5>2
      <4> QED BY <1>2, <1>3, <4>1
    <3>2. m.ack = Num(i, 1 + d.most)
      <4>1. m \in Newest(i, d.most) => m.ack = Num(i, 1 + d.most) BY <1>1 DEF Newest
      <4>2. m \in Partings(i, d.most) /\ FIN \in m.fl => m.ack = Num(i, 1 + d.most) BY <1>1 DEF Partings
      <4> QED BY <1>3, <2>1, <3>1, <4>1, <4>2
    <3>3. d.most \in 0 .. d.most OBVIOUS
    <3> QED BY <3>2, <3>3
  <2>2. CASE ~(nc \in Seq(Newest(i, d.most)) \/ e.st = STATE_CLOSING) BY <1>5, <2>2
  <2> QED BY <2>1, <2>2
<1>7. /\ \/ Counts(c, e) /\ (t < c.base \/ t > c.base + c.dlen)
         \/ /\ c.base <= t /\ t <= c.base + c.dlen /\ e.base = t
            /\ e.base + e.dlen = c.base + c.dlen /\ e.base + e.wcount = c.base + c.wcount
      /\ e.dlen <= e.wcount /\ (c.wcount = 0 => e.wcount = 0)
  <2>1. Settles(c, m, e) BY DEF m
  <2> QED BY <1>1, <1>5, <1>6, <2>1, Settled
<1>8. c \in Socket /\ c.base <= d.most /\ 0 <= c.base BY DEF Sender
<1>9. /\ c.base \in Int /\ c.dlen \in Int /\ c.wcount \in Int /\ t \in Int /\ d.most \in Int
      /\ e.base \in Int /\ e.dlen \in Int /\ e.wcount \in Int
  <2>1. c.base \in Int /\ c.dlen \in Int /\ c.wcount \in Int BY ONLY <1>8 DEF Socket
  <2>2. e \in Socket BY <1>1
  <2>3. e.base \in Int /\ e.dlen \in Int /\ e.wcount \in Int BY ONLY <2>2 DEF Socket
  <2>4. d.most \in 0 .. Total[Client] /\ t \in 0 .. d.most /\ Total[Client] \in Nat BY Hosts
  <2>5. d.most \in Int /\ t \in Int BY ONLY <2>4
  <2> QED BY ONLY <2>1, <2>3, <2>5
<1>10. e.base + e.dlen = c.base + c.dlen /\ e.base + e.wcount = c.base + c.wcount
  BY <1>7, <1>9 DEF Counts
<1>11. d.most <= c.base + c.dlen \/ (Counts(c, e) /\ c.dlen >= 1 /\ nc \in Seq(Newest(i, d.most)))
  BY <1>2, <1>6, <1>7, <1>9
<1>12. d.most <= e.base + e.dlen \/ (e.dlen >= 1 /\ q \in Seq(Newest(i, d.most)))
  BY <1>3, <1>10, <1>11 DEF Counts
<1>13. e.st = STATE_CLOSING =>
         /\ Over(d, a)
         /\ d.most = e.base \/ (e.base + 2 <= d.most /\ q \in Seq(Newest(i, d.most)))
  <2> SUFFICES ASSUME e.st = STATE_CLOSING
               PROVE  /\ Over(d, a)
                      /\ d.most = e.base \/ (e.base + 2 <= d.most /\ q \in Seq(Newest(i, d.most)))
    OBVIOUS
  <2>1. t = d.most BY <1>6
  <2>2. m \notin Ongoing BY <1>1 DEF Ongoing
  <2>3. Over(d, a) BY <1>2, <1>3, <2>2
  <2>4. CASE d.most <= c.base + c.dlen
    <3>1. e.base = d.most BY <1>7, <1>8, <1>9, <2>1, <2>4
    <3> QED BY <2>3, <3>1
  <2>5. CASE d.most > c.base + c.dlen
    <3>1. Counts(c, e) /\ c.dlen >= 1 /\ q \in Seq(Newest(i, d.most)) BY <1>3, <1>9, <1>11, <2>5
    <3>2. e.base + 2 <= d.most BY <1>9, <2>5, <3>1 DEF Counts
    <3> QED BY <2>3, <3>1, <3>2
  <2> QED BY <1>9, <2>4, <2>5
<1>14. q \in Seq(Replies(i, d.most)) /\ (q \in Seq(Ongoing) \/ (Over(d, a) /\ q \in Seq(Partings(i, d.most))))
  BY <1>2, <1>3
<1>15. Replied(i, e, d, q, a) BY <1>12, <1>13, <1>14 DEF Replied
<1>16. us => ns \in Seq(Within(e.base + e.dlen)) BY <1>2, <1>10
<1>17. d.most <= e.base + e.wcount BY <1>2, <1>10
<1>18. Live(e) BY <1>1 DEF Live
<1>19. Flight(i, e, d, ns, q, a, b, us) BY <1>1, <1>2, <1>7, <1>15, <1>16, <1>17, <1>18 DEF Flight
<1> QED BY <1>7, <1>19 DEF q

(* It goes on as it was, perhaps because the program moves to f.             *)
LEMMA FlightRests ==
  ASSUME NEW i, NEW c, NEW d, NEW ns, NEW nc, NEW a, NEW b, NEW us, Flight(i, c, d, ns, nc, a, b, us),
         NEW e, Rests(c, e), NEW f,
         Live(c) => (f \in {"fin", "last", "closed"} => b \in {"fin", "last", "closed"} \/ c.wcount = 0)
  PROVE  Flight(i, e, d, ns, nc, a, f, us)
<1>1. e.st = c.st /\ e.base = c.base /\ e.wcount = c.wcount /\ e.dlen = c.dlen BY DEF Rests, Counts
<1>2. Live(e) = Live(c) BY <1>1 DEF Live
<1>3. Replied(i, e, d, nc, a) = Replied(i, c, d, nc, a) BY <1>1 DEF Replied
<1> QED BY <1>1, <1>2, <1>3 DEF Flight

(* It is closed, with nothing left in flight.                               *)
LEMMA FlightGone ==
  ASSUME NEW i, NEW c, NEW d, NEW ns, NEW nc, NEW a, NEW b, NEW us, Flight(i, c, d, ns, nc, a, b, us),
         NEW e, e.st \in {STATE_CLOSED, STATE_LAST_ACK}, e.wcount = 0, e.dlen = 0, NEW f
  PROVE  Flight(i, e, d, ns, nc, a, f, us)
<1>1. ~Live(e) BY DEF Live
<1> QED BY <1>1 DEF Flight

(* It is connected: nothing but SYNs has been said.                          *)
LEMMA FlightConnects ==
  ASSUME NEW i \in Words, NEW w, NEW past, NEW c, NEW d, Sender(i, c, w, d.most), d.most \in Nat,
         NEW ns, NEW nc, NEW a, NEW b, NEW us, NEW g, Once(i, c, d, ns, nc, a, g),
         d.st = STATE_SYN_RECEIVED => d.ack = Num(i, 1), ns \in Seq(FromClient(i, w, past)),
         Flight(i, c, d, ns, nc, a, b, us), NEW e, Connects(c, e)
  PROVE  Flight(i, e, d, ns, nc, a, b, us) /\ e.dlen <= e.wcount
<1>1. /\ c.st = STATE_SYN_SENT /\ e.st = STATE_ESTABLISHED
      /\ e.base = c.base /\ e.wcount = c.wcount /\ e.dlen = c.dlen
  BY DEF Connects, Counts
<1>2. c.base = 0 /\ c.wcount = 0 /\ c.dlen = 0 BY <1>1 DEF Sender
<1>3. ns \in Seq(ToServer(c)) /\ nc \in Seq(ToClient(i, c)) /\ ~Opened(d, a) /\ Mute(d)
  BY <1>1 DEF Once
<1>4. a = "idle" /\ d.most = 0 /\ d.st \notin {STATE_ESTABLISHED, STATE_CLOSING, STATE_LAST_ACK, STATE_TIME_WAIT}
  BY <1>3 DEF Opened
<1>5. 1 + 0 = 1 /\ 0 \in 0 .. 0 OBVIOUS
<1>6. Waiting(i, d, a) BY <1>4, <1>5 DEF Waiting
<1>7. ToClient(i, c) \subseteq Replies(i, 0) /\ ToClient(i, c) \subseteq Ongoing
  <2> SUFFICES ASSUME NEW m \in ToClient(i, c) PROVE m \in Replies(i, 0) /\ m \in Ongoing
    OBVIOUS
  <2>1. m \in Segments /\ (RST \notin m.fl => m.fl = {SYN, ACK} /\ m.ack = Num(i, 1))
    BY <1>1 DEF ToClient
  <2>2. FIN \notin {SYN, ACK} OBVIOUS
  <2> QED BY <1>5, <2>1, <2>2 DEF Replies, Ongoing
<1>8. nc \in Seq(Replies(i, d.most)) /\ nc \in Seq(Ongoing) BY <1>3, <1>4, <1>7, Widen
<1>9. Replied(i, e, d, nc, a) BY <1>1, <1>2, <1>4, <1>8 DEF Replied
<1>10. ns \in Seq(Within(0))
  <2>1. \A k \in 1 .. Len(ns) : ns[k] \in ToServer(c) /\ ns[k] \in FromClient(i, w, past)
    BY ONLY <1>3, ns \in Seq(FromClient(i, w, past))
  <2>2. \A m : m \in ToServer(c) /\ m \in FromClient(i, w, past) => m \in Within(0)
    BY <1>1 DEF ToServer, FromClient, Within
  <2>3. \A k \in 1 .. Len(ns) : ns[k] \in Within(0) BY <2>1, <2>2
  <2> QED BY ONLY <2>3, ns \in Seq(FromClient(i, w, past))
<1>11. Live(e) /\ e.base + e.dlen = 0 /\ d.most <= e.base + e.wcount BY <1>1, <1>2, <1>4 DEF Live
<1>12. Flight(i, e, d, ns, nc, a, b, us) BY <1>1, <1>2, <1>6, <1>9, <1>10, <1>11 DEF Flight
<1> QED BY <1>1, <1>2, <1>12

(* No acknowledgement of a FIN it has not sent comes to it.                  *)
LEMMA NoLinger ==
  ASSUME LongSpace = SeqSpace, Total[Client] + 1 < SeqSpace, NEW i \in Words, NEW w \in 0 .. Total[Client],
         NEW d, d.most \in 0 .. Total[Client], NEW c, Sender(i, c, w, d.most),
         NEW ns, NEW nc, NEW a, NEW b, NEW us, Flight(i, c, d, ns, nc, a, b, us),
         nc # << >>, NEW e
  PROVE  ~Lingers(c, Head(nc), e)
<1> DEFINE m == Head(nc)
<1> SUFFICES ASSUME Lingers(c, m, e) PROVE FALSE
  OBVIOUS
<1>1. c.st = STATE_CLOSING /\ m.ack = ULong(c.seq + 1) /\ RST \notin m.fl BY DEF Lingers
<1>2. /\ nc \in Seq(Replies(i, d.most))
      /\ d.most = c.base \/ (c.base + 2 <= d.most /\ nc \in Seq(Newest(i, d.most)))
  BY <1>1 DEF Flight, Replied, Live
<1>3. /\ c \in Socket /\ c.seq = Num(i, 1 + c.base) /\ 0 <= c.base /\ c.base <= d.most
  BY <1>1 DEF Sender
<1>4. \A M : nc \in Seq(M) => m \in M BY Behead
<1> HIDE DEF m
<1>5. c.base \in Int /\ d.most \in Int /\ Total[Client] \in Int /\ i \in Int /\ SeqSpace \in Int
      /\ d.most <= Total[Client] /\ Total[Client] + 1 < SeqSpace
  <2>1. c.base \in Int BY ONLY <1>3 DEF Socket
  <2>2. Total[Client] \in Int /\ SeqSpace \in Nat BY Hosts, TcpAssumption
  <2>3. d.most \in 0 .. Total[Client] /\ i \in Words /\ Total[Client] + 1 < SeqSpace OBVIOUS
  <2>4. d.most \in Int /\ i \in Int /\ d.most <= Total[Client] BY ONLY <2>2, <2>3 DEF Words
  <2> QED BY ONLY <2>1, <2>2, <2>3, <2>4
<1>6. m.ack = Num(i, 1 + (1 + c.base))
  <2> DEFINE v == i + (1 + c.base)
  <2>1. v \in Int /\ v + 1 = i + (1 + (1 + c.base)) /\ 1 \in Int BY <1>5
  <2>4. c.seq = Word32(v) BY <1>3, Zenon DEF Num
  <2> HIDE DEF v
  <2>2. Word32(Word32(v) + 1) = Word32(v + 1) BY <2>1, Numbers, Zenon
  <2>3. ULong(c.seq + 1) = Word32(c.seq + 1) BY DEF ULong, Word32
  <2> QED BY <1>1, <2>1, <2>4, <2>2, <2>3, Zenon DEF Num
<1>7. CASE d.most = c.base
  <2>1. PICK t \in 0 .. d.most : m.ack = Num(i, 1 + t) BY <1>1, <1>2, <1>4 DEF Replies
  <2> DEFINE s == 1 + c.base
  <2>2. t \in Int /\ 0 <= t /\ t <= d.most BY <1>5
  <2>3. s \in Int /\ t \in Int /\ s - t < SeqSpace /\ t - s < SeqSpace /\ s > t
    BY ONLY <1>3, <1>5, <1>7, <2>2
  <2>4. Num(i, 1 + s) = Num(i, 1 + t) BY <1>6, <2>1
  <2> HIDE DEF s
  <2>5. s = t BY <2>3, <2>4, Distinct
  <2> QED BY <2>3, <2>5
<1>8. CASE c.base + 2 <= d.most /\ nc \in Seq(Newest(i, d.most))
  <2>1. m.ack = Num(i, 1 + d.most) BY <1>1, <1>4, <1>8 DEF Newest
  <2> DEFINE s == 1 + c.base  t == d.most
  <2>2. c.base + 2 <= d.most /\ 0 <= c.base BY <1>3, <1>8
  <2>3. s \in Int /\ t \in Int /\ s - t < SeqSpace /\ t - s < SeqSpace /\ s < t BY ONLY <1>5, <2>2
  <2>4. Num(i, 1 + s) = Num(i, 1 + t) BY <1>6, <2>1
  <2> HIDE DEF s, t
  <2>5. s = t BY <2>3, <2>4, Distinct
  <2> QED BY <2>3, <2>5
<1> QED BY <1>2, <1>7, <1>8

(* What a segment makes of the client's socket.                             *)
LEMMA FlightTurns ==
  ASSUME LongSpace = SeqSpace, Total[Client] + 1 < SeqSpace, NEW i \in Words, NEW w \in 0 .. Total[Client],
         NEW past, NEW d, d.most \in 0 .. Total[Client], NEW c, Sender(i, c, w, d.most),
         NEW ns, NEW nc, NEW a, NEW b, NEW us, NEW g, Once(i, c, d, ns, nc, a, g),
         d.st = STATE_SYN_RECEIVED => d.ack = Num(i, 1), ns \in Seq(FromClient(i, w, past)),
         Flight(i, c, d, ns, nc, a, b, us), c.dlen <= c.wcount,
         nc # << >>, NEW e, Turns(c, Head(nc), e)
  PROVE  Flight(i, e, d, ns, Tail(nc), a, b, us) /\ e.dlen <= e.wcount
<1> DEFINE m == Head(nc)  q == Tail(nc)
<1>0. Total[Client] < SeqSpace /\ d.most \in Nat BY Hosts, TcpAssumption
<1>1. Flight(i, c, d, ns, q, a, b, us) BY FlightTail
<1>2. Once(i, c, d, ns, q, a, g) BY OnceLost
<1>3. ~Lingers(c, m, e) BY NoLinger
<1>4. CASE Settles(c, m, e) BY <1>0, <1>4, FlightSettles
<1> HIDE DEF m, q
<1>5. CASE Rests(c, e)
  <2>1. Flight(i, e, d, ns, q, a, b, us) BY <1>1, <1>5, FlightRests
  <2> QED BY <1>5, <2>1 DEF Rests, Counts, q
<1>6. CASE Connects(c, e)
  <2>1. Flight(i, e, d, ns, q, a, b, us) /\ e.dlen <= e.wcount BY <1>0, <1>1, <1>2, <1>6, FlightConnects
  <2> QED BY <2>1 DEF q
<1>7. CASE Dies(c, e)
  <2>1. e.st = STATE_CLOSED /\ e.wcount = 0 /\ e.dlen = 0 BY <1>7 DEF Dies, Gone, Flight
  <2>2. Flight(i, e, d, ns, q, a, b, us) BY <1>1, <2>1, FlightGone
  <2> QED BY <2>1, <2>2 DEF q
<1> QED BY <1>3, <1>4, <1>5, <1>6, <1>7 DEF Turns, m

(* What the client says in r lies below what r leaves in flight.             *)
Adds(r) == r.out \in Seq(IF Live(r.c) THEN Within(r.c.base + r.c.dlen) ELSE Segments)

LEMMA UttersAdd ==
  ASSUME NEW e \in Socket, e.dlen <= e.wcount, NEW r, Utters(e, r)
  PROVE  /\ SameBut(e, r.c) /\ e.dlen <= r.c.dlen /\ r.c.dlen <= r.c.wcount
         /\ e.dlen = e.wcount => r.c.dlen = e.dlen
         /\ Adds(r)
<1>1. PICK n : Pushes(e, r, n) BY DEF Utters
<1> DEFINE x == r.c
<1>2. /\ n \in Int /\ SameBut(e, x) /\ x.dlen = e.dlen + n /\ r.out \in Seq(Utterance(e, n))
      /\ n # 0 => e.wcount # e.dlen /\ n <= e.wcount - e.dlen /\ (e.wcount > e.dlen => n > 0)
  BY <1>1 DEF Pushes
<1> HIDE DEF x
<1>3. e.dlen \in Int /\ e.wcount \in Int /\ e.base \in Int BY DEF Socket
<1>4. x.st = e.st /\ x.base = e.base /\ x.wcount = e.wcount BY <1>2 DEF SameBut
<1>5. n >= 0 /\ (e.dlen = e.wcount => n = 0) BY <1>2, <1>3
<1>6. e.dlen <= x.dlen /\ x.dlen <= x.wcount /\ (e.dlen = e.wcount => x.dlen = e.dlen)
  BY <1>2, <1>3, <1>4, <1>5
<1>7. Live(x) => Utterance(e, n) \subseteq Within(x.base + x.dlen)
  <2> SUFFICES ASSUME Live(x), NEW m \in Utterance(e, n) PROVE m \in Within(x.base + x.dlen)
    OBVIOUS
  <2>1. e.st # STATE_CLOSED BY <1>4 DEF Live
  <2>2. m \in Segments /\ m.len = n /\ (n # 0 => m.dat = e.base + e.dlen) BY <2>1 DEF Utterance
  <2>3. m.len # 0 => m.dat + m.len <= x.base + x.dlen BY <1>2, <1>3, <1>4, <2>2
  <2> QED BY <2>2, <2>3 DEF Within
<1>8. Utterance(e, n) \subseteq Segments BY DEF Utterance
<1>9. r.out \in Seq(IF Live(x) THEN Within(x.base + x.dlen) ELSE Segments)
  BY <1>2, <1>7, <1>8, Widen
<1> QED BY <1>2, <1>6, <1>9 DEF Adds, x

(* It puts more in flight, and says so.                                      *)
LEMMA FlightGrows ==
  ASSUME NEW i, NEW e \in Socket, NEW d, NEW ns, NEW nc, NEW a, NEW b, NEW us,
         Flight(i, e, d, ns, nc, a, b, us), d.most \in Int,
         NEW x, SameBut(e, x), e.dlen <= x.dlen, e.dlen = e.wcount => x.dlen = e.dlen
  PROVE  Flight(i, x, d, ns, nc, a, b, us)
<1>1. x \in Socket /\ x.st = e.st /\ x.base = e.base /\ x.wcount = e.wcount BY DEF SameBut
<1>2. e.base \in Int /\ e.dlen \in Int /\ x.dlen \in Int BY <1>1 DEF Socket
<1>3. Live(x) = Live(e) BY <1>1 DEF Live
<1>4. ~Live(x) => x.dlen = 0 /\ x.wcount = 0 BY <1>1, <1>3 DEF Flight
<1>5. ASSUME Live(e) PROVE Replied(i, x, d, nc, a) /\ (us => ns \in Seq(Within(x.base + x.dlen)))
  <2>1. Replied(i, e, d, nc, a) /\ (us => ns \in Seq(Within(e.base + e.dlen))) BY <1>5 DEF Flight
  <2>2. Within(e.base + e.dlen) \subseteq Within(x.base + x.dlen)
    <3> SUFFICES ASSUME NEW m \in Within(e.base + e.dlen) PROVE m \in Within(x.base + x.dlen)
      OBVIOUS
    <3>1. m \in Segments /\ (m.len # 0 => m.dat + m.len <= e.base + e.dlen) BY DEF Within
    <3>2. m.dat \in Int /\ m.len \in Int BY <3>1 DEF Segments
    <3>3. m.len # 0 => m.dat + m.len <= x.base + x.dlen BY <1>1, <1>2, <3>1, <3>2
    <3> QED BY <3>1, <3>3 DEF Within
  <2>3. us => ns \in Seq(Within(x.base + x.dlen)) BY <2>1, <2>2, Widen
  <2>4. d.most <= e.base + e.dlen => d.most <= x.base + x.dlen BY <1>1, <1>2
  <2>5. e.dlen >= 1 => x.dlen >= 1 BY <1>2
  <2>6. Replied(i, x, d, nc, a) BY <1>1, <2>1, <2>4, <2>5 DEF Replied
  <2> QED BY <2>3, <2>6
<1> QED BY <1>1, <1>3, <1>4, <1>5 DEF Flight

LEMMA FlightSays ==
  ASSUME ~Routed, NEW i, NEW d, NEW ns, NEW nc, NEW a, NEW b, NEW us, NEW r,
         Flight(i, r.c, d, ns, nc, a, b, us), Adds(r)
  PROVE  Flight(i, r.c, d, Transmit(ns, r.out), nc, a, b, us)
<1> DEFINE x == r.c  q == Transmit(ns, r.out)
<1>1. Live(x) /\ us => q \in Seq(Within(x.base + x.dlen))
  <2> SUFFICES ASSUME Live(x), us PROVE q \in Seq(Within(x.base + x.dlen))
    OBVIOUS
  <2>1. ns \in Seq(Within(x.base + x.dlen)) /\ r.out \in Seq(Within(x.base + x.dlen)) BY DEF Flight, Adds
  <2> QED BY <2>1, Prefix
<1> HIDE DEF q, x
<1> QED BY <1>1 DEF Flight, q, x

(* A socket that sends everything again sends something if it has anything. *)
LEMMA Resumes ==
  ASSUME NEW e \in Socket, e.dlen = 0, e.wcount > 0, Live(e)
  PROVE  SendSocket(e).c.dlen >= 1
<1>1. PICK n \in Int, f \in BOOLEAN : SendSocket(e) = Sent(e, n, f) BY Sends
<1> DEFINE k == Portion(e)
           s == [e EXCEPT !.seq = Word32(@ + e.dlen), !.dlen = @ + k, !.exp = TRUE]
           r == FastTcpPack(s, e.flags, e.st, IF k = 0 THEN 0 ELSE e.base + e.dlen, k)
<1>2. e.dlen \in Int /\ e.wcount \in Int /\ Mss \in Nat \ {0} /\ MaxTailW \in Nat \ {0} /\ e.dlen = 0 + 0
  BY TcpAssumption DEF Socket
<1>3. Unsent(e) = e.wcount /\ e.wcount # 0 BY <1>2 DEF Unsent
<1>4. MayPush(e) BY <1>2, <1>3 DEF MayPush, Live
<1>5. k \in Int /\ k >= 1 BY <1>2, <1>3, <1>4 DEF Portion
<1>6. SendSocket(e) = [r EXCEPT !.c.seq = e.seq] BY <1>4, Zenon DEF SendSocket
<1> HIDE DEF k
<1>7. s.dlen = k BY <1>2, <1>5 DEF Socket
<1> HIDE DEF s
<1> DEFINE y == [s EXCEPT !.flags = e.flags, !.st = e.st]
<1>8. r.c = y /\ r = [c |-> y, out |-> r.out, up |-> r.up] BY DEF FastTcpPack
<1> HIDE DEF r
<1>9. [r EXCEPT !.c.seq = e.seq].c = [y EXCEPT !.seq = e.seq] BY <1>8
<1>10. SendSocket(e).c = [y EXCEPT !.seq = e.seq] BY <1>6, <1>9
<1>11. "dlen" \in DOMAIN s BY DEF s, Socket
<1>12. [y EXCEPT !.seq = e.seq].dlen = s.dlen BY <1>11
<1> QED BY <1>5, <1>7, <1>10, <1>12

(* It starts again from the oldest byte, when the line is silent.           *)
LEMMA FlightRestarts ==
  ASSUME NEW i, NEW c, NEW d, NEW nc, NEW ns, NEW a, NEW b, NEW us, Flight(i, c, d, ns, nc, a, b, us),
         NEW w, Sender(i, c, w, d.most), d.most \in Nat,
         nc = << >>, us => ns = << >>, NEW e, Restarts(c, e), e.st # STATE_CLOSED
  PROVE  LET r == SendSocket(e) IN
         /\ Flight(i, r.c, d, ns, nc, a, b, us) /\ Adds(r) /\ r.c.dlen <= r.c.wcount
<1> DEFINE r == SendSocket(e)  x == r.c
<1>1. e \in Socket /\ e.st = c.st /\ e.base = c.base /\ e.wcount = c.wcount /\ e.dlen = 0
  BY DEF Restarts, Comes, Calm
<1>2. Live(e) = Live(c) /\ e.wcount \in Int /\ e.base \in Int BY <1>1 DEF Live, Socket
<1>3. e.dlen <= e.wcount
  <2>1. Live(c) => 0 <= c.wcount
    <3>1. c \in Socket BY DEF Sender
    <3>2. c.dlen \in Int /\ c.wcount \in Int BY <3>1 DEF Socket
    <3> QED BY <3>2 DEF Live, Sender
  <2>2. ~Live(c) => c.wcount = 0 BY DEF Flight
  <2> QED BY <1>1, <2>1, <2>2
<1>4. Utters(e, r) BY <1>1, Sounds
<1>5. /\ SameBut(e, x) /\ e.dlen <= x.dlen /\ x.dlen <= x.wcount
      /\ e.dlen = e.wcount => x.dlen = e.dlen
      /\ Adds(r)
  BY <1>1, <1>3, <1>4, UttersAdd
<1>6. Live(e) /\ e.wcount # 0 => x.dlen >= 1 BY <1>1, <1>2, <1>3, Resumes
<1> HIDE DEF r, x
<1>7. x \in Socket /\ x.st = c.st /\ x.base = c.base /\ x.wcount = c.wcount BY <1>1, <1>5 DEF SameBut
<1>8. Live(x) = Live(c) /\ x.dlen \in Int BY <1>7 DEF Live, Socket
<1>9. \A M : nc \in Seq(M) OBVIOUS
<1>10. us => \A M : ns \in Seq(M) OBVIOUS
<1>11. ~Live(c) => x.dlen = 0 /\ x.wcount = 0
  <2>1. ~Live(c) => c.wcount = 0 BY DEF Flight
  <2> QED BY <1>1, <1>5, <1>7, <2>1
<1>12. ASSUME Live(c) PROVE Replied(i, x, d, nc, a)
  <2>1. d.most <= c.base + c.wcount /\ Replied(i, c, d, nc, a) BY <1>12 DEF Flight
  <2>2. c.wcount = 0 => d.most <= x.base + x.dlen BY <1>1, <1>2, <1>5, <1>7, <2>1
  <2>3. c.wcount # 0 => x.dlen >= 1 BY <1>1, <1>2, <1>6, <1>12
  <2> QED BY <1>7, <1>9, <2>1, <2>2, <2>3 DEF Replied
<1>13. Flight(i, x, d, ns, nc, a, b, us) BY <1>7, <1>8, <1>10, <1>11, <1>12 DEF Flight
<1> QED BY <1>5, <1>13 DEF r, x

LEMMA FlightUtters ==
  ASSUME NEW i, NEW e \in Socket, NEW d, NEW ns, NEW nc, NEW a, NEW b, NEW us,
         Flight(i, e, d, ns, nc, a, b, us), d.most \in Nat, e.dlen <= e.wcount, NEW r, Utters(e, r)
  PROVE  Flight(i, r.c, d, ns, nc, a, b, us) /\ Adds(r) /\ r.c.dlen <= r.c.wcount
<1> DEFINE x == r.c
<1>1. /\ SameBut(e, x) /\ e.dlen <= x.dlen /\ x.dlen <= x.wcount /\ (e.dlen = e.wcount => x.dlen = e.dlen)
      /\ Adds(r)
  BY UttersAdd
<1> HIDE DEF x
<1>2. Flight(i, x, d, ns, nc, a, b, us) BY <1>1, FlightGrows
<1> QED BY <1>1, <1>2 DEF x

(* No timer of the client expires while anything is under way.               *)
Silence(expired, us, ns, nc) == expired => nc = << >> /\ (us => ns = << >>)

(* check_sockets visits the client's socket, one round or two.               *)
LEMMA FlightChecks ==
  ASSUME ~Routed, NEW i \in Words, NEW w \in Nat, NEW d, d.most \in Nat, NEW c, Sender(i, c, w, d.most), Calm(c),
         NEW ns, NEW nc, NEW a, NEW b, NEW us, Flight(i, c, d, ns, nc, a, b, us), c.dlen <= c.wcount,
         NEW expired \in BOOLEAN, Silence(expired, us, ns, nc)
  PROVE  LET r == CheckSockets(c, expired) IN Flight(i, r.c, d, Transmit(ns, r.out), nc, a, b, us)
<1> DEFINE r1 == CheckRound(c, expired)
           r2 == CheckRound(r1.c, FALSE)
           t == [c |-> r2.c, out |-> r1.out \o r2.out, up |-> r1.up /\ r2.up]
           r == CheckSockets(c, expired)
<1>1. r = IF c.st > STATE_UDP THEN IF r1.out = << >> THEN r1 ELSE t ELSE Done(c)
  <2>1. ~c.par BY DEF Sender
  <2> QED BY <2>1 DEF CheckSockets
<1>2. Flight(i, Done(c).c, d, ns, nc, a, b, us) /\ Adds(Done(c)) BY WeakSelf, FlightUtters DEF Calm
<1>3. ASSUME c.st > STATE_UDP
      PROVE  /\ Flight(i, r1.c, d, ns, nc, a, b, us) /\ Adds(r1) /\ r1.c.dlen <= r1.c.wcount
             /\ Calm(r1.c) /\ (r1.out # << >> => r1.c.st = c.st) /\ Sender(i, r1.c, w, d.most)
  <2>1. c.st # STATE_CLOSED /\ d.most \in Int /\ ~c.par BY <1>3 DEF Sender
  <2>2. Sender(i, r1.c, w, d.most) BY <2>1, ClientRound DEF ClientStep, Client1
  <2>3. PICK e : \/ (Rests(c, e) \/ (expired /\ Dies(c, e))) /\ Utters(e, r1)
                 \/ expired /\ Restarts(c, e) /\ r1 = SendSocket(e)
    BY <2>1, CRound
  <2>4. r1.out # << >> => r1.c.st = c.st BY <2>1, CRound
  <2> HIDE DEF r1, r2, t, r
  <2>5. (Rests(c, e) \/ Dies(c, e)) \/ Restarts(c, e) BY <2>3
  <2>6. Comes(c, e) /\ e \in Socket BY <2>5 DEF Rests, Dies, Gone, Restarts, Comes, Calm
  <2>7. Restarts(c, e) => e.st # STATE_CLOSED BY <2>1 DEF Restarts
  <2>8. Utters(e, r1) BY <2>3, <2>6, <2>7, Sounds
  <2>9. Calm(r1.c) BY <2>6, <2>8, UtterWeak DEF Weak, Comes
  <2>10. CASE Rests(c, e)
    <3>1. Flight(i, e, d, ns, nc, a, b, us) BY <2>10, FlightRests
    <3>2. e.dlen <= e.wcount BY <2>10 DEF Rests, Counts
    <3>3. Flight(i, r1.c, d, ns, nc, a, b, us) /\ Adds(r1) /\ r1.c.dlen <= r1.c.wcount
      BY <2>6, <2>8, <3>1, <3>2, FlightUtters
    <3> QED BY <2>2, <2>4, <2>9, <3>3
  <2>11. CASE Dies(c, e)
    <3>1. e.st = STATE_CLOSED /\ e.wcount = 0 /\ e.dlen = 0 BY <2>11 DEF Dies, Gone, Flight
    <3>2. Flight(i, e, d, ns, nc, a, b, us) BY <3>1, FlightGone
    <3>3. e.dlen <= e.wcount BY <3>1
    <3>4. Flight(i, r1.c, d, ns, nc, a, b, us) /\ Adds(r1) /\ r1.c.dlen <= r1.c.wcount
      BY <2>6, <2>8, <3>2, <3>3, FlightUtters
    <3> QED BY <2>2, <2>4, <2>9, <3>4
  <2>12. CASE expired /\ Restarts(c, e) /\ r1 = SendSocket(e)
    <3>1. Flight(i, r1.c, d, ns, nc, a, b, us) /\ Adds(r1) /\ r1.c.dlen <= r1.c.wcount
      BY <2>7, <2>12, FlightRestarts DEF Silence
    <3> QED BY <2>2, <2>4, <2>9, <3>1
  <2> QED BY <2>3, <2>10, <2>11, <2>12
<1>4. ASSUME c.st > STATE_UDP, r1.out # << >> PROVE Flight(i, t.c, d, ns, nc, a, b, us) /\ Adds(t)
  <2> DEFINE x == r1.c  z == r2.c
  <2>1. /\ Flight(i, x, d, ns, nc, a, b, us) /\ Adds(r1) /\ x.dlen <= x.wcount
        /\ Calm(x) /\ x.st = c.st /\ Sender(i, x, w, d.most)
    BY <1>3, <1>4
  <2>2. x.st # STATE_CLOSED /\ ~x.par /\ FALSE \in BOOLEAN BY <1>4, <2>1 DEF Sender
  <2>3. PICK y : Rests(x, y) /\ Utters(y, r2) BY <2>1, <2>2, CRound
  <2> HIDE DEF r1, r2
  <2>4. Flight(i, z, d, ns, nc, a, b, us) /\ Adds(r2)
    <3>1. Flight(i, y, d, ns, nc, a, b, us) BY <2>1, <2>3, FlightRests
    <3>2. y.dlen <= y.wcount /\ y \in Socket BY <2>1, <2>3 DEF Rests, Counts, Comes, Calm
    <3> QED BY <2>3, <3>1, <3>2, FlightUtters
  <2>5. z.base = x.base /\ z.st = x.st /\ x.dlen <= z.dlen /\ z \in Socket /\ x \in Socket
    <3>1. y.base = x.base /\ y.st = x.st /\ y.dlen = x.dlen /\ y.dlen <= y.wcount /\ y \in Socket
      BY <2>1, <2>3 DEF Rests, Counts, Comes, Calm
    <3>2. SameBut(y, z) /\ y.dlen <= z.dlen BY <2>3, <3>1, UttersAdd
    <3> QED BY <2>1, <3>1, <3>2 DEF SameBut, Calm
  <2>6. Live(z) = Live(x) BY <2>5 DEF Live
  <2> DEFINE S == IF Live(z) THEN Within(z.base + z.dlen) ELSE Segments
             T == IF Live(x) THEN Within(x.base + x.dlen) ELSE Segments
  <2>7. T \subseteq S
    <3> SUFFICES ASSUME Live(z), NEW m \in Within(x.base + x.dlen) PROVE m \in Within(z.base + z.dlen)
      BY <2>6
    <3>1. m \in Segments /\ (m.len # 0 => m.dat + m.len <= x.base + x.dlen) BY DEF Within
    <3>2. m.dat \in Int /\ m.len \in Int /\ x.base \in Int /\ x.dlen \in Int /\ z.dlen \in Int
      BY <2>5, <3>1 DEF Segments, Socket
    <3>3. m.len # 0 => m.dat + m.len <= z.base + z.dlen BY <2>5, <3>1, <3>2
    <3> QED BY <3>1, <3>3 DEF Within
  <2>8. r1.out \in Seq(T) /\ r2.out \in Seq(S) BY <2>1, <2>4 DEF Adds
  <2> HIDE DEF S, T
  <2>9. r1.out \in Seq(S) BY <2>7, <2>8, Widen
  <2>10. r1.out \o r2.out \in Seq(S) BY ONLY <2>8, <2>9
  <2>11. t.c = z /\ t.out = r1.out \o r2.out OBVIOUS
  <2> HIDE DEF t, z
  <2>12. Adds(t) BY <2>10, <2>11 DEF Adds, S
  <2> QED BY <2>4, <2>11, <2>12
<1> HIDE DEF r1, t, r
<1>5. Flight(i, r.c, d, ns, nc, a, b, us) /\ Adds(r) BY <1>1, <1>2, <1>3, <1>4
<1>6. Flight(i, r.c, d, Transmit(ns, r.out), nc, a, b, us) BY <1>5, FlightSays
<1> QED BY <1>6 DEF r

-----------------------------------------------------------------------------
(* The client's error count: no more than one beyond MaxErr, and that one   *)
(* only in a socket that is given up.  Nothing is ever taken from the        *)
(* server, which says nothing.                                               *)
Tame(c) == c.taken = 0 /\ 0 <= c.err /\ c.err <= MaxErr + 1 /\ (c.st > STATE_UDP => c.err <= MaxErr)

(* It forgets its errors, or keeps counting as it did.                       *)
LEMMA Tames ==
  ASSUME NEW c \in Socket, Tame(c), NEW x \in Socket, x.taken = c.taken,
         \/ x.err = 0 \/ x.err = MaxErr - 1
         \/ x.err = c.err /\ (x.st = c.st \/ ~(x.st > STATE_UDP) \/ c.st > STATE_UDP)
  PROVE  Tame(x)
<1>1. MaxErr \in Nat \ {0} /\ x.err \in Int BY TcpAssumption DEF Socket
<1> QED BY <1>1 DEF Tame

LEMMA TameSends ==
  ASSUME NEW c \in Socket, Tame(c)
  PROVE  Tame(SendSocket(c).c) /\ SendSocket(c).c.err = c.err /\ SendSocket(c).c.taken = c.taken
         /\ SendSocket(c).c.st = c.st /\ SendSocket(c).c \in Socket
<1>1. SendSocket(c) \in Results BY Sends
<1>2. PICK n \in Int, e \in BOOLEAN : SendSocket(c) = Sent(c, n, e) BY Sends
<1> DEFINE b == [c EXCEPT !.dlen = c.dlen + n, !.exp = e]
<1>3. SendSocket(c).c = b BY <1>2 DEF Sent
<1>4. b.err = c.err /\ b.taken = c.taken /\ b.st = c.st BY Zenon DEF Socket
<1>5. b \in Socket BY <1>1, <1>3 DEF Results
<1> HIDE DEF b
<1>6. Tame(b) BY <1>4, <1>5, Tames
<1> QED BY <1>3, <1>4, <1>5, <1>6

LEMMA TameNukes ==
  ASSUME NEW c \in Socket, ~c.par, c.taken = 0, 0 <= c.err, c.err <= MaxErr + 1
  PROVE  Tame(Nuke(c)) /\ Tame([Nuke(c) EXCEPT !.dlen = 0])
<1> DEFINE b == c.dfree \/ ~c.own
           x == [c EXCEPT !.st = STATE_CLOSED, !.own = FALSE, !.dfree = b,
                          !.wcount = 0, !.rcount = 0, !.exp = FALSE]
<1>1. Nuke(c) = x BY DEF Nuke, Socket
<1>2. x.taken = c.taken /\ x.err = c.err /\ x.st = STATE_CLOSED /\ x = [x EXCEPT !.dlen = x.dlen]
      /\ [x EXCEPT !.dlen = 0].taken = c.taken /\ [x EXCEPT !.dlen = 0].err = c.err
      /\ [x EXCEPT !.dlen = 0].st = STATE_CLOSED
  BY DEF Socket
<1> HIDE DEF x
<1> QED BY <1>1, <1>2 DEF Tame

LEMMA TameSynSent ==
  ASSUME NEW c \in Socket, Tame(c), c.st = STATE_SYN_SENT, NEW m \in Segments
  PROVE  Tame(SynSentProc(c, m).c)
<1> DEFINE acked == ACK \in m.fl /\ m.ack = ULong(c.seq + 1)
           d == [c EXCEPT !.flags = {ACK}, !.err = 0]
           x == [d EXCEPT !.st = STATE_ESTABLISHED, !.seq = Word32(@ + 1),
                          !.ack = Word32(m.seq + 1), !.exp = FALSE]
           y == [d EXCEPT !.st = STATE_SYN_RECEIVED, !.ack = Word32(@ + 1)]
           e == IF acked THEN x ELSE y
           r == SendSocket(c)
<1>1. d \in Socket BY Known, Zenon DEF Socket
<1>2. d.err = 0 /\ d.taken = c.taken BY Zenon DEF Socket
<1> HIDE DEF d
<1>3. Word32(d.seq + 1) \in Words /\ Word32(m.seq + 1) \in Words /\ Word32(d.ack + 1) \in Words
  <2>1. d.seq + 1 \in Int /\ m.seq + 1 \in Int /\ d.ack + 1 \in Int BY <1>1 DEF Socket, Segments, Words
  <2> QED BY <2>1, Numbers
<1>4. x \in Socket /\ y \in Socket
  <2>1. STATE_ESTABLISHED \in Reached /\ STATE_SYN_RECEIVED \in Reached BY Known
  <2> QED BY <1>1, <1>3, <2>1 DEF Socket
<1>5. x.err = 0 /\ x.taken = c.taken /\ y.err = 0 /\ y.taken = c.taken BY <1>1, <1>2, Zenon DEF Socket
<1>6. SynSentProc(c, m) = IF SYN \in m.fl THEN SendSocket(e) ELSE [r EXCEPT !.out = RstSpecial(m) \o @]
  BY Zenon DEF SynSentProc, d
<1> HIDE DEF x, y, acked
<1>7. e \in Socket /\ e.err = 0 /\ e.taken = c.taken BY <1>4, <1>5
<1> HIDE DEF e
<1>8. Tame(SendSocket(e).c)
  <2>1. Tame(e) BY <1>7, Tames
  <2> QED BY <1>7, <2>1, TameSends
<1>9. Tame(r.c) /\ r \in Results BY TameSends, Sends
<1> HIDE DEF r
<1>10. [r EXCEPT !.out = RstSpecial(m) \o @].c = r.c BY <1>9 DEF Results
<1> QED BY <1>6, <1>8, <1>9, <1>10

LEMMA TameEstablished ==
  ASSUME NEW c \in Socket, Tame(c), c.st = STATE_ESTABLISHED, NEW m \in Segments, m.len = 0
  PROVE  Tame(EstablishedProc(c, m).c)
<1> DEFINE left == Outstanding(c, m)
           n == c.dlen - left
           z == Release(c, n)
           d == IF left <= c.dlen THEN z ELSE c
           f == [d EXCEPT !.ack = Word32(@ + 1), !.st = STATE_CLOSING, !.exp = TRUE]
<1>1. left \in Int
  <2>1. c.seq + c.dlen \in Int /\ m.ack \in Int BY DEF Socket, Segments, Words
  <2>2. ULong(c.seq + c.dlen) \in Int BY <2>1, Numbers
  <2>3. ULong(c.seq + c.dlen) - m.ack \in Int BY <2>1, <2>2
  <2> QED BY <2>3, Numbers DEF Outstanding
<1>2. c.dlen \in Int /\ c.wcount \in Int /\ c.base \in Int /\ c.seq \in Int BY DEF Socket, Words
<1> HIDE DEF left
<1>3. /\ n \in Int /\ c.wcount - n \in Int /\ c.dlen - n \in Int /\ c.base + n \in Int /\ c.seq + n \in Int
  BY <1>1, <1>2
<1>4. Word32(c.seq + n) \in Words BY <1>3, Numbers
<1>5. PICK b \in BOOLEAN : b = (c.dlen # n) OBVIOUS
<1> HIDE DEF n
<1>6. z = [c EXCEPT !.flags = {ACK}, !.err = 0, !.wcount = c.wcount - n, !.dlen = c.dlen - n,
                    !.base = c.base + n, !.seq = Word32(c.seq + n), !.exp = b]
  BY <1>5 DEF Release, Socket
<1> HIDE DEF z
<1>7. z \in Socket BY <1>3, <1>4, <1>6, Known, ZenonT(60) DEF Socket
<1>8. z.err = 0 /\ z.taken = c.taken /\ z.st = c.st BY <1>6, Zenon DEF Socket
<1>9. d \in Socket /\ d.taken = c.taken /\ d.st = STATE_ESTABLISHED /\ Tame(d)
  <2>1. Tame(z) BY <1>7, <1>8, Tames
  <2> QED BY <1>7, <1>8, <2>1
<1>10. EstablishedProc(c, m) = IF ACK \notin m.fl THEN Done(c)
                               ELSE IF m.fl # {ACK} \/ m.len > 0 THEN ProcessTcpData(d, m) ELSE Done(d)
  BY Zenon DEF EstablishedProc, d, z, n, left
<1> HIDE DEF d
<1>11. Word32(d.ack + 1) \in Words
  <2>1. d.ack + 1 \in Int BY <1>9 DEF Socket, Words
  <2> QED BY <2>1, Numbers
<1>12. f \in Socket
  <2>1. STATE_CLOSING \in Reached BY Known
  <2>2. d \in Socket /\ Word32(d.ack + 1) \in Words BY <1>9, <1>11
  <2> QED BY ONLY <2>1, <2>2, Known, ZenonT(120) DEF Socket
<1>13. f.err = d.err /\ f.taken = d.taken /\ f.st = STATE_CLOSING BY <1>9, Zenon DEF Socket
<1>14. Tame(f)
  <2>1. d.st > STATE_UDP BY <1>9
  <2> HIDE DEF f
  <2>2. Tame(d) /\ f \in Socket /\ f.err = d.err /\ f.taken = d.taken /\ d.st > STATE_UDP
    BY <1>9, <1>12, <1>13, <2>1
  <2> QED BY ONLY <2>2 DEF Tame
<1>15. Take(d, m) = d BY DEF Take
<1>16. LET g == IF FIN \notin m.fl THEN d ELSE f IN
       ProcessTcpData(d, m) = IF ~Exact(d, m) THEN SendSocket(d)
                              ELSE IF m.len > 0 \/ g.st # d.st THEN SendSocket(g) ELSE Done(g)
  <2> DEFINE t == Take(d, m)
             k == [t EXCEPT !.ack = Word32(@ + 1), !.st = STATE_CLOSING, !.exp = TRUE]
             g == IF FIN \notin m.fl THEN t ELSE k
  <2>1. d.st = STATE_ESTABLISHED BY <1>9
  <2>2. ProcessTcpData(d, m) = IF ~Exact(d, m) THEN SendSocket(d)
                               ELSE IF m.len > 0 \/ g.st # d.st THEN SendSocket(g) ELSE Done(g)
    BY ONLY <2>1, Processed, ZenonT(60)
  <2> QED BY <1>15, <2>2
<1> HIDE DEF f
<1>17. Tame(SendSocket(d).c) /\ Tame(SendSocket(f).c) BY <1>9, <1>12, <1>14, TameSends
<1>18. Done(c).c = c /\ Done(d).c = d /\ Done(f).c = f BY DEF Done
<1> QED BY <1>9, <1>10, <1>14, <1>16, <1>17, <1>18

LEMMA TameClosing ==
  ASSUME NEW c \in Socket, Tame(c), NEW m
  PROVE  Tame(ClosingProc(c, m).c)
<1> DEFINE a == [c EXCEPT !.flags = {ACK, FIN}]
           r == SendSocket(a)
           z == [r.c EXCEPT !.exp = TRUE, !.err = MaxErr - 1]
           x == [c EXCEPT !.err = 0, !.flags = {ACK}]
           t == [c EXCEPT !.st = STATE_TIME_WAIT, !.err = 0, !.flags = {ACK, FIN}]
<1>1. a \in Socket /\ x \in Socket /\ t \in Socket
  <2>1. a \in Socket BY Known, Zenon DEF Socket
  <2>2. x \in Socket BY Known, Zenon DEF Socket
  <2> DEFINE fl == {ACK, FIN}  over == STATE_TIME_WAIT
  <2>3. fl \in SUBSET Flags /\ over \in Reached /\ 0 \in Int BY Known
  <2> HIDE DEF fl, over
  <2>4. [c EXCEPT !.st = over, !.err = 0, !.flags = fl] \in Socket BY <2>3, Zenon DEF Socket
  <2>5. t \in Socket BY <2>4 DEF fl, over
  <2> QED BY <2>1, <2>2, <2>5
<1>2. /\ a.err = c.err /\ a.taken = c.taken /\ a.st = c.st /\ x.err = 0 /\ x.taken = c.taken
      /\ t.err = 0 /\ t.taken = c.taken
  BY DEF Socket
<1>3. ClosingProc(c, m) = IF m.ack = ULong(c.seq + 1)
                             THEN IF c.rcount > 0 THEN Done(x) ELSE SendSocket(t)
                             ELSE [r EXCEPT !.c.exp = TRUE, !.c.err = MaxErr - 1]
  BY Zenon DEF ClosingProc
<1> HIDE DEF a, x, t
<1>4. Tame(a) /\ Tame(x) /\ Tame(t) BY <1>1, <1>2, Tames
<1>5. r \in Results /\ r.c \in Socket /\ Tame(r.c) BY <1>1, <1>4, Sends, TameSends
<1> HIDE DEF r
<1>6. z \in Socket BY <1>5, Known, Zenon DEF Socket
<1>7. z.taken = r.c.taken /\ z.err = MaxErr - 1 BY <1>5, Zenon DEF Socket
<1>8. [r EXCEPT !.c.exp = TRUE, !.c.err = MaxErr - 1] = [r EXCEPT !.c = z] BY <1>5 DEF Results
<1> HIDE DEF z
<1>9. Tame(z) BY <1>5, <1>6, <1>7, Tames
<1>10. [r EXCEPT !.c = z].c = z BY <1>5 DEF Results
<1>11. Tame(SendSocket(t).c) BY <1>1, <1>4, TameSends
<1>12. Done(x).c = x BY DEF Done
<1> QED BY <1>3, <1>4, <1>8, <1>9, <1>10, <1>11, <1>12

LEMMA TameLastAck ==
  ASSUME NEW c \in Socket, Tame(c), ~c.par, NEW m
  PROVE  Tame(LastAckProc(c, m).c)
<1> DEFINE a == [c EXCEPT !.flags = {ACK, FIN}]
           r == SendSocket(a)
           z == [r.c EXCEPT !.err = 0]
           x == [c EXCEPT !.exp = FALSE, !.dlen = 0, !.err = 0]
<1>1. a \in Socket /\ x \in Socket
  <2>1. a \in Socket BY Known, Zenon DEF Socket
  <2>2. x \in Socket BY Known, Zenon DEF Socket
  <2> QED BY <2>1, <2>2
<1>2. /\ a.err = c.err /\ a.taken = c.taken /\ a.st = c.st
      /\ x.err = 0 /\ x.taken = c.taken /\ x.par = c.par
  BY DEF Socket
<1>3. LastAckProc(c, m) = IF m.ack = ULong(c.seq + 1) THEN Done(Nuke(x)) ELSE [r EXCEPT !.c.err = 0]
  BY Zenon DEF LastAckProc
<1> HIDE DEF a, x
<1>4. Tame(a) BY <1>1, <1>2, Tames
<1>5. r \in Results /\ r.c \in Socket /\ Tame(r.c) BY <1>1, <1>4, Sends, TameSends
<1> HIDE DEF r
<1>6. z \in Socket BY <1>5, Known, Zenon DEF Socket
<1>7. z.taken = r.c.taken /\ z.err = 0 BY <1>5, Zenon DEF Socket
<1>8. [r EXCEPT !.c.err = 0] = [r EXCEPT !.c = z] BY <1>5 DEF Results
<1> HIDE DEF z
<1>9. Tame(z) BY <1>5, <1>6, <1>7, Tames
<1>10. [r EXCEPT !.c = z].c = z BY <1>5 DEF Results
<1>11. Tame(Nuke(x)) 
  <2>1. 0 <= x.err /\ x.err <= MaxErr + 1 BY <1>2, TcpAssumption
  <2> QED BY <1>1, <1>2, <2>1, TameNukes DEF Tame
<1>12. Done(Nuke(x)).c = Nuke(x) BY DEF Done
<1> QED BY <1>3, <1>8, <1>9, <1>10, <1>11, <1>12

(* A segment of the server comes to it.                                      *)
LEMMA TameTcp ==
  ASSUME NEW i, NEW w, NEW most, NEW c, Sender(i, c, w, most), Calm(c), Tame(c),
         NEW m \in Segments, m.len = 0, NEW isn
  PROVE  Tame(Tcp(c, m, isn).c)
<1>1. c \in Socket /\ ~c.par BY DEF Calm, Sender
<1>2. c.st \in {STATE_CLOSED, STATE_SYN_SENT, STATE_ESTABLISHED, STATE_CLOSING,
                STATE_LAST_ACK, STATE_TIME_WAIT}
  BY <1>1 DEF Sender, Socket, Reached, Calm
<1>3. CASE c.st = STATE_CLOSED
  <2>1. Tcp(c, m, isn).c = c BY <1>3 DEF Tcp
  <2> QED BY <2>1
<1>4. CASE c.st # STATE_CLOSED /\ RST \in m.fl
  <2> DEFINE x == [c EXCEPT !.dlen = 0, !.wcount = 0, !.rcount = 0]
             e == [x EXCEPT !.flags = {RST}, !.st = STATE_CLOSED]
  <2>1. Tcp(c, m, isn) = TcpRst(x) BY <1>2, <1>4 DEF Tcp
  <2>2. TcpRst(x).c = e BY DEF TcpRst, FastTcpPack
  <2>3. e.taken = c.taken /\ e.err = c.err /\ e.st = STATE_CLOSED BY <1>1 DEF Socket
  <2> HIDE DEF x, e
  <2> QED BY <2>1, <2>2, <2>3 DEF Tame
<1>5. CASE c.st # STATE_CLOSED /\ RST \notin m.fl
  <2>1. Tcp(c, m, isn) = ProcTcp(c, m, isn) BY <1>2, <1>5 DEF Tcp
  <2>2. CASE c.st = STATE_SYN_SENT
    <3>1. ProcTcp(c, m, isn) = SynSentProc(c, m) BY <2>2 DEF ProcTcp
    <3> QED BY <1>1, <2>1, <2>2, <3>1, TameSynSent
  <2>3. CASE c.st = STATE_ESTABLISHED
    <3>1. ProcTcp(c, m, isn) = EstablishedProc(c, m) BY <2>3 DEF ProcTcp
    <3> QED BY <1>1, <2>1, <2>3, <3>1, TameEstablished
  <2>4. CASE c.st = STATE_CLOSING
    <3>1. ProcTcp(c, m, isn) = ClosingProc(c, m) BY <2>4 DEF ProcTcp
    <3> QED BY <1>1, <2>1, <2>4, <3>1, TameClosing
  <2>5. CASE c.st = STATE_LAST_ACK
    <3>1. ProcTcp(c, m, isn) = LastAckProc(c, m) BY <2>5 DEF ProcTcp
    <3> QED BY <1>1, <2>1, <2>5, <3>1, TameLastAck
  <2>6. CASE c.st = STATE_TIME_WAIT
    <3>1. ProcTcp(c, m, isn).c = Nuke(c) BY <2>6 DEF ProcTcp, Done
    <3>2. Tame(Nuke(c)) BY <1>1, TameNukes DEF Tame
    <3> QED BY <2>1, <3>1, <3>2
  <2> QED BY <1>2, <1>5, <2>2, <2>3, <2>4, <2>5, <2>6
<1> QED BY <1>3, <1>4, <1>5

(* check_sockets visits it: the error after MaxErr gives it up.              *)
LEMMA TameRound ==
  ASSUME NEW c \in Socket, Tame(c), ~c.par, c.st > STATE_UDP, NEW expired \in BOOLEAN
  PROVE  Tame(CheckRound(c, expired).c)
<1> DEFINE late == expired /\ c.exp
           fresh == c.wcount - c.dlen # 0 /\ c.dlen < MaxTailW
           pushing == late /\ ~Spent(c) /\ c.st > STATE_SYN_RECEIVED /\ c.st < STATE_FINWAIT1
           fl == IF fresh \/ pushing THEN {PSH, ACK} ELSE c.flags
           er == IF late THEN c.err + 1 ELSE c.err
           d == [c EXCEPT !.flags = fl, !.err = er]
           a == [d EXCEPT !.dlen = 0]
           g == [Nuke(d) EXCEPT !.dlen = 0]
<1>1. CheckRound(c, expired) = CASE late /\ Spent(c) -> Done(g)
                                 [] late /\ ~Spent(c) -> SendSocket(a)
                                 [] ~late /\ fresh -> SendSocket(d)
                                 [] OTHER -> Done(c)
  BY Zenon DEF CheckRound, StartAgain
<1>2. /\ fl \in SUBSET Flags /\ er \in Int /\ 0 <= er /\ er <= MaxErr + 1
      /\ (late /\ ~Spent(c)) \/ ~late => er <= MaxErr
  <2>1. fl \in SUBSET Flags BY Known DEF Socket
  <2>2. c.err \in Int /\ MaxErr \in Nat /\ 0 <= c.err /\ c.err <= MaxErr BY TcpAssumption DEF Socket, Tame
  <2> QED BY <2>1, <2>2 DEF Spent
<1> HIDE DEF fl, er, fresh
<1>3. d \in Socket BY <1>2, Zenon DEF Socket
<1>4. d.taken = c.taken /\ d.err = er /\ d.par = c.par BY Zenon DEF Socket
<1> HIDE DEF d
<1>5. a \in Socket BY <1>3, Known, Zenon DEF Socket
<1>6. a.taken = d.taken /\ a.err = d.err BY <1>3, Zenon DEF Socket
<1> HIDE DEF a
<1>7. Tame(g) BY <1>2, <1>3, <1>4, TameNukes DEF Tame
<1>8. (late /\ ~Spent(c)) \/ ~late => Tame(a) /\ Tame(d) BY <1>2, <1>4, <1>6 DEF Tame
<1> HIDE DEF g, late
<1>9. Done(g).c = g /\ Done(c).c = c BY DEF Done
<1>10. (late /\ ~Spent(c)) \/ ~late => Tame(SendSocket(a).c) /\ Tame(SendSocket(d).c)
  BY <1>3, <1>5, <1>8, TameSends
<1> QED BY <1>1, <1>7, <1>9, <1>10

LEMMA TameChecks ==
  ASSUME NEW i \in Words, NEW w \in Nat, NEW most \in Int, NEW c, Sender(i, c, w, most), Calm(c), Tame(c),
         NEW expired \in BOOLEAN
  PROVE  Tame(CheckSockets(c, expired).c)
<1> DEFINE r1 == CheckRound(c, expired)
           r2 == CheckRound(r1.c, FALSE)
<1>1. c \in Socket /\ ~c.par BY DEF Sender
<1>2. CheckSockets(c, expired).c = IF c.st > STATE_UDP THEN IF r1.out = << >> THEN r1.c ELSE r2.c ELSE c
  BY <1>1 DEF CheckSockets, Done
<1>3. ASSUME c.st > STATE_UDP PROVE Tame(r1.c) /\ (r1.out # << >> => Tame(r2.c))
  <2>1. Tame(r1.c) BY <1>1, <1>3, TameRound
  <2>2. c.st # STATE_CLOSED BY <1>3
  <2>3. Sender(i, r1.c, w, most) BY <2>2, ClientRound DEF ClientStep, Client1
  <2>4. r1.c \in Socket /\ ~r1.c.par BY <2>3 DEF Sender
  <2>5. r1.out # << >> => r1.c.st > STATE_UDP
    <3>1. r1.out # << >> => r1.c.st = c.st BY <1>1, <2>2, CRound
    <3> QED BY <1>3, <3>1
  <2> HIDE DEF r1
  <2>6. r1.out # << >> => Tame(r2.c) BY <2>1, <2>4, <2>5, TameRound
  <2> QED BY <2>1, <2>6
<1> HIDE DEF r1, r2
<1> QED BY <1>2, <1>3

(* What the program does with it.                                           *)
LEMMA TameWrites ==
  ASSUME NEW c \in Socket, Tame(c), NEW n
  PROVE  Tame(WriteTcpBytes(c, n))
<1> DEFINE k == c.wcount + (IF n > MaxTailW - c.wcount THEN MaxTailW - c.wcount ELSE n)
           d == [c EXCEPT !.wcount = k]
<1>1. WriteTcpBytes(c, n) = c \/ WriteTcpBytes(c, n) = d BY DEF WriteTcpBytes
<1>2. d.taken = c.taken /\ d.err = c.err /\ d.st = c.st BY Zenon DEF Socket
<1> HIDE DEF d
<1> QED BY <1>1, <1>2 DEF Tame

LEMMA TameReads ==
  ASSUME NEW c, Calm(c), Tame(c), NEW n \in 0 .. c.rcount
  PROVE  Tame(SockRead(c, n).c)
<1> DEFINE d == Drain(c, n)
           e == [d EXCEPT !.flags = {ACK}, !.err = 0]
           advertise == /\ n > 2 \/ (d.rcount < LowMark /\ n > 0)
                        /\ \/ d.rcount = 0
                           \/ d.rcount < MaxTailR \div 2 /\ c.rcount > MaxTailR \div 2
<1>1. c \in Socket /\ c.rcount - n \in Int BY DEF Calm, Socket
<1>2. SockRead(c, n) = IF c.st # STATE_ESTABLISHED \/ c.dlen # 0 THEN Done(d)
                       ELSE IF c.wcount # 0 THEN SendSocket(d)
                       ELSE IF advertise THEN SendSocket(e) ELSE Done(d)
  BY Zenon DEF SockRead, d, e
<1>3. d = [c EXCEPT !.rcount = c.rcount - n] BY DEF Drain
<1> HIDE DEF d, advertise
<1>4. d \in Socket BY <1>1, <1>3, Zenon DEF Socket
<1>5. d.taken = c.taken /\ d.err = c.err /\ d.st = c.st BY <1>1, <1>3, Zenon DEF Socket
<1>6. e \in Socket BY <1>4, Known, Zenon DEF Socket
<1>7. e.taken = d.taken /\ e.err = 0 BY <1>4, Zenon DEF Socket
<1> HIDE DEF e
<1>8. Tame(d) /\ Tame(e) BY <1>1, <1>4, <1>5, <1>6, <1>7, Tames
<1>9. Tame(SendSocket(d).c) /\ Tame(SendSocket(e).c) /\ Done(d).c = d
  BY <1>4, <1>6, <1>8, TameSends DEF Done
<1> QED BY <1>2, <1>8, <1>9

LEMMA TameEnds ==
  ASSUME NEW c \in Socket, Tame(c), ~c.par
  PROVE  LET d == [c EXCEPT !.rcount = 0] IN
         Tame(d) /\ Tame(Nuke(d)) /\ Tame(Nuke(c)) /\ Tame(SendFin(c).c)
<1> DEFINE d == [c EXCEPT !.rcount = 0]
           f == [c EXCEPT !.st = STATE_LAST_ACK, !.exp = TRUE, !.flags = {ACK, FIN}, !.err = 0]
<1>1. d \in Socket BY Known, Zenon DEF Socket
<1>2. d.taken = c.taken /\ d.err = c.err /\ d.st = c.st /\ d.par = c.par BY Zenon DEF Socket
<1> HIDE DEF d
<1>3. Tame(d) /\ Tame(Nuke(d)) /\ Tame(Nuke(c))
  <2>1. Tame(d) BY <1>1, <1>2, Tames
  <2> QED BY <1>1, <1>2, <2>1, TameNukes DEF Tame
<1>4. f \in Socket
  <2> DEFINE fl == {ACK, FIN}  last == STATE_LAST_ACK
  <2>1. fl \in SUBSET Flags /\ last \in Reached BY Known
  <2> DEFINE e == [c EXCEPT !.st = last, !.exp = TRUE, !.flags = fl, !.err = 0]
  <2> HIDE DEF fl, last
  <2>2. e \in Socket BY <2>1, Known, Zenon DEF Socket
  <2> QED BY <2>2 DEF fl, last
<1>5. f.taken = c.taken /\ f.err = 0 BY DEF Socket
<1>6. SendFin(c) = SendSocket(f)
  <2>1. c.st # STATE_PEER_RESET BY DEF Socket, Reached
  <2> QED BY <2>1 DEF SendFin
<1> HIDE DEF f
<1>7. Tame(f) BY <1>4, <1>5, Tames
<1>8. Tame(SendFin(c).c) BY <1>4, <1>6, <1>7, TameSends
<1> QED BY <1>3, <1>8 DEF d

LEMMA TameOpens == ASSUME NEW i \in Words PROVE Tame(TcpOpen(Blank, i).c)
<1> DEFINE x == TcpOpen(Blank, i).c
<1>1. x.taken = 0 /\ x.err = 0 BY DEF TcpOpen, TcpSyn, FastTcpPack, Blank
<1> HIDE DEF x
<1>2. MaxErr \in Nat BY TcpAssumption
<1> QED BY <1>1, <1>2 DEF Tame, x

-----------------------------------------------------------------------------
(* The whole system: what is in flight, and the variables nothing depends   *)
(* on.                                                                      *)
Fleet(i) ==
  /\ Flight(i, sk[Client], sk[Server], net[Server], net[Client], app[Server], app[Client], up[Server])
  /\ Tame(sk[Client])
Kept ==
  /\ up \in [Host -> BOOLEAN] /\ poll \in [Host -> BOOLEAN]
  /\ lost \in 0 .. MaxLoss /\ got \in [Host -> Nat]

LEMMA Afloat ==
  ASSUME NEW i \in Isn, Counted(i), Fleet(i)
  PROVE  /\ Inv(i) /\ i \in Words
         /\ sk[Client] \in Socket /\ Calm(sk[Client]) /\ ~sk[Client].par /\ Tame(sk[Client])
         /\ Sender(i, sk[Client], wrote[Client], sk[Server].most)
         /\ wrote[Client] \in 0 .. Total[Client] /\ wrote[Client] \in Nat
         /\ Mute(sk[Server]) /\ app[Server] \notin {"opening", "failed"}
         /\ sk[Server].most \in 0 .. Total[Client] /\ sk[Server].most \in Nat /\ sk[Server].most \in Int
         /\ sk[Client].dlen <= sk[Client].wcount
         /\ Flight(i, sk[Client], sk[Server], net[Server], net[Client], app[Server], app[Client], up[Server])
         /\ Once(i, sk[Client], sk[Server], net[Server], net[Client], app[Server], got[Server])
<1>1. Inv(i) BY DEF Counted
<1>2. /\ i \in Words /\ sk[Client] \in Socket /\ wrote[Client] \in 0 .. Total[Client] /\ wrote[Client] \in Nat
      /\ sk[Server].most \in 0 .. Total[Client] /\ sk[Server].most \in Int
      /\ Sender(i, sk[Client], wrote[Client], sk[Server].most)
  BY <1>1, Facts
<1>3. sk[Server].most \in Nat BY <1>2, Hosts
<1>4. Calm(sk[Client]) /\ ~sk[Client].par /\ Mute(sk[Server]) /\ app[Server] \notin {"opening", "failed"}
  BY ServerAcks
<1>5. /\ Flight(i, sk[Client], sk[Server], net[Server], net[Client], app[Server], app[Client], up[Server])
      /\ Tame(sk[Client])
  BY DEF Fleet
<1>6. sk[Client].dlen <= sk[Client].wcount
  <2>1. CASE Live(sk[Client]) BY <1>2, <2>1 DEF Sender, Live
  <2>2. CASE ~Live(sk[Client]) BY <1>5, <2>2 DEF Flight
  <2> QED BY <2>1, <2>2
<1>7. Once(i, sk[Client], sk[Server], net[Server], net[Client], app[Server], got[Server])
  BY DEF Counted, Conn
<1> QED BY <1>1, <1>2, <1>3, <1>4, <1>5, <1>6, <1>7

LEMMA ClientFlies ==
  ASSUME NEW i \in Isn, Counted(i), Kept, NEW r, NEW q, Apply(Client, r, q), app'[Server] = app[Server],
         NEW b, app'[Client] = b, Tame(r.c),
         Flight(i, r.c, sk[Server], Transmit(net[Server], r.out), q, app[Server], b, up[Server])
  PROVE  Fleet(i)'
<1>1. Inv(i) BY DEF Counted
<1>2. /\ sk'[Client] = r.c /\ sk'[Server] = sk[Server]
      /\ net'[Client] = q /\ net'[Server] = Transmit(net[Server], r.out)
  BY <1>1, Moves, Hosts
<1>3. up'[Server] = up[Server] BY Hosts DEF Apply, Kept
<1> QED BY <1>2, <1>3 DEF Fleet

LEMMA ServerFlies ==
  ASSUME NEW i \in Isn, Counted(i), Kept, Fleet(i), NEW r, NEW q, Apply(Server, r, q),
         app'[Client] = app[Client], NEW e, app'[Server] = e,
         Flight(i, sk[Client], r.c, q, Transmit(net[Client], r.out), e, app[Client], r.up)
  PROVE  Fleet(i)'
<1>1. Inv(i) BY DEF Counted
<1>2. /\ sk'[Server] = r.c /\ sk'[Client] = sk[Client]
      /\ net'[Server] = q /\ net'[Client] = Transmit(net[Client], r.out)
  BY <1>1, Moves, Hosts
<1>3. up'[Server] = r.up BY Hosts DEF Apply, Kept
<1>4. Tame(sk[Client]) BY DEF Fleet
<1> QED BY <1>2, <1>3, <1>4 DEF Fleet

(* The timers wait for silence, and no number comes twice.                   *)
Unhurried == ~Hasty /\ Total[Client] + 1 < SeqSpace

LEMMA FleetDelivers ==
  ASSUME Serial, Unhurried, NEW i \in Isn, Counted(i), Kept, Fleet(i), NEW h \in Host,
         DeliverNext(h) \/ DeliverAny(h)
  PROVE  Fleet(i)'
<1> DEFINE m == Head(net[h])  q == Tail(net[h])
<1>1. ~Routed /\ net[h] # << >> /\ Receive(h, m, q) BY DEF Serial, DeliverNext, DeliverAny
<1>2. PICK isn \in Isn : Apply(h, Tcp(sk[h], m, isn), q) BY <1>1 DEF Receive
<1>3. app' = app /\ up[h] BY <1>1 DEF Receive
<1>4. CASE h = Client
  <2> DEFINE c == sk[Client]  d == sk[Server]  ns == net[Server]  nc == net[Client]
             a == app[Server]  b == app[Client]  g == got[Server]  us == up[Server]
             w == wrote[Client]  past == Past(c)  r == Tcp(c, Head(nc), isn)
  <2>1. /\ i \in Words /\ Sender(i, c, w, d.most) /\ Calm(c) /\ Tame(c) /\ w \in 0 .. Total[Client]
        /\ d.most \in 0 .. Total[Client] /\ d.most \in Nat
        /\ c.dlen <= c.wcount /\ Flight(i, c, d, ns, nc, a, b, us) /\ Once(i, c, d, ns, nc, a, g)
    BY Afloat
  <2>2. Head(nc) \in FromServer(i, d.most, past) /\ ns \in Seq(FromClient(i, w, past))
    <3>1. /\ nc \in Queues(FromServer(i, d.most, past)) /\ ns \in Queues(FromClient(i, w, past))
      BY Facts DEF Counted
    <3>2. Head(nc) \in FromServer(i, d.most, past) BY <1>1, <1>4, <3>1, Taken
    <3> QED BY <1>1, <3>1, <3>2 DEF Queues
  <2>3. Head(nc).len = 0 /\ Head(nc) \in Segments BY <2>2 DEF FromServer, Serial
  <2>4. LongSpace = SeqSpace /\ Total[Client] + 1 < SeqSpace BY DEF Serial, Unhurried
  <2>5. d.st = STATE_SYN_RECEIVED => d.ack = Num(i, 1) BY ServerAcks
  <2>6. nc # << >> BY <1>1, <1>4
  <2>7. Head(nc) \in ToClient(i, c) BY <2>1, <2>6, OnceLost
  <2>8. Apply(Client, r, Tail(nc)) BY <1>2, <1>4
  <2> HIDE DEF c, d, ns, nc, a, b, g, us, w, past, m, q
  <2>9. \E e : Turns(c, Head(nc), e) /\ Utters(e, r) BY <2>1, <2>3, <2>4, <2>7, CTcp
  <2>10. Tame(r.c) BY <2>1, <2>3, TameTcp
  <2> HIDE DEF r
  <2>11. PICK e : Turns(c, Head(nc), e) /\ Utters(e, r) BY <2>9
  <2>12. Flight(i, e, d, ns, Tail(nc), a, b, us) /\ e.dlen <= e.wcount
    BY ONLY <2>1, <2>2, <2>4, <2>5, <2>6, <2>11, FlightTurns
  <2>13. e \in Socket
    <3>1. Comes(c, e) BY <2>11 DEF Turns, Rests, Connects, Settles, Lingers, Dies, Gone
    <3> QED BY <3>1 DEF Comes, Calm
  <2>14. Flight(i, r.c, d, ns, Tail(nc), a, b, us) /\ Adds(r) BY <2>1, <2>11, <2>12, <2>13, FlightUtters
  <2>15. Flight(i, r.c, d, Transmit(ns, r.out), Tail(nc), a, b, us) BY <1>1, <2>14, FlightSays
  <2>16. Flight(i, r.c, sk[Server], Transmit(net[Server], r.out), Tail(nc), app[Server], app[Client], up[Server])
    BY <2>15 DEF d, ns, a, b, us
  <2> QED BY <1>3, <2>8, <2>10, <2>16, ClientFlies
<1>5. CASE h = Server
  <2> DEFINE c == sk[Client]  d == sk[Server]  ns == net[Server]  nc == net[Client]
             a == app[Server]  b == app[Client]  g == got[Server]
             w == wrote[Client]  past == Past(c)  r == Tcp(d, Head(ns), isn)
  <2>1. /\ i \in Words /\ c \in Socket /\ Mute(d) /\ w \in 0 .. Total[Client]
        /\ d.most \in Nat /\ c.dlen <= c.wcount /\ Once(i, c, d, ns, nc, a, g)
    BY Afloat
  <2>2. Flight(i, c, d, ns, nc, a, b, TRUE)
    <3>1. Flight(i, c, d, ns, nc, a, b, up[Server]) BY Afloat
    <3> QED BY <1>3, <1>5, <3>1 DEF Flight
  <2>3. Receiver(i, d, Total[Client], past) /\ past \in BOOLEAN /\ ns \in Queues(FromClient(i, w, past))
    BY Facts DEF Counted
  <2>4. ns # << >> /\ Head(ns) \in FromClient(i, w, past) BY <1>1, <1>5, <2>3, Taken
  <2>5. SYN \in Head(ns).fl => Head(ns).fl = {SYN}
    <3>1. ns \in Seq(ToServer(c)) BY <2>1 DEF Once
    <3>2. Head(ns) \in ToServer(c) BY <2>4, <3>1, Behead
    <3> QED BY <3>2 DEF ToServer
  <2>6. Total[Client] < SeqSpace /\ isn \in Words BY Hosts DEF Serial, Short
  <2>7. Apply(Server, r, Tail(ns)) BY <1>2, <1>5
  <2> HIDE DEF c, d, ns, nc, a, b, g, w, past, m, q
  <2>8. Hearing(d, Head(ns), r) BY <2>1, <2>3, <2>4, <2>5, <2>6, STcp
  <2>9. r.c.most \in Nat
    <3>1. ServerStep(i, d, r, Total[Client], past) BY <2>1, <2>3, <2>4, <2>6, ServerTcp
    <3>2. r.c \in Socket /\ 0 <= r.c.most BY <3>1 DEF ServerStep, Receiver
    <3> QED BY <3>2 DEF Socket
  <2> HIDE DEF r
  <2>10. Flight(i, c, r.c, Tail(ns), Transmit(nc, r.out), a, b, r.up)
    BY <1>1, <2>1, <2>2, <2>4, <2>8, <2>9, FlightHears DEF past
  <2>11. Flight(i, sk[Client], r.c, Tail(ns), Transmit(net[Client], r.out), app[Server], app[Client], r.up)
    BY <2>10 DEF c, nc, a, b
  <2> QED BY <1>3, <2>7, <2>11, ServerFlies
<1> QED BY <1>4, <1>5, Hosts

LEMMA FleetLoses ==
  ASSUME NEW i \in Isn, Counted(i), Fleet(i), NEW h \in Host, Lose(h)
  PROVE  Fleet(i)'
<1>1. Inv(i) BY DEF Counted
<1>2. /\ net[h] # << >> /\ net' = [net EXCEPT ![h] = Tail(@)] /\ sk' = sk /\ app' = app /\ up' = up
  BY DEF Lose
<1>3. net = [g \in Host |-> net[g]] BY <1>1, Facts
<1>4. net'[h] = Tail(net[h]) /\ (\A g \in Host : g # h => net'[g] = net[g]) BY <1>2, <1>3
<1> DEFINE c == sk[Client]  d == sk[Server]  ns == net[Server]  nc == net[Client]
           a == app[Server]  b == app[Client]  us == up[Server]
<1>5. Flight(i, c, d, ns, nc, a, b, us) /\ Tame(c) BY DEF Fleet
<1>6. h = Client => net'[Client] = Tail(nc) /\ net'[Server] = ns /\ nc # << >> BY <1>2, <1>4, Hosts
<1>7. h = Server => net'[Client] = nc /\ net'[Server] = Tail(ns) /\ ns # << >> BY <1>2, <1>4, Hosts
<1>8. sk'[Client] = c /\ sk'[Server] = d /\ app'[Server] = a /\ app'[Client] = b /\ up'[Server] = us BY <1>2
<1> HIDE DEF c, d, ns, nc, a, b, us
<1>9. Flight(i, c, d, net'[Server], net'[Client], a, b, us)
  BY <1>5, <1>6, <1>7, Hosts, FlightTail
<1> QED BY <1>5, <1>8, <1>9 DEF Fleet

LEMMA ServerSteps ==
  ASSUME Serial, NEW i \in Isn, Counted(i), Kept, Fleet(i), NEW r, Apply(Server, r, net[Server]), up[Server],
         app'[Client] = app[Client], NEW e, app'[Server] = e, NEW n,
         app[Server] # "idle" => e # "idle",
         \/ /\ Keeps(sk[Server], r, n)
            /\ e \in {"open", "flushing", "fin"} =>
                 app[Server] \in {"open", "flushing", "fin"} \/ sk[Server].st = STATE_ESTABLISHED
         \/ /\ Drops(sk[Server], r)
            /\ e \in {"open", "flushing", "fin"} => e = app[Server] /\ sk[Server].st # STATE_ESTABLISHED
         \/ Fins(sk[Server], r) /\ app[Server] = "fin" /\ e \notin {"open", "flushing", "fin"}
  PROVE  Fleet(i)'
<1> DEFINE c == sk[Client]  d == sk[Server]  ns == net[Server]  nc == net[Client]
           a == app[Server]  b == app[Client]  g == got[Server]
<1>1. c \in Socket /\ d.most \in Nat /\ c.dlen <= c.wcount /\ Once(i, c, d, ns, nc, a, g) BY Afloat
<1>2. Flight(i, c, d, ns, nc, a, b, TRUE)
  <2>1. Flight(i, c, d, ns, nc, a, b, up[Server]) BY Afloat
  <2> QED BY <2>1 DEF Flight
<1>3. ~Routed BY DEF Serial
<1>4. /\ a # "idle" => e # "idle"
      /\ \/ Keeps(d, r, n) /\ (e \in {"open", "flushing", "fin"} =>
                                 a \in {"open", "flushing", "fin"} \/ d.st = STATE_ESTABLISHED)
         \/ Drops(d, r) /\ (e \in {"open", "flushing", "fin"} => e = a /\ d.st # STATE_ESTABLISHED)
         \/ Fins(d, r) /\ a = "fin" /\ e \notin {"open", "flushing", "fin"}
  OBVIOUS
<1> HIDE DEF c, d, ns, nc, a, b, g
<1>5. Flight(i, c, r.c, ns, Transmit(nc, r.out), e, b, r.up) BY ONLY <1>1, <1>2, <1>3, <1>4, FlightMoves, ZenonT(60)
<1>6. Flight(i, sk[Client], r.c, net[Server], Transmit(net[Client], r.out), e, app[Client], r.up)
  BY <1>5 DEF c, ns, nc, b
<1> QED BY <1>6, ServerFlies

LEMMA FleetChecks ==
  ASSUME Serial, Unhurried, NEW i \in Isn, Counted(i), Kept, Fleet(i), NEW h \in Host,
         NEW expired \in BOOLEAN, Check(h, expired)
  PROVE  Fleet(i)'
<1>1. /\ Apply(h, CheckSockets(sk[h], expired), net[h]) /\ app' = app /\ up[h]
      /\ expired => \A g \in Host : up[g] => net[g] = << >>
  BY DEF Check, Unhurried
<1>2. CASE h = Client
  <2> DEFINE c == sk[Client]  d == sk[Server]  ns == net[Server]  nc == net[Client]
             a == app[Server]  b == app[Client]  us == up[Server]
             w == wrote[Client]  r == CheckSockets(c, expired)
  <2>1. /\ i \in Words /\ Sender(i, c, w, d.most) /\ Calm(c) /\ Tame(c) /\ w \in Nat
        /\ d.most \in Nat /\ d.most \in Int
        /\ c.dlen <= c.wcount /\ Flight(i, c, d, ns, nc, a, b, us)
    BY Afloat
  <2>2. Silence(expired, us, ns, nc) BY <1>1, <1>2, Hosts DEF Silence
  <2>3. ~Routed BY DEF Serial
  <2>4. Apply(Client, r, nc) BY <1>1, <1>2
  <2> HIDE DEF c, d, ns, nc, a, b, us, w
  <2>5. Flight(i, r.c, d, Transmit(ns, r.out), nc, a, b, us) BY <2>1, <2>2, <2>3, FlightChecks
  <2>6. Tame(r.c) BY <2>1, TameChecks
  <2> HIDE DEF r
  <2>7. Flight(i, r.c, sk[Server], Transmit(net[Server], r.out), nc, app[Server], app[Client], up[Server])
    BY <2>5 DEF d, ns, a, b, us
  <2> QED BY <1>1, <2>4, <2>6, <2>7, ClientFlies
<1>3. CASE h = Server
  <2> DEFINE d == sk[Server]  r == CheckSockets(d, expired)  n == d.rcount
  <2>1. Keeps(d, r, n) \/ (Drops(d, r) /\ d.st # STATE_ESTABLISHED) BY Afloat, SChecks
  <2>2. Apply(Server, r, net[Server]) /\ app'[Client] = app[Client] /\ app'[Server] = app[Server] /\ up[Server]
    BY <1>1, <1>3
  <2> HIDE DEF r, n
  <2> QED BY <2>1, <2>2, ServerSteps
<1> QED BY <1>2, <1>3, Hosts

(* The programs.  The client's goes on to t.                                 *)
LEMMA ClientProgram ==
  ASSUME Serial, NEW i \in Isn, Counted(i), Kept, Fleet(i), NEW from, NEW t, NEW r,
         Program(Client, from, t, r), Tame(r.c), NEW e, e \in Socket, e.dlen <= e.wcount, Utters(e, r),
         Flight(i, e, sk[Server], net[Server], net[Client], app[Server], t, up[Server])
  PROVE  Fleet(i)'
<1>1. app' = [app EXCEPT ![Client] = t] /\ Apply(Client, r, net[Client]) BY DEF Program
<1>2. app \in [Host -> AppStates] BY Facts DEF Counted
<1>3. app'[Client] = t /\ app'[Server] = app[Server] BY <1>1, <1>2, Hosts
<1>4. sk[Server].most \in Nat /\ ~Routed BY Afloat DEF Serial
<1>5. Flight(i, r.c, sk[Server], net[Server], net[Client], app[Server], t, up[Server]) /\ Adds(r)
  BY <1>4, FlightUtters
<1>6. Flight(i, r.c, sk[Server], Transmit(net[Server], r.out), net[Client], app[Server], t, up[Server])
  BY <1>4, <1>5, FlightSays
<1> QED BY <1>1, <1>3, <1>6, ClientFlies

LEMMA ClientRests ==
  ASSUME Serial, NEW i \in Isn, Counted(i), Kept, Fleet(i), NEW t, NEW r, NEW from,
         Program(Client, from, t, r), Tame(r.c), NEW e, Rests(sk[Client], e), Utters(e, r),
         Live(sk[Client]) /\ t \in {"fin", "last", "closed"} =>
           from \in {"fin", "last", "closed"} \/ sk[Client].wcount = 0
  PROVE  Fleet(i)'
<1>1. /\ sk[Client].dlen <= sk[Client].wcount /\ from = app[Client]
      /\ Flight(i, sk[Client], sk[Server], net[Server], net[Client], app[Server], from, up[Server])
  BY Afloat DEF Program
<1>2. e \in Socket /\ e.dlen <= e.wcount BY <1>1 DEF Rests, Counts, Comes, Calm
<1>3. Flight(i, e, sk[Server], net[Server], net[Client], app[Server], t, up[Server])
  BY <1>1, FlightRests
<1> QED BY <1>2, <1>3, ClientProgram

LEMMA ClientGone ==
  ASSUME Serial, NEW i \in Isn, Counted(i), Kept, Fleet(i), NEW t, NEW r, NEW from,
         Program(Client, from, t, r), Tame(r.c), NEW e \in Socket, Utters(e, r),
         e.st \in {STATE_CLOSED, STATE_LAST_ACK}, e.wcount = 0, e.dlen = 0
  PROVE  Fleet(i)'
<1>1. Flight(i, sk[Client], sk[Server], net[Server], net[Client], app[Server], app[Client], up[Server])
  BY Afloat
<1>2. Flight(i, e, sk[Server], net[Server], net[Client], app[Server], t, up[Server])
  BY <1>1, FlightGone
<1>3. e.dlen <= e.wcount OBVIOUS
<1> QED BY <1>2, <1>3, ClientProgram

LEMMA ServerProgram ==
  ASSUME Serial, NEW i \in Isn, Counted(i), Kept, Fleet(i), NEW from, NEW t, t # "idle", NEW r,
         Program(Server, from, t, r), NEW n,
         \/ /\ Keeps(sk[Server], r, n)
            /\ t \in {"open", "flushing", "fin"} =>
                 from \in {"open", "flushing", "fin"} \/ sk[Server].st = STATE_ESTABLISHED
         \/ Drops(sk[Server], r) /\ t \notin {"open", "flushing", "fin"}
         \/ Fins(sk[Server], r) /\ from = "fin" /\ t \notin {"open", "flushing", "fin"}
  PROVE  Fleet(i)'
<1>1. app' = [app EXCEPT ![Server] = t] /\ Apply(Server, r, net[Server]) /\ up[Server] /\ app[Server] = from
  BY DEF Program
<1>2. app \in [Host -> AppStates] BY Facts DEF Counted
<1>3. app'[Server] = t /\ app'[Client] = app[Client] BY <1>1, <1>2, Hosts
<1> QED BY <1>1, <1>3, ServerSteps

LEMMA Emptied ==
  ASSUME NEW i \in Isn, Counted(i), Fleet(i), app[Client] \in {"fin", "last", "closed"}
  PROVE  sk[Client].wcount = 0 /\ sk[Client].dlen = 0
<1>1. /\ Flight(i, sk[Client], sk[Server], net[Server], net[Client], app[Server], app[Client], up[Server])
      /\ Sender(i, sk[Client], wrote[Client], sk[Server].most)
      /\ sk[Client].dlen <= sk[Client].wcount /\ sk[Client] \in Socket
  BY Afloat
<1>2. CASE Live(sk[Client])
  <2>1. sk[Client].wcount = 0 BY <1>1, <1>2 DEF Flight
  <2>2. 0 <= sk[Client].dlen BY <1>1, <1>2 DEF Sender, Live
  <2>3. sk[Client].dlen \in Int BY <1>1 DEF Socket
  <2> QED BY <1>1, <2>1, <2>2, <2>3
<1>3. CASE ~Live(sk[Client]) BY <1>1, <1>3 DEF Flight
<1> QED BY <1>2, <1>3

LEMMA FleetOpens ==
  ASSUME Serial, NEW i \in Isn, Counted(i), Kept, Fleet(i), Connected \/ Accept
  PROVE  Fleet(i)'
<1>1. Calm(sk[Client]) /\ Mute(sk[Server]) /\ Tame(sk[Client]) BY Afloat
<1>2. CASE Connected
  <2> DEFINE t == IF sk[Client].st = STATE_CLOSED THEN "failed" ELSE "open"
  <2>1. Program(Client, "opening", t, Done(sk[Client])) BY <1>2 DEF Connected
  <2>2. t \notin {"fin", "last", "closed"} OBVIOUS
  <2> HIDE DEF t
  <2>3. Comes(sk[Client], sk[Client]) /\ Utters(sk[Client], Done(sk[Client])) BY <1>1, WeakSelf
  <2>4. Rests(sk[Client], sk[Client]) /\ Done(sk[Client]).c = sk[Client] BY <2>3 DEF Rests, Counts, Done
  <2> QED BY <1>1, <2>1, <2>2, <2>3, <2>4, ClientRests
<1>3. CASE Accept
  <2>1. Program(Server, "idle", "open", Done(sk[Server])) /\ sk[Server].st = STATE_ESTABLISHED
    BY <1>3 DEF Accept
  <2>2. Keeps(sk[Server], Done(sk[Server]), sk[Server].rcount) BY <1>1, MuteStays
  <2> QED BY <2>1, <2>2, ServerProgram
<1> QED BY <1>2, <1>3

LEMMA FleetWrites ==
  ASSUME Serial, NEW i \in Isn, Counted(i), Kept, Fleet(i), NEW h \in Host, Write(h)
  PROVE  Fleet(i)'
<1>1. PICK n \in 1 .. (Total[h] - wrote[h]) :
        /\ WriteTcpBytes(sk[h], n) # sk[h]
        /\ Program(h, "open", "open", Done(WriteTcpBytes(sk[h], n)))
  BY DEF Write
<1>2. h = Client
  <2>1. h = Server => Total[h] - wrote[h] = 0 BY Facts, Hosts DEF Serial, Quiet, Counted
  <2> QED BY <2>1, Hosts
<1> DEFINE c == sk[Client]  d == sk[Server]  ns == net[Server]  nc == net[Client]
           a == app[Server]  us == up[Server]  w == wrote[Client]  x == WriteTcpBytes(c, n)  r == Done(x)
<1>3. /\ Sender(i, c, w, d.most) /\ Calm(c) /\ Tame(c) /\ c \in Socket /\ c.dlen <= c.wcount /\ d.most \in Int
      /\ Flight(i, c, d, ns, nc, a, app[Client], us)
  BY Afloat
<1>4. n \in Nat /\ x # c /\ Program(Client, "open", "open", r) BY <1>1, <1>2
<1>5. c.st = STATE_ESTABLISHED BY <1>4 DEF WriteTcpBytes
<1>6. r.c = x BY DEF Done
<1> HIDE DEF c, d, ns, nc, a, us, w, r
<1>7. Fills(c, x) /\ Utters(x, Done(x)) BY <1>3, <1>4, CWrites
<1>8. Tame(x) BY <1>3, TameWrites
<1> HIDE DEF x
<1>9. /\ x \in Socket /\ x.st = c.st /\ x.base = c.base /\ x.dlen = c.dlen /\ x.wcount >= c.wcount
  BY <1>7 DEF Fills, Comes, Calm
<1>10. c.wcount \in Int /\ c.dlen \in Int /\ c.base \in Int /\ x.wcount \in Int BY <1>3, <1>9 DEF Socket
<1>11. Flight(i, x, d, ns, nc, a, "open", us)
  <2>1. Live(c) /\ Live(x) BY <1>5, <1>9 DEF Live
  <2>2. Replied(i, x, d, nc, a) BY <1>3, <1>9, <2>1 DEF Flight, Replied
  <2>3. d.most <= x.base + x.wcount BY <1>3, <1>9, <1>10, <2>1 DEF Flight
  <2>4. us => ns \in Seq(Within(x.base + x.dlen)) BY <1>3, <1>9, <2>1 DEF Flight
  <2>5. Waiting(i, d, a) BY <1>3, <2>1 DEF Flight
  <2> QED BY <1>5, <1>9, <2>1, <2>2, <2>3, <2>4, <2>5 DEF Flight
<1>12. x.dlen <= x.wcount BY <1>3, <1>9, <1>10
<1>13. Flight(i, x, sk[Server], net[Server], net[Client], app[Server], "open", up[Server])
  BY <1>11 DEF d, ns, nc, a, us
<1>14. Utters(x, r) /\ Tame(r.c) BY <1>6, <1>7, <1>8 DEF r
<1> QED BY <1>4, <1>9, <1>12, <1>13, <1>14, ClientProgram

LEMMA FleetReads ==
  ASSUME Serial, NEW i \in Isn, Counted(i), Kept, Fleet(i), NEW h \in Host, Read(h)
  PROVE  Fleet(i)'
<1>1. PICK n \in 0 .. sk[h].rcount : Program(h, "open", "open", SockRead(sk[h], n)) BY DEF Read
<1>2. Calm(sk[Client]) /\ Mute(sk[Server]) /\ Tame(sk[Client]) BY Afloat
<1>3. CASE h = Client
  <2>1. PICK e : Rests(sk[Client], e) /\ Utters(e, SockRead(sk[Client], n)) BY <1>2, <1>3, CReads
  <2>2. Tame(SockRead(sk[Client], n).c) BY <1>2, <1>3, TameReads
  <2>3. Program(Client, "open", "open", SockRead(sk[Client], n)) BY <1>1, <1>3
  <2> QED BY <2>1, <2>2, <2>3, ClientRests
<1>4. CASE h = Server
  <2>1. Keeps(sk[Server], SockRead(sk[Server], n), sk[Server].rcount - n) BY <1>2, <1>4, SReads
  <2>2. Program(Server, "open", "open", SockRead(sk[Server], n)) BY <1>1, <1>4
  <2> QED BY <2>1, <2>2, ServerProgram
<1> QED BY <1>3, <1>4, Hosts

LEMMA FleetCloses ==
  ASSUME Serial, NEW i \in Isn, Counted(i), Kept, Fleet(i), NEW h \in Host, Close(h)
  PROVE  Fleet(i)'
<1> DEFINE c == [sk[h] EXCEPT !.rcount = 0]
           gone == c.st < STATE_ESTABLISHED
           t == IF gone THEN "closed" ELSE IF Flushed(c) THEN "fin" ELSE "flushing"
           r == Done(IF gone THEN Nuke(c) ELSE c)
<1>1. PICK from \in {"open", "failed"} : Program(h, from, t, r) BY DEF Close
<1>2. /\ Calm(sk[Client]) /\ sk[Client] \in Socket /\ ~sk[Client].par /\ Mute(sk[Server]) /\ Tame(sk[Client])
      /\ app[Server] \notin {"opening", "failed"}
  BY Afloat
<1>3. CASE h = Client
  <2>1. /\ Rests(sk[Client], c) /\ Utters(c, Done(c)) /\ Wipes(sk[Client], Nuke(c)) /\ Utters(Nuke(c), Done(Nuke(c)))
    BY <1>2, <1>3, CEnds
  <2>2. Tame(c) /\ Tame(Nuke(c)) BY <1>2, <1>3, TameEnds
  <2>3. Done(c).c = c /\ Done(Nuke(c)).c = Nuke(c) BY DEF Done
  <2>4. c.st = sk[Client].st /\ c.wcount = sk[Client].wcount BY <2>1 DEF Rests, Counts
  <2>5. CASE gone
    <3>1. Program(Client, from, "closed", Done(Nuke(c))) BY <1>1, <1>3, <2>5
    <3> HIDE DEF c, t, r
    <3>2. ~Live(sk[Client]) BY <2>4, <2>5 DEF Live
    <3>3. sk[Client].dlen = 0
      <4>1. Flight(i, sk[Client], sk[Server], net[Server], net[Client], app[Server], app[Client], up[Server])
        BY Afloat
      <4> QED BY <3>2, <4>1 DEF Flight
    <3>4. Nuke(c) \in Socket /\ Nuke(c).st = STATE_CLOSED /\ Nuke(c).wcount = 0 /\ Nuke(c).dlen = 0
      BY <2>1, <3>3 DEF Wipes, Gone, Comes, Calm
    <3>5. Tame(Done(Nuke(c)).c) BY <2>2, <2>3
    <3> QED BY <2>1, <3>1, <3>4, <3>5, ClientGone
  <2>6. CASE ~gone
    <3>1. Program(Client, from, t, Done(c)) BY <1>1, <1>3, <2>6
    <3>2. t = "fin" => Flushed(c) BY <2>6
    <3>3. t \in {"fin", "flushing"} BY <2>6
    <3> HIDE DEF c, t, r, gone
    <3>4. Live(sk[Client]) /\ t \in {"fin", "last", "closed"} => sk[Client].wcount = 0
      BY <2>4, <3>2, <3>3 DEF Flushed, Live
    <3>5. Tame(Done(c).c) BY <2>2, <2>3
    <3> QED BY <2>1, <3>1, <3>4, <3>5, ClientRests
  <2> QED BY <2>5, <2>6
<1>4. CASE h = Server
  <2>1. Keeps(sk[Server], Done(c), 0) /\ Drops(sk[Server], Done(Nuke(c))) BY <1>2, <1>4, SCloses
  <2>2. from = "open" BY <1>1, <1>2, <1>4 DEF Program
  <2>3. t # "idle" /\ (gone => t \notin {"open", "flushing", "fin"}) OBVIOUS
  <2>4. Program(Server, from, t, r) BY <1>1, <1>4
  <2>5. r = (IF gone THEN Done(Nuke(c)) ELSE Done(c)) OBVIOUS
  <2> HIDE DEF c, t, r, gone
  <2>6. CASE gone
    <3>1. Drops(sk[Server], r) /\ t \notin {"open", "flushing", "fin"} BY <2>1, <2>3, <2>5, <2>6
    <3> QED BY <2>3, <2>4, <3>1, ServerProgram
  <2>7. CASE ~gone
    <3>1. Keeps(sk[Server], r, 0) BY <2>1, <2>5, <2>7
    <3> QED BY <2>2, <2>3, <2>4, <3>1, ServerProgram
  <2> QED BY <2>6, <2>7
<1> QED BY <1>3, <1>4, Hosts

LEMMA FleetEnds ==
  ASSUME Serial, NEW i \in Isn, Counted(i), Kept, Fleet(i), NEW h \in Host, Flush(h) \/ Fin(h) \/ CloseEnds(h)
  PROVE  Fleet(i)'
<1>1. /\ Calm(sk[Client]) /\ sk[Client] \in Socket /\ ~sk[Client].par /\ Mute(sk[Server]) /\ Tame(sk[Client])
  BY Afloat
<1>2. /\ Tame(Nuke(sk[Client])) /\ Tame(SendFin(sk[Client]).c)
      /\ Done(sk[Client]).c = sk[Client] /\ Done(Nuke(sk[Client])).c = Nuke(sk[Client])
  BY <1>1, TameEnds DEF Done
<1>3. CASE Flush(h)
  <2>1. Program(h, "flushing", "fin", Done(sk[h])) /\ Flushed(sk[h]) BY <1>3 DEF Flush
  <2>2. CASE h = Client
    <3>1. Comes(sk[Client], sk[Client]) /\ Utters(sk[Client], Done(sk[Client])) BY <1>1, WeakSelf
    <3>2. Rests(sk[Client], sk[Client]) BY <3>1 DEF Rests, Counts
    <3>3. Live(sk[Client]) => sk[Client].wcount = 0 BY <2>1, <2>2 DEF Flushed, Live
    <3>4. Tame(Done(sk[Client]).c) BY <1>1, <1>2
    <3> QED BY <2>1, <2>2, <3>1, <3>2, <3>3, <3>4, ClientRests
  <2>3. CASE h = Server
    <3>1. Keeps(sk[Server], Done(sk[Server]), sk[Server].rcount) BY <1>1, MuteStays
    <3> QED BY <2>1, <2>3, <3>1, ServerProgram
  <2> QED BY <2>2, <2>3, Hosts
<1>4. CASE Fin(h)
  <2> DEFINE t == IF sk[h].st = STATE_PEER_RESET THEN "closed" ELSE "last"
  <2>1. Program(h, "fin", t, SendFin(sk[h])) BY <1>4 DEF Fin
  <2>2. t \notin {"idle", "open", "flushing", "fin"} OBVIOUS
  <2> HIDE DEF t
  <2>3. CASE h = Client
    <3>1. PICK e : Lasts(sk[Client], e) /\ Utters(e, SendFin(sk[Client])) BY <1>1, CEnds
    <3>2. app[Client] \in {"fin", "last", "closed"} BY <2>1, <2>3 DEF Program
    <3>3. sk[Client].wcount = 0 /\ sk[Client].dlen = 0 BY <3>2, Emptied
    <3>4. e \in Socket /\ e.st = STATE_LAST_ACK /\ e.wcount = 0 /\ e.dlen = 0
      BY <3>1, <3>3 DEF Lasts, Counts, Comes, Calm
    <3> QED BY <1>2, <2>1, <2>3, <3>1, <3>4, ClientGone
  <2>4. CASE h = Server
    <3>1. Fins(sk[Server], SendFin(sk[Server])) BY <1>1, SFin
    <3> QED BY <2>1, <2>2, <2>4, <3>1, ServerProgram
  <2> QED BY <2>3, <2>4, Hosts
<1>5. CASE CloseEnds(h)
  <2>1. Program(h, "last", "closed", Done(Nuke(sk[h]))) BY <1>5 DEF CloseEnds
  <2>2. CASE h = Client
    <3>1. Wipes(sk[Client], Nuke(sk[Client])) /\ Utters(Nuke(sk[Client]), Done(Nuke(sk[Client])))
      BY <1>1, CEnds
    <3>2. app[Client] \in {"fin", "last", "closed"} BY <2>1, <2>2 DEF Program
    <3>3. sk[Client].dlen = 0 BY <3>2, Emptied
    <3>4. /\ Nuke(sk[Client]) \in Socket /\ Nuke(sk[Client]).st = STATE_CLOSED
          /\ Nuke(sk[Client]).wcount = 0 /\ Nuke(sk[Client]).dlen = 0
      BY <3>1, <3>3 DEF Wipes, Gone, Comes, Calm
    <3>5. Tame(Done(Nuke(sk[Client])).c) BY <1>2
    <3> QED BY <2>1, <2>2, <3>1, <3>4, <3>5, ClientGone
  <2>3. CASE h = Server
    <3>1. Drops(sk[Server], Done(Nuke(sk[Server]))) BY <1>1, SNukes
    <3> QED BY <2>1, <2>3, <3>1, ServerProgram
  <2> QED BY <2>2, <2>3, Hosts
<1> QED BY <1>3, <1>4, <1>5

LEMMA StepFleet ==
  ASSUME Serial, Unhurried, NEW i \in Isn, Counted(i), Kept, Fleet(i), [Next]_vars
  PROVE  Fleet(i)'
<1>1. UNCHANGED vars => Fleet(i)' BY DEF vars, Fleet
<1>2. Idle => UNCHANGED vars BY DEF Idle
<1>3. app[Client] # "idle" BY Facts DEF Counted
<1>4. ~Connect BY <1>3 DEF Connect, Program
<1>5. ASSUME NEW h \in Host,
             \/ DeliverNext(h) \/ DeliverAny(h) \/ Lose(h) \/ Check(h, FALSE) \/ Check(h, TRUE)
             \/ Write(h) \/ Read(h) \/ Close(h) \/ Flush(h) \/ Fin(h) \/ CloseEnds(h)
      PROVE  Fleet(i)'
  BY <1>5, FleetDelivers, FleetLoses, FleetChecks, FleetWrites, FleetReads, FleetCloses, FleetEnds
<1> QED BY <1>1, <1>2, <1>4, <1>5, FleetOpens DEF Next

(* What the operators say of the program is that it runs or has ended.       *)
LEMMA KeptUp ==
  ASSUME Kept, NEW h \in Host, NEW r, NEW q, Apply(h, r, q), r.up \in BOOLEAN
  PROVE  up' \in [Host -> BOOLEAN]
BY DEF Apply, Kept

LEMMA KeptProgram ==
  ASSUME Kept, NEW h \in Host, NEW from, NEW t, NEW r, Program(h, from, t, r), r.up \in BOOLEAN, got' = got
  PROVE  Kept'
<1>1. Apply(h, r, net[h]) /\ poll' = [poll EXCEPT ![h] = TRUE] /\ lost' = lost BY DEF Program
<1>2. up' \in [Host -> BOOLEAN] BY <1>1, KeptUp
<1> QED BY <1>1, <1>2 DEF Kept

LEMMA Outcomes ==
  ASSUME NEW i \in Isn, Counted(i), NEW h \in Host
  PROVE  /\ \A expired \in BOOLEAN : CheckSockets(sk[h], expired).up \in BOOLEAN
         /\ \A n \in Nat : SockRead(sk[h], n).up \in BOOLEAN
         /\ SendFin(sk[h]).up \in BOOLEAN
<1>1. Inv(i) BY DEF Counted
<1>2. ASSUME NEW r, \/ \E w, most : ClientStep(i, sk[Client], r, w, most)
                    \/ \E total, past : ServerStep(i, sk[Server], r, total, past)
      PROVE  r.up \in BOOLEAN
  BY <1>2 DEF ClientStep, Client1, ServerStep, Results
<1>3. CASE h = Client
  <2>1. ASSUME NEW expired \in BOOLEAN PROVE CheckSockets(sk[h], expired).up \in BOOLEAN
    <3>1. ClientStep(i, sk[Client], CheckSockets(sk[Client], expired), wrote[Client], sk[Server].most)
      BY <1>1, Facts, ClientChecked
    <3> QED BY <1>2, <1>3, <3>1
  <2>2. ASSUME NEW n \in Nat PROVE SockRead(sk[h], n).up \in BOOLEAN
    <3>1. ClientStep(i, sk[Client], SockRead(sk[Client], n), wrote[Client], sk[Server].most)
      BY <1>1, Facts, ClientReads
    <3> QED BY <1>2, <1>3, <3>1
  <2>3. ClientStep(i, sk[Client], SendFin(sk[Client]), wrote[Client], sk[Server].most)
    BY <1>1, Facts, ClientEnds
  <2>4. SendFin(sk[h]).up \in BOOLEAN BY <1>2, <1>3, <2>3
  <2> QED BY <2>1, <2>2, <2>4
<1>4. CASE h = Server
  <2>1. ASSUME NEW expired \in BOOLEAN PROVE CheckSockets(sk[h], expired).up \in BOOLEAN
    <3>1. ServerStep(i, sk[Server], CheckSockets(sk[Server], expired), Total[Client], Past(sk[Client]))
      BY <1>1, Facts, ServerChecked
    <3> QED BY <1>2, <1>4, <3>1
  <2>2. ASSUME NEW n \in Nat PROVE SockRead(sk[h], n).up \in BOOLEAN
    <3>1. ServerStep(i, sk[Server], SockRead(sk[Server], n), Total[Client], Past(sk[Client]))
      BY <1>1, Facts, ServerReads
    <3> QED BY <1>2, <1>4, <3>1
  <2>3. ServerStep(i, sk[Server], SendFin(sk[Server]), Total[Client], Past(sk[Client]))
    BY <1>1, Facts, ServerFin
  <2>4. SendFin(sk[h]).up \in BOOLEAN BY <1>2, <1>4, <2>3
  <2> QED BY <2>1, <2>2, <2>4
<1> QED BY <1>3, <1>4, Hosts

LEMMA KeptDelivers ==
  ASSUME Serial, NEW i \in Isn, Counted(i), Kept, NEW h \in Host, DeliverNext(h) \/ DeliverAny(h)
  PROVE  Kept'
<1> DEFINE A == FromServer(i, sk[Server].most, Past(sk[Client]))
           B == FromClient(i, wrote[Client], Past(sk[Client]))
           m == Head(net[h])
<1>1. ~Routed /\ net[h] # << >> /\ Receive(h, m, Tail(net[h])) BY DEF Serial, DeliverNext, DeliverAny
<1>2. PICK isn \in Isn : Apply(h, Tcp(sk[h], m, isn), Tail(net[h])) BY <1>1 DEF Receive
<1>3. poll' = [poll EXCEPT ![h] = ~Closing(h)] /\ lost' = lost /\ got' = got BY <1>1 DEF Receive
<1>4. Inv(i) /\ net[Client] \in Queues(A) /\ net[Server] \in Queues(B) BY Facts DEF Counted
<1>5. Tcp(sk[h], m, isn).up \in BOOLEAN
  <2>1. CASE h = Client
    <3>1. m \in A BY <1>1, <1>4, <2>1, Taken
    <3>2. ClientStep(i, sk[Client], Tcp(sk[Client], m, isn), wrote[Client], sk[Server].most)
      BY <1>4, <3>1, Facts, ClientTcp DEF Serial
    <3>3. Tcp(sk[Client], m, isn) \in Results BY <3>2 DEF ClientStep, Client1
    <3> QED BY <2>1, <3>3 DEF Results
  <2>2. CASE h = Server
    <3>1. m \in B BY <1>1, <1>4, <2>2, Taken
    <3>2. isn \in Words /\ Total[Client] < SeqSpace BY Hosts DEF Serial, Short
    <3>3. ServerStep(i, sk[Server], Tcp(sk[Server], m, isn), Total[Client], Past(sk[Client]))
      BY <1>4, <3>1, <3>2, Facts, ServerTcp
    <3>4. Tcp(sk[Server], m, isn) \in Results BY <3>3 DEF ServerStep
    <3> QED BY <2>2, <3>4 DEF Results
  <2> QED BY <2>1, <2>2, Hosts
<1>6. up' \in [Host -> BOOLEAN] BY <1>2, <1>5, KeptUp
<1>7. PICK b \in BOOLEAN : b = ~Closing(h) OBVIOUS
<1>8. poll' \in [Host -> BOOLEAN] BY <1>3, <1>7 DEF Kept
<1> QED BY <1>3, <1>6, <1>8 DEF Kept

LEMMA StepKept ==
  ASSUME Serial, NEW i \in Isn, Counted(i), Kept, [Next]_vars
  PROVE  Kept'
<1>1. UNCHANGED vars => Kept' BY DEF vars, Kept
<1>2. Idle => UNCHANGED vars BY DEF Idle
<1>3. app[Client] # "idle" /\ Inv(i) BY Facts DEF Counted
<1>4. ~Connect BY <1>3 DEF Connect, Program
<1>5. ASSUME NEW x PROVE Done(x).up \in BOOLEAN BY DEF Done
<1>6. CASE Connected
  <2> DEFINE t == IF sk[Client].st = STATE_CLOSED THEN "failed" ELSE "open"
  <2>1. Program(Client, "opening", t, Done(sk[Client])) /\ got' = got BY <1>6 DEF Connected
  <2> HIDE DEF t
  <2> QED BY <1>5, <2>1, Hosts, KeptProgram
<1>7. CASE Accept
  <2>1. Program(Server, "idle", "open", Done(sk[Server])) /\ got' = got BY <1>7 DEF Accept
  <2> QED BY <1>5, <2>1, Hosts, KeptProgram
<1>8. ASSUME NEW h \in Host, Lose(h) PROVE Kept'
  <2>1. lost < MaxLoss /\ lost' = lost + 1 /\ got' = got /\ up' = up /\ poll' = poll BY <1>8 DEF Lose
  <2>2. lost' \in 0 .. MaxLoss BY <2>1, LinkAssumption DEF Kept
  <2> QED BY <2>1, <2>2 DEF Kept
<1>9. ASSUME NEW h \in Host, NEW expired \in BOOLEAN, Check(h, expired) PROVE Kept'
  <2>1. /\ Apply(h, CheckSockets(sk[h], expired), net[h]) /\ poll' = [poll EXCEPT ![h] = ~Closing(h)]
        /\ lost' = lost /\ got' = got
    BY <1>9 DEF Check
  <2>2. CheckSockets(sk[h], expired).up \in BOOLEAN BY Outcomes
  <2>3. up' \in [Host -> BOOLEAN] BY <2>1, <2>2, KeptUp
  <2>4. PICK b \in BOOLEAN : b = ~Closing(h) OBVIOUS
  <2>5. poll' \in [Host -> BOOLEAN] BY <2>1, <2>4 DEF Kept
  <2> QED BY <2>1, <2>3, <2>5 DEF Kept
<1>10. ASSUME NEW h \in Host, Write(h) PROVE Kept'
  <2>1. PICK n : Program(h, "open", "open", Done(WriteTcpBytes(sk[h], n))) /\ got' = got
    BY <1>10 DEF Write
  <2> QED BY <1>5, <2>1, KeptProgram
<1>11. ASSUME NEW h \in Host, Read(h) PROVE Kept'
  <2>1. PICK n \in 0 .. sk[h].rcount : /\ Program(h, "open", "open", SockRead(sk[h], n))
                                       /\ got' = [got EXCEPT ![h] = @ + n]
    BY <1>11 DEF Read
  <2>2. n \in Nat /\ SockRead(sk[h], n).up \in BOOLEAN BY Outcomes
  <2>3. Apply(h, SockRead(sk[h], n), net[h]) /\ poll' = [poll EXCEPT ![h] = TRUE] /\ lost' = lost
    BY <2>1 DEF Program
  <2>4. up' \in [Host -> BOOLEAN] BY <2>2, <2>3, KeptUp
  <2>5. got' \in [Host -> Nat] BY <2>1, <2>2 DEF Kept
  <2> QED BY <2>3, <2>4, <2>5 DEF Kept
<1>12. ASSUME NEW h \in Host, Close(h) PROVE Kept'
  <2> DEFINE c == [sk[h] EXCEPT !.rcount = 0]
             gone == c.st < STATE_ESTABLISHED
             t == IF gone THEN "closed" ELSE IF Flushed(c) THEN "fin" ELSE "flushing"
             x == IF gone THEN Nuke(c) ELSE c
  <2>1. PICK from : Program(h, from, t, Done(x)) /\ got' = got BY <1>12 DEF Close
  <2> HIDE DEF t, x
  <2> QED BY <1>5, <2>1, KeptProgram
<1>13. ASSUME NEW h \in Host, Flush(h) \/ Fin(h) \/ CloseEnds(h) PROVE Kept'
  <2>1. CASE Flush(h)
    <3>1. Program(h, "flushing", "fin", Done(sk[h])) /\ got' = got BY <2>1 DEF Flush
    <3> QED BY <1>5, <3>1, KeptProgram
  <2>2. CASE Fin(h)
    <3> DEFINE t == IF sk[h].st = STATE_PEER_RESET THEN "closed" ELSE "last"
    <3>1. Program(h, "fin", t, SendFin(sk[h])) /\ got' = got BY <2>2 DEF Fin
    <3>2. SendFin(sk[h]).up \in BOOLEAN BY Outcomes
    <3> HIDE DEF t
    <3> QED BY <3>1, <3>2, KeptProgram
  <2>3. CASE CloseEnds(h)
    <3>1. Program(h, "last", "closed", Done(Nuke(sk[h]))) /\ got' = got BY <2>3 DEF CloseEnds
    <3> QED BY <1>5, <3>1, KeptProgram
  <2> QED BY <1>13, <2>1, <2>2, <2>3
<1> QED BY <1>1, <1>2, <1>4, <1>6, <1>7, <1>8, <1>9, <1>10, <1>11, <1>12, <1>13, KeptDelivers DEF Next

LEMMA ConnectFleet ==
  ASSUME Start, got = [h \in Host |-> 0], Kept, Connect
  PROVE  Kept' /\ \A i \in Isn : Fleet(i)'
<1>1. PICK isn \in Isn : Program(Client, "idle", "opening", TcpOpen(sk[Client], isn)) BY DEF Connect
<1>2. sk = [h \in Host |-> IF h = Server THEN Child ELSE Blank] /\ sk[Client] = Blank /\ got' = got
  BY Hosts DEF Start, Connect
<1> DEFINE r == TcpOpen(Blank, isn)  c == r.c
<1>3. isn \in Words BY Hosts
<1>4. Tame(c) /\ c.st = STATE_SYN_SENT /\ c.wcount = 0 /\ c.dlen = 0 BY <1>3, TameOpens, COpens
<1>5. r.up \in BOOLEAN BY <1>3, ClientOpens DEF Client1, Results
<1>6. Program(Client, "idle", "opening", r) BY <1>1, <1>2
<1> HIDE DEF r
<1>7. sk'[Client] = c BY <1>2, <1>6, Hosts DEF Program, Apply
<1>8. \A i \in Isn : Fleet(i)' BY <1>4, <1>7 DEF Fleet, Flight, Live
<1> QED BY <1>2, <1>5, <1>6, <1>8, Hosts, KeptProgram

SInv == Kept /\ \/ Start /\ got = [h \in Host |-> 0]
                \/ \E i \in Isn : Counted(i) /\ Fleet(i)

LEMMA StepSInv == ASSUME Serial, Unhurried PROVE SInv /\ [Next]_vars => SInv'
<1> SUFFICES ASSUME SInv, [Next]_vars PROVE SInv'
  OBVIOUS
<1>1. Kept BY DEF SInv
<1>2. CASE Start /\ got = [h \in Host |-> 0]
  <2>1. CASE Connect
    <3>1. PICK i \in Isn : Counted(i)' BY <1>2, <2>1, ConnectOnce
    <3>2. Kept' /\ Fleet(i)' BY <1>1, <1>2, <2>1, ConnectFleet
    <3> QED BY <3>1, <3>2 DEF SInv
  <2>2. CASE UNCHANGED vars BY <1>1, <1>2, <2>2 DEF SInv, Start, Kept, vars
  <2> QED BY <1>2, <2>1, <2>2, StartMoves
<1>3. ASSUME NEW i \in Isn, Counted(i), Fleet(i) PROVE SInv'
  <2>1. Counted(i)' BY <1>3, StepOnce
  <2>2. Fleet(i)' BY <1>1, <1>3, StepFleet
  <2>3. Kept' BY <1>1, <1>3, StepKept
  <2> QED BY <2>1, <2>2, <2>3 DEF SInv
<1> QED BY <1>2, <1>3 DEF SInv

(* What the type invariant says of one socket.                              *)
Typed(x) ==
  /\ x.st \in States /\ x.flags \subseteq Flags
  /\ {x.par, x.ip, x.own, x.dfree, x.intact, x.exp} \subseteq BOOLEAN
  /\ {x.seq, x.ack} \subseteq 0..(SeqSpace - 1)
  /\ {x.base, x.taken} \subseteq Nat
  /\ x.wcount \in 0..MaxTailW
  /\ x.rcount \in Nat
  /\ x.dlen \in Int /\ x.err \in 0..(MaxErr + 1)
  /\ x.dlen <= x.wcount

LEMMA TypedSocket ==
  ASSUME NEW x \in Socket, x.base >= 0, x.taken >= 0, 0 <= x.wcount, x.wcount <= MaxTailW,
         x.rcount >= 0, 0 <= x.err, x.err <= MaxErr + 1, x.dlen <= x.wcount
  PROVE  Typed(x)
<1>1. x.st \in States /\ x.flags \subseteq Flags BY DEF Socket, Reached, States
<1>2. {x.par, x.ip, x.own, x.dfree, x.intact, x.exp} \subseteq BOOLEAN BY DEF Socket
<1>3. {x.seq, x.ack} \subseteq 0..(SeqSpace - 1) BY DEF Socket, Words
<1>4. /\ x.base \in Int /\ x.taken \in Int /\ x.wcount \in Int /\ x.rcount \in Int
      /\ x.dlen \in Int /\ x.err \in Int
  BY DEF Socket
<1>5. MaxErr \in Nat /\ MaxTailW \in Nat BY TcpAssumption
<1>6. {x.base, x.taken} \subseteq Nat /\ x.wcount \in 0..MaxTailW /\ x.rcount \in Nat /\ x.err \in 0..(MaxErr + 1)
  BY <1>4, <1>5
<1> QED BY <1>1, <1>2, <1>3, <1>4, <1>6 DEF Typed

LEMMA SoundSockets == ASSUME Serial, SInv PROVE SocketSound
<1>1. Kept BY DEF SInv
<1>2. /\ app \in [Host -> AppStates] /\ wrote \in [Host -> Nat] /\ Typed(sk[Client]) /\ Typed(sk[Server])
  <2>1. CASE Start
    <3>1. app \in [Host -> AppStates] /\ wrote \in [Host -> Nat] BY <2>1 DEF Start, AppStates
    <3>2. sk[Client] = Blank /\ sk[Server] = Child BY <2>1, Hosts DEF Start
    <3>3. Blank \in Socket /\ Child \in Socket
      <4>1. 0 \in Words BY TcpAssumption DEF Words
      <4>2. STATE_NOTINIT \in Reached BY DEF Reached
      <4>3. Blank \in Socket BY <4>1, <4>2, Known DEF Blank, Socket
      <4> QED BY <4>3, Known, Zenon DEF Child, Socket
    <3>4. /\ Blank.base = 0 /\ Blank.taken = 0 /\ Blank.wcount = 0 /\ Blank.rcount = 0 /\ Blank.err = 0
          /\ Blank.dlen = 0
      BY DEF Blank
    <3>5. /\ Child.base = Blank.base /\ Child.taken = Blank.taken /\ Child.wcount = Blank.wcount
          /\ Child.rcount = Blank.rcount /\ Child.err = Blank.err /\ Child.dlen = Blank.dlen
      BY <3>3, Zenon DEF Child, Socket
    <3>6. 0 <= MaxErr + 1 /\ 0 <= MaxTailW BY TcpAssumption
    <3>7. Typed(Blank) BY <3>3, <3>4, <3>6, TypedSocket
    <3>8. Typed(Child) BY <3>3, <3>4, <3>5, <3>6, TypedSocket
    <3> QED BY <3>1, <3>2, <3>7, <3>8
  <2>2. ASSUME NEW i \in Isn, Counted(i), Fleet(i)
        PROVE  /\ app \in [Host -> AppStates] /\ wrote \in [Host -> Nat]
               /\ Typed(sk[Client]) /\ Typed(sk[Server])
    <3> DEFINE c == sk[Client]  d == sk[Server]
    <3>1. Inv(i) BY <2>2 DEF Counted
    <3>2. /\ app \in [Host -> AppStates] /\ wrote \in [Host -> Int] /\ wrote[Client] \in Nat
          /\ c \in Socket /\ d \in Socket /\ Sender(i, c, wrote[Client], d.most)
          /\ Receiver(i, d, Total[Client], Past(c)) /\ wrote[Server] = 0
      BY <3>1, Facts DEF Serial
    <3>3. wrote \in [Host -> Nat]
      <4>1. \A h \in Host : wrote[h] \in Nat BY <3>2, Hosts
      <4> QED BY <3>2, <4>1
    <3>4. /\ c.dlen <= c.wcount /\ Tame(c) /\ Calm(c) /\ Mute(d)
          /\ Flight(i, c, d, net[Server], net[Client], app[Server], app[Client], up[Server])
      BY <2>2, Afloat
    <3> HIDE DEF c, d
    <3>5. MaxErr \in Nat /\ MaxTailW \in Nat BY TcpAssumption
    <3>6. Typed(c)
      <4>1. c.base \in Int /\ c.base >= 0 BY <3>2 DEF Sender, Socket
      <4>2. c.taken = 0 /\ 0 <= c.err /\ c.err <= MaxErr + 1 /\ c.rcount = 0 BY <3>4 DEF Tame, Calm
      <4>3. 0 <= c.wcount /\ c.wcount <= MaxTailW
        <5>1. CASE Live(c)
          <6>1. 0 <= c.dlen /\ c.wcount <= MaxTailW BY <3>2, <5>1 DEF Sender, Live
          <6>2. c.dlen \in Int /\ c.wcount \in Int BY <3>2 DEF Socket
          <6> QED BY <3>4, <6>1, <6>2
        <5>2. CASE ~Live(c) BY <3>4, <3>5, <5>2 DEF Flight
        <5> QED BY <5>1, <5>2
      <4> QED BY <3>2, <3>4, <4>1, <4>2, <4>3, TypedSocket
    <3>7. Typed(d)
      <4>1. d.base = 0 /\ d.wcount = 0 /\ d.dlen = 0 BY <3>2 DEF Receiver, Serial
      <4>2. d.taken >= 0 /\ d.rcount >= 0 /\ 0 <= d.err /\ d.err <= MaxErr + 1 BY <3>4 DEF Mute, Own
      <4> QED BY <3>2, <3>5, <4>1, <4>2, TypedSocket
    <3> QED BY <3>2, <3>3, <3>6, <3>7 DEF c, d
  <2> QED BY <2>1, <2>2 DEF SInv
<1>3. \A h \in Host : Typed(sk[h]) BY <1>2, Hosts
<1>4. got \in [Host -> Nat] /\ up \in [Host -> BOOLEAN] /\ poll \in [Host -> BOOLEAN] /\ lost \in 0..MaxLoss
  BY <1>1 DEF Kept
<1>5. TypeOK BY <1>2, <1>3, <1>4 DEF TypeOK, Typed
<1>6. InFlightBuffered BY <1>3 DEF InFlightBuffered, Typed
<1> QED BY <1>5, <1>6 DEF SocketSound

(* Both sockets are well typed in every state of the connection and count   *)
(* no more in flight than they have buffered, so that the difference        *)
(* sendsocket takes for a length is never negative (socket.c:192,           *)
(* tcp.c:389-410).  The line is serial, the server writes nothing, and no   *)
(* timer expires while an answer is under way.                              *)
THEOREM SocketsSound == ASSUME Serial, Unhurried PROVE Spec => []SocketSound
<1>1. Init => SInv
  <2>1. ASSUME Init PROVE Kept
    <3>1. 0 \in 0 .. MaxLoss BY LinkAssumption
    <3> QED BY <2>1, <3>1 DEF Init, Kept
  <2>2. ASSUME Init PROVE Start /\ got = [h \in Host |-> 0] BY <2>2 DEF Init, Start
  <2> QED BY <2>1, <2>2 DEF SInv
<1>2. SInv /\ [Next]_vars => SInv' BY StepSInv
<1>3. SInv => SocketSound BY SoundSockets
<1> QED BY <1>1, <1>2, <1>3, PTL DEF Spec
=============================================================================
