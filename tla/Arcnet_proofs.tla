---------------------------- MODULE Arcnet_proofs ----------------------------
(***************************************************************************)
(* Proofs about the ARCNET transport, for any number of buffers, stations, *)
(* lengths and tries: the layout of a frame is one arcrx takes apart again,*)
(* the transmit page is never touched while the controller sends from it,  *)
(* and the gateway's station, once known, stays.                           *)
(***************************************************************************)
EXTENDS Arcnet, TLAPS

(* For every length a page has room for, the header arctx writes leads      *)
(* arcrx to the packet, and the frame's length is not a forbidden one       *)
(* (arcnet.c:229-239 against 429-446).                                      *)
LEMMA FramesFit == \A L \in 1 .. 507 : Framed(L)
<1>1. ASSUME NEW L \in 1 .. 251 PROVE Framed(L)
  <2>1. Short(L) /\ Octets(L) = L + 1
    BY DEF Short, Octets
  <2>2. Count(L) = 255 - L
    BY <2>1 DEF Count
  <2> QED BY <2>1, <2>2 DEF Framed, Begins, Unpacked
<1>2. ASSUME NEW L \in 252 .. 255 PROVE Framed(L)
  <2>1. ~Short(L) /\ Octets(L) = L + 5
    BY DEF Short, Octets
  <2>2. Count(L) = 507 - L
    BY <2>1 DEF Count
  <2> QED BY <2>1, <2>2 DEF Framed, Begins, Unpacked
<1>3. ASSUME NEW L \in 256 .. 507 PROVE Framed(L)
  <2>1. ~Short(L) /\ Octets(L) = L + 1
    BY DEF Short, Octets
  <2>2. Count(L) = 511 - L
    BY <2>1 DEF Count
  <2> QED BY <2>1, <2>2 DEF Framed, Begins, Unpacked
<1>4. \A L \in 1 .. 507 : L \in 1 .. 251 \/ L \in 252 .. 255 \/ L \in 256 .. 507
  OBVIOUS
<1> QED BY <1>1, <1>2, <1>3, <1>4

(* What runs on into the receive page: one length that would fit, and all   *)
(* that are longer than the page.                                           *)
LEMMA Overruns == \A L \in 1 .. 511 : Overrun(L) => L = 256
<1>1. ASSUME NEW L \in 1 .. 251 PROVE ~Overrun(L)
  BY DEF Overrun, Short, Octets, Count, Padding
<1>2. ASSUME NEW L \in 252 .. 255 PROVE ~Overrun(L)
  <2>1. Count(L) = 507 - L
    BY DEF Short, Octets, Count
  <2>2. Padding(L) \in {0, 4}
    BY DEF Padding
  <2> QED BY <2>1, <2>2 DEF Overrun
<1>3. ASSUME NEW L \in 257 .. 511 PROVE ~Overrun(L)
  <2>1. Count(L) = 511 - L
    BY DEF Short, Octets, Count
  <2> QED BY <2>1 DEF Overrun, Padding
<1>4. \A L \in 1 .. 511 : L \in 1 .. 251 \/ L \in 252 .. 255 \/ L = 256 \/ L \in 257 .. 511
  OBVIOUS
<1> QED BY <1>1, <1>2, <1>3, <1>4

-----------------------------------------------------------------------------
(* The inductive invariant: what the program knows at each place.           *)
Places == /\ phase = "find" => did = 0 /\ tries < Tries
          /\ phase = "listen" => did = 0 /\ at < Polls
          /\ phase = "answer" /\ did = 0 => at < Polls
          /\ phase = "walk" => did # 0 /\ at \in 1 .. NBuf - 1
          /\ phase \in {"idle", "frags", "rx"} => did # 0

IInv == TypeOK /\ Places

LEMMA InitIInv == Init => IInv
<1> SUFFICES ASSUME Init PROVE IInv
  OBVIOUS
<1> USE ArcnetAssumption DEF Init
<1>1. /\ flag \in [Buffers -> {"free", "frag", "ready"}]
      /\ len \in [Buffers -> Lens \cup {0}]
      /\ \A b \in Buffers : flag[b] = "ready" <=> len[b] # 0
  OBVIOUS
<1>2. rx \in [kind : Kinds \cup {"none"}, hurt : BOOLEAN] /\ (rx.hurt => Full)
  BY DEF Armed
<1>3. Tries \in Nat \ {0} /\ Polls \in Nat \ {0}
  OBVIOUS
<1>4. TypeOK
  <2>1. did \in Stations \cup {0} /\ asked \in BOOLEAN
    OBVIOUS
  <2>2. tx \in [kind : {"ip"}, len : Lens]
                  \cup {NoPage, Page("isAt", 256), Page("arpGateway", 19)}
    BY Zenon
  <2>3. at \in 0 .. Polls \cup Buffers /\ tries \in 0 .. Tries
    BY <1>3
  <2>4. phase \in {"find", "listen", "idle", "walk", "frags", "rx", "answer", "stopped"}
    OBVIOUS
  <2> QED BY <1>1, <1>2, <2>1, <2>2, <2>3, <2>4 DEF TypeOK
<1>5. Places
  BY <1>3 DEF Places
<1> QED BY <1>4, <1>5 DEF IInv

(* Where arcrx goes back to.                                                *)
LEMMA ReturnsTo ==
  ASSUME IInv, phase \in {"listen", "rx", "answer"}, Returns, did' \in {did, Gateway}
  PROVE  /\ at' \in 0 .. Polls \cup Buffers /\ tries' = tries /\ asked' = asked
         /\ phase' \in {"idle", "listen", "find", "stopped"}
         /\ Places'
  BY ArcnetAssumption DEF Returns, IInv, TypeOK, Places, Stations, Buffers

LEMMA HandledTypes ==
  ASSUME IInv, NEW b, Handled(b)
  PROVE  /\ flag' \in [Buffers -> {"free", "frag", "ready"}]
         /\ len' \in [Buffers -> Lens \cup {0}]
         /\ \A c \in Buffers : flag'[c] = "ready" <=> len'[c] # 0
<1> USE ArcnetAssumption
<1>1. PICK f \in {"free", "frag", "ready"}, L \in Lens :
        LET g == [flag EXCEPT ![b] = f]
            h == [len EXCEPT ![b] = IF f = "ready" THEN L ELSE 0]
            r == Room(g) \ {0, b}
        IN \/ flag' = g /\ len' = h
           \/ /\ r # {}
              /\ flag' = [g EXCEPT ![Max(r)] = "ready"] /\ len' = [h EXCEPT ![Max(r)] = L]
  BY DEF Handled
<1> DEFINE g == [flag EXCEPT ![b] = f]
           h == [len EXCEPT ![b] = IF f = "ready" THEN L ELSE 0]
           m == Max(Room(g) \ {0, b})
<1>2. L # 0
  OBVIOUS
<1>3. /\ g \in [Buffers -> {"free", "frag", "ready"}]
      /\ h \in [Buffers -> Lens \cup {0}]
      /\ \A c \in Buffers : g[c] = "ready" <=> h[c] # 0
  <2>1. /\ flag \in [Buffers -> {"free", "frag", "ready"}]
        /\ len \in [Buffers -> Lens \cup {0}]
        /\ \A c \in Buffers : flag[c] = "ready" <=> len[c] # 0
    BY DEF IInv, TypeOK
  <2>2. g \in [Buffers -> {"free", "frag", "ready"}] /\ h \in [Buffers -> Lens \cup {0}]
    BY <2>1
  <2>3. ASSUME NEW c \in Buffers PROVE g[c] = "ready" <=> h[c] # 0
    BY <2>1, <1>2
  <2> QED BY <2>2, <2>3
<1>4. \/ flag' = g /\ len' = h
      \/ flag' = [g EXCEPT ![m] = "ready"] /\ len' = [h EXCEPT ![m] = L]
  BY <1>1
<1> HIDE DEF g, h, m
<1> QED BY <1>2, <1>3, <1>4

(* One step of the program, of the controller or of another station.        *)
LEMMA StepIInv == IInv /\ [Next]_vars => IInv'
<1> SUFFICES ASSUME IInv, [Next]_vars PROVE IInv'
  OBVIOUS
<1> USE ArcnetAssumption
<1>t. Tries \in Nat \ {0} /\ Polls \in Nat \ {0}
  OBVIOUS
<1>1. CASE AskGateway
  BY <1>1, <1>t DEF AskGateway, IInv, TypeOK, Places, Page, Full
<1>2. CASE BeginPoll
  BY <1>2, <1>t DEF BeginPoll, IInv, TypeOK, Places, Full, Buffers
<1>3. CASE Walk
  <2>1. /\ at \in 1 .. NBuf - 1 /\ did # 0 /\ at \in Buffers
        /\ at' \in 0 .. NBuf - 2 /\ phase' \in {"walk", "frags"}
        /\ phase' = "walk" => at' \in 1 .. NBuf - 1
        /\ did' = did /\ tries' = tries /\ asked' = asked
    BY <1>3 DEF Walk, IInv, Places, Buffers
  <2>2. CASE flag[at] = "ready" /\ ArcTx(at)
    <3>1. /\ flag' = [flag EXCEPT ![at] = "free"] /\ len' = [len EXCEPT ![at] = 0]
          /\ tx' = Page("ip", len[at])
          /\ rx' = [rx EXCEPT !.hurt = @ \/ (Full /\ Overrun(len[at]))]
      BY <2>1, <2>2 DEF ArcTx
    <3>2. len[at] \in Lens
      BY <2>1, <2>2 DEF IInv, TypeOK
    <3>3. tx' \in [kind : {"ip"}, len : Lens]
      BY <3>1, <3>2 DEF Page
    <3>4. /\ rx.hurt \in BOOLEAN /\ Overrun(len[at]) \in BOOLEAN
          /\ Full \in BOOLEAN /\ (rx.hurt => Full)
          /\ rx \in [kind : Kinds \cup {"none"}, hurt : BOOLEAN]
      BY DEF IInv, TypeOK, Full, Overrun
    <3>5. rx' \in [kind : Kinds \cup {"none"}, hurt : BOOLEAN] /\ (rx'.hurt => Full')
      <4>1. PICK h \in BOOLEAN : rx' = [rx EXCEPT !.hurt = h] /\ (h => Full)
        BY <3>1, <3>4, Zenon
      <4> QED BY <4>1, <3>4 DEF Full
    <3>6. /\ flag' \in [Buffers -> {"free", "frag", "ready"}]
          /\ len' \in [Buffers -> Lens \cup {0}]
          /\ \A b \in Buffers : flag'[b] = "ready" <=> len'[b] # 0
      BY <3>1, <2>1 DEF IInv, TypeOK
    <3> QED BY <2>1, <3>3, <3>5, <3>6 DEF IInv, TypeOK, Places, Buffers
  <2>3. CASE UNCHANGED <<flag, len, rx, tx>>
    BY <2>1, <2>3 DEF IInv, TypeOK, Places, Buffers, Full
  <2> QED BY <1>3, <2>2, <2>3 DEF Walk
<1>4. CASE ArcRx
  <2>1. CASE RxNothing \/ RxWaits
    <3>1. /\ did' = did /\ Returns /\ phase \in {"listen", "rx"}
          /\ UNCHANGED <<flag, len, rx, tx>>
      BY <2>1 DEF RxNothing, RxWaits, Polling
    <3>2. Places' /\ at' \in 0 .. Polls \cup Buffers /\ tries' = tries /\ asked' = asked
          /\ phase' \in {"idle", "listen", "find", "stopped"}
      BY <3>1, ReturnsTo
    <3> QED BY <3>1, <3>2 DEF IInv, TypeOK, Full
  <2>2. CASE RxArp
    <3>1. /\ did' \in {did, Gateway} /\ Returns /\ phase \in {"listen", "rx"}
          /\ UNCHANGED <<flag, len, tx>> /\ rx' = Armed
      BY <2>2 DEF RxArp, CanTake, ProcArp, Polling
    <3>2. Places' /\ at' \in 0 .. Polls \cup Buffers /\ tries' = tries /\ asked' = asked
          /\ phase' \in {"idle", "listen", "find", "stopped"}
      BY <3>1, ReturnsTo
    <3> QED BY <3>1, <3>2 DEF IInv, TypeOK, Full, Armed, Stations
  <2>3. CASE RxIp
    <3>1. /\ did' = did /\ Returns /\ phase \in {"listen", "rx"}
          /\ tx' = tx /\ rx' = Armed
          /\ \/ Handled(Max(Room(flag)))
             \/ UNCHANGED <<flag, len>>
      BY <2>3 DEF RxIp, CanTake, Polling
    <3>2. Places' /\ at' \in 0 .. Polls \cup Buffers /\ tries' = tries /\ asked' = asked
          /\ phase' \in {"idle", "listen", "find", "stopped"}
      BY <3>1, ReturnsTo
    <3>3. /\ flag' \in [Buffers -> {"free", "frag", "ready"}]
          /\ len' \in [Buffers -> Lens \cup {0}]
          /\ \A c \in Buffers : flag'[c] = "ready" <=> len'[c] # 0
      <4>1. CASE Handled(Max(Room(flag)))
        BY <4>1, HandledTypes
      <4>2. CASE UNCHANGED <<flag, len>>
        BY <4>2 DEF IInv, TypeOK
      <4> QED BY <3>1, <4>1, <4>2
    <3> QED BY <3>1, <3>2, <3>3 DEF IInv, TypeOK, Full, Armed
  <2>4. CASE RxRequest
    BY <2>4 DEF RxRequest, CanTake, Polling, IInv, TypeOK, Places, Full
  <2>5. CASE Answer
    <3>1. /\ did' = did /\ Returns /\ phase = "answer"
          /\ UNCHANGED <<flag, len>> /\ rx' = Armed /\ tx' = Page("isAt", 256)
      BY <2>5 DEF Answer
    <3>2. Places' /\ at' \in 0 .. Polls \cup Buffers /\ tries' = tries /\ asked' = asked
          /\ phase' \in {"idle", "listen", "find", "stopped"}
      BY <3>1, ReturnsTo
    <3> QED BY <3>1, <3>2 DEF IInv, TypeOK, Full, Armed
  <2> QED BY <1>4, <2>1, <2>2, <2>3, <2>4, <2>5 DEF ArcRx, Takes
<1>5. ASSUME NEW S \in SUBSET Frags, DoTcpip(S) PROVE IInv'
  <2>1. /\ flag' = [b \in Buffers |-> IF b \in S THEN "free" ELSE flag[b]]
        /\ phase = "frags" /\ phase' = "rx"
        /\ UNCHANGED <<len, did, rx, tx, at, tries, asked>>
    BY <1>5 DEF DoTcpip
  <2>2. \A b \in S : flag[b] = "frag"
    BY DEF Frags
  <2> QED BY <2>1, <2>2 DEF IInv, TypeOK, Places, Full
<1>6. CASE Transmit \/ Cancel
  <2>1. tx' = NoPage /\ UNCHANGED <<flag, len, did, rx, phase, at, tries>>
    BY <1>6 DEF Transmit, Cancel
  <2>2. asked \in BOOLEAN /\ (tx.kind = "arpGateway") \in BOOLEAN
    BY DEF IInv, TypeOK
  <2>3. asked' \in {asked, asked \/ tx.kind = "arpGateway"}
    BY <1>6 DEF Transmit, Cancel
  <2>4. asked' \in BOOLEAN
    BY <2>2, <2>3, Zenon
  <2>5. TypeOK'
    BY <2>1, <2>4 DEF IInv, TypeOK, Full
  <2>6. Places'
    BY <2>1 DEF IInv, Places
  <2> QED BY <2>5, <2>6 DEF IInv
<1>7. ASSUME NEW k \in Kinds, Arrive(k) PROVE IInv'
  <2>1. rx' = [rx EXCEPT !.kind = k] /\ rx.hurt = FALSE
    BY <1>7 DEF Arrive, IInv, TypeOK
  <2>2. rx' \in [kind : Kinds \cup {"none"}, hurt : BOOLEAN] /\ (rx'.hurt => Full')
    BY <2>1 DEF IInv, TypeOK
  <2>3. asked' \in BOOLEAN /\ UNCHANGED <<flag, len, did, tx, phase, at, tries>>
    BY <1>7 DEF Arrive, IInv, TypeOK
  <2>4. TypeOK'
    BY <2>2, <2>3 DEF IInv, TypeOK
  <2>5. Places'
    BY <2>3 DEF IInv, Places
  <2> QED BY <2>4, <2>5 DEF IInv
<1>8. ASSUME NEW L \in Lens, Pack(L) PROVE IInv'
  <2>1. PICK b : flag' = [flag EXCEPT ![b] = "ready"] /\ len' = [len EXCEPT ![b] = L]
    BY <1>8 DEF Pack
  <2>2. L # 0 /\ UNCHANGED <<did, rx, tx, phase, at, tries, asked>>
    BY <1>8 DEF Pack
  <2>3. /\ flag' \in [Buffers -> {"free", "frag", "ready"}]
        /\ len' \in [Buffers -> Lens \cup {0}]
        /\ \A c \in Buffers : flag'[c] = "ready" <=> len'[c] # 0
    <3>1. /\ flag \in [Buffers -> {"free", "frag", "ready"}]
          /\ len \in [Buffers -> Lens \cup {0}]
          /\ \A c \in Buffers : flag[c] = "ready" <=> len[c] # 0
      BY DEF IInv, TypeOK
    <3>2. /\ flag' \in [Buffers -> {"free", "frag", "ready"}]
          /\ len' \in [Buffers -> Lens \cup {0}]
      BY <2>1, <3>1
    <3>3. ASSUME NEW c \in Buffers PROVE flag'[c] = "ready" <=> len'[c] # 0
      BY <2>1, <2>2, <3>1
    <3> QED BY <3>2, <3>3
  <2>4. TypeOK'
    BY <2>2, <2>3 DEF IInv, TypeOK, Full
  <2>5. Places'
    BY <2>2 DEF IInv, Places
  <2> QED BY <2>4, <2>5 DEF IInv
<1>9. CASE UNCHANGED vars
  <2>1. UNCHANGED <<flag, len, did, rx, tx, phase, at, tries, asked>>
    BY <1>9 DEF vars
  <2>2. TypeOK'
    BY <2>1 DEF IInv, TypeOK, Full
  <2>3. Places'
    BY <2>1 DEF IInv, Places
  <2> QED BY <2>2, <2>3 DEF IInv
<1> QED
  BY <1>1, <1>2, <1>3, <1>4, <1>5, <1>6, <1>7, <1>8, <1>9 DEF Next, Program

LEMMA Invariance == Spec => []IInv
  BY InitIInv, StepIInv, PTL DEF Spec

(* Every variable keeps its type, for any number of buffers.                *)
THEOREM TypeCorrect == Spec => []TypeOK
<1>1. IInv => TypeOK
  BY DEF IInv
<1> QED BY <1>1, Invariance, PTL

(* Every packet up to the size of a page is laid out so that the station it *)
(* goes to finds it (arcnet.c:229-239).                                     *)
THEOREM FramesRight == Spec => []WellFramed
<1>1. IInv => WellFramed
  <2> SUFFICES ASSUME IInv, tx.kind = "ip", tx.len < 508 PROVE Framed(tx.len)
    BY DEF WellFramed
  <2>1. tx \in [kind : {"ip"}, len : Lens]
    BY DEF IInv, TypeOK, NoPage, Page
  <2>2. tx.len \in 1 .. 554
    BY <2>1, ArcnetAssumption
  <2>3. tx.len \in 1 .. 507
    BY <2>2
  <2> QED BY <2>3, FramesFit
<1> QED BY <1>1, Invariance, PTL

(* Both, as the run checks them: the state is well typed and what is sent   *)
(* can be read.                                                             *)
THEOREM Sound == Spec => []ArcnetSound
  BY TypeCorrect, FramesRight, PTL DEF ArcnetSound

(* What the controller is sending is never written to (arcnet.c:194).       *)
THEOREM TxPageAlone == Spec => TxPageKept
<1>1. [Next]_vars => [Busy => tx' \in {tx, NoPage}]_vars
  BY DEF Next, Program, AskGateway, TxOk, BeginPoll, Walk, ArcTx, ArcRx, RxNothing,
         RxWaits, Takes, RxArp, RxIp, RxRequest, Answer, DoTcpip, Transmit, Cancel,
         Arrive, Pack, vars
<1> QED BY <1>1, PTL DEF Spec, TxPageKept

(* Only the two lengths named in RxPageKept ever run into a packet that     *)
(* waits to be taken (arcnet.c:258).                                        *)
THEOREM RxPageAlone == Spec => RxPageKept
<1>1. IInv /\ [Next]_vars => [~rx.hurt /\ rx'.hurt => tx'.len = 256 \/ tx'.len > 511]_vars
  <2> SUFFICES ASSUME IInv, Next, ~rx.hurt, rx'.hurt
               PROVE  tx'.len = 256 \/ tx'.len > 511
    BY DEF vars
  <2>1. CASE Walk
    <3>1. at \in Buffers
      BY <2>1 DEF Walk, IInv, Places, Buffers
    <3>2. ArcTx(at) /\ flag[at] = "ready" /\ did # 0
      BY <2>1 DEF Walk, IInv, Places
    <3>3. /\ tx' = Page("ip", len[at])
          /\ rx' = [rx EXCEPT !.hurt = @ \/ (Full /\ Overrun(len[at]))]
      BY <3>2 DEF ArcTx
    <3>4. rx \in [kind : Kinds \cup {"none"}, hurt : BOOLEAN] /\ Overrun(len[at]) \in BOOLEAN
      BY DEF IInv, TypeOK, Overrun
    <3>5. Overrun(len[at])
      BY <3>3, <3>4
    <3>6. len[at] \in 1 .. 554
      <4>1. /\ len \in [Buffers -> Lens \cup {0}]
            /\ flag[at] = "ready" <=> len[at] # 0
        BY <3>1 DEF IInv, TypeOK
      <4>2. len[at] \in Lens
        BY <3>1, <3>2, <4>1
      <4> QED BY <4>2, ArcnetAssumption
    <3> QED BY <3>3, <3>5, <3>6, Overruns DEF Page
  <2>2. CASE ~Walk
    <3>1. rx' \in {rx, Armed} \/ \E k \in Kinds : rx' = [rx EXCEPT !.kind = k]
      BY <2>2 DEF Next, Program, AskGateway, BeginPoll, ArcRx, RxNothing, RxWaits, Takes,
             RxArp, RxIp, RxRequest, Answer, DoTcpip, Transmit, Cancel, Arrive, Pack
    <3> QED BY <3>1 DEF Armed, IInv, TypeOK
  <2> QED BY <2>1, <2>2
<1> QED BY <1>1, Invariance, PTL DEF Spec, RxPageKept

(* The gateway's station is learnt once, and from the gateway (arcnet.c:363).*)
THEOREM GatewayStays == Spec => GatewayKept
<1>1. [Next]_vars => [did' # did => did = 0 /\ did' = Gateway]_vars
  BY DEF Next, Program, AskGateway, BeginPoll, Walk, ArcRx, RxNothing, RxWaits, Takes,
         RxArp, ProcArp, RxIp, RxRequest, Answer, DoTcpip, Transmit, Cancel, Arrive,
         Pack, vars
<1> QED BY <1>1, PTL DEF Spec, GatewayKept
=============================================================================
