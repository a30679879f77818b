--------------------------- MODULE DosUart_proofs ---------------------------
(***************************************************************************)
(* Proofs about the interrupt driven serial driver, for any ring sizes,    *)
(* marks and bytes: the rings stay sound wherever the interrupt comes, the *)
(* receive ring never overflows, and together they are two queues.         *)
(***************************************************************************)
EXTENDS DosUart, SequenceTheorems, TLAPS

LEMMA Sizes ==
  /\ RSize \in Nat /\ TSize \in Nat /\ RSize > 1 /\ TSize > 1
  /\ LowWater \in Nat /\ HighWater \in Nat /\ Overshoot \in Nat /\ Burst \in Nat
  /\ 0 < LowWater /\ LowWater + Burst < HighWater /\ HighWater + Overshoot < RSize
  /\ 0 \in Bytes /\ Bytes \subseteq Nat
BY UartAssumption

-----------------------------------------------------------------------------
(* Rings and the queues in them.                                            *)

(* One place on is one more turned.                                         *)
LEMMA IncTurn ==
  ASSUME NEW size \in Nat, NEW t \in 0 .. size - 1, NEW n \in 0 .. size - 1
  PROVE  /\ Inc(Turn(t + n, size), size) = Turn(t + (n + 1), size)
         /\ Inc(t, size) \in 0 .. size - 1
         /\ Turn(t + n, size) \in 0 .. size - 1
         /\ n > 0 => Turn(Inc(t, size) + (n - 1), size) = Turn(t + n, size)
BY DEF Inc, Turn

(* The bytes of a ring are bytes.                                           *)
LEMMA WindowType ==
  ASSUME NEW size \in Nat, NEW r \in Rings(size), NEW n \in 0 .. size
  PROVE  Window(r, n, size) \in Seq(Bytes) /\ Len(Window(r, n, size)) = n
<1>1. ASSUME NEW i \in 1 .. n PROVE r.buf[Turn(r.tail + i - 1, size)] \in Bytes
  <2>1. Turn(r.tail + i - 1, size) \in 0 .. size - 1
    BY DEF Rings, Turn
  <2> QED BY <2>1 DEF Rings
<1> QED BY <1>1 DEF Window

(* A byte stored at the head is appended to the queue.                      *)
LEMMA WindowPush ==
  ASSUME NEW size \in Nat, NEW r \in Rings(size), NEW n \in 0 .. size - 1,
         r.head = Turn(r.tail + n, size),
         NEW b \in Bytes, NEW q \in Rings(size),
         q.buf = [r.buf EXCEPT ![r.head] = b], q.tail = r.tail
  PROVE  Window(q, n + 1, size) = Append(Window(r, n, size), b)
<1> DEFINE w == Window(q, n + 1, size)
           a == Append(Window(r, n, size), b)
<1>1. w \in Seq(Bytes) /\ Len(w) = n + 1
  BY WindowType
<1>2. Window(r, n, size) \in Seq(Bytes) /\ Len(Window(r, n, size)) = n
  BY WindowType
<1>3. a \in Seq(Bytes) /\ Len(a) = n + 1
  BY <1>2, AppendProperties
<1>4. ASSUME NEW i \in 1 .. n + 1 PROVE w[i] = a[i]
  <2>1. w[i] = q.buf[Turn(r.tail + i - 1, size)]
    BY DEF Window
  <2>2. r.head \in 0 .. size - 1 /\ r.tail \in 0 .. size - 1 /\ r.buf \in [0 .. size - 1 -> Bytes]
    BY DEF Rings
  <2>3. CASE i = n + 1
    <3>1. Turn(r.tail + i - 1, size) = r.head
      BY <2>2, <2>3
    <3>2. a[n + 1] = b
      BY <1>2, AppendProperties
    <3> QED BY <2>1, <2>2, <2>3, <3>1, <3>2
  <2>4. CASE i \in 1 .. n
    <3>1. Turn(r.tail + i - 1, size) # r.head
      BY <2>2, <2>4 DEF Turn
    <3>2. Turn(r.tail + i - 1, size) \in 0 .. size - 1
      BY <2>2, <2>4 DEF Turn
    <3>3. a[i] = Window(r, n, size)[i]
      BY <1>2, <2>4, AppendProperties
    <3>4. Window(r, n, size)[i] = r.buf[Turn(r.tail + i - 1, size)]
      BY <2>4 DEF Window
    <3> QED BY <2>1, <2>2, <3>1, <3>2, <3>3, <3>4
  <2>5. i = n + 1 \/ i \in 1 .. n
    OBVIOUS
  <2> HIDE DEF w, a
  <2> QED BY <2>3, <2>4, <2>5
<1> HIDE DEF w, a
<1>5. w = a
  BY <1>1, <1>3, <1>4, SeqEqual
<1> QED BY <1>5 DEF w, a

(* The byte at the tail is the head of the queue, and going on to the next  *)
(* place leaves the rest.                                                   *)
LEMMA WindowPop ==
  ASSUME NEW size \in Nat, NEW r \in Rings(size), NEW n \in 1 .. size,
         NEW q \in Rings(size), q.buf = r.buf, q.tail = Inc(r.tail, size)
  PROVE  /\ Window(r, n, size) # <<>>
         /\ Head(Window(r, n, size)) = r.buf[r.tail]
         /\ Tail(Window(r, n, size)) = Window(q, n - 1, size)
<1> DEFINE w == Window(r, n, size)
           v == Window(q, n - 1, size)
<1>1. w \in Seq(Bytes) /\ Len(w) = n
  BY WindowType
<1>2. v \in Seq(Bytes) /\ Len(v) = n - 1
  BY WindowType
<1>3. w # <<>> /\ Head(w) = w[1]
  BY <1>1, HeadTailProperties
<1>4. r.tail \in 0 .. size - 1
  BY DEF Rings
<1>5. w[1] = r.buf[r.tail]
  BY <1>4 DEF Window, Turn
<1>6. Tail(w) \in Seq(Bytes) /\ Len(Tail(w)) = n - 1
  BY <1>1, <1>3, HeadTailProperties
<1>7. ASSUME NEW i \in 1 .. n - 1 PROVE Tail(w)[i] = v[i]
  <2>1. Tail(w)[i] = w[i + 1]
    BY <1>1, <1>3, HeadTailProperties
  <2>2. w[i + 1] = r.buf[Turn(r.tail + (i + 1) - 1, size)]
    BY DEF Window
  <2>3. v[i] = r.buf[Turn(Inc(r.tail, size) + i - 1, size)]
    BY DEF Window
  <2>4. Turn(r.tail + (i + 1) - 1, size) = Turn(Inc(r.tail, size) + i - 1, size)
    BY <1>4 DEF Turn, Inc
  <2> QED BY <2>1, <2>2, <2>3, <2>4
<1> HIDE DEF v
<1>8. Tail(w) = v
  BY <1>2, <1>6, <1>7, SeqEqual
<1> QED BY <1>3, <1>5, <1>8 DEF v

(* What is neither the buffer nor the tail does not change the queue.       *)
LEMMA WindowSame ==
  ASSUME NEW r, NEW q, NEW n, NEW size, q.buf = r.buf, q.tail = r.tail
  PROVE  Window(q, n, size) = Window(r, n, size)
BY DEF Window

-----------------------------------------------------------------------------
(* The inductive invariant.                                                 *)

(* There is a byte to take, and room for the one that is stored.            *)
Steps == /\ pc \in {"take", "taken"} => ser.data > 0
         /\ pc = "stored" => tser.data < TSize - 1

(* Flow control.  With RTS high the count is below the mark; with RTS low   *)
(* no more has come since it fell than the peer is slow to notice; and      *)
(* between the test and the raising of RTS no more than a burst.            *)
Coming == IF chip.full THEN 1 ELSE 0
Flow == /\ rts => ser.data < HighWater
        /\ ~rts => ser.data + Coming <= HighWater + late
        /\ pc = "raise" => ser.data + Coming <= LowWater + burst

IInv == TypeOK /\ RingsAgree /\ Steps /\ Flow

LEMMA InitIInv == Init => IInv
<1> SUFFICES ASSUME Init PROVE IInv
  OBVIOUS
<1> USE Sizes
<1>1. TypeOK
  <2>1. Ring(RSize) \in Rings(RSize) /\ Ring(TSize) \in Rings(TSize)
    BY DEF Ring, Rings
  <2>2. chip \in [full : BOOLEAN, byte : Bytes, empty : BOOLEAN, msi : BOOLEAN]
    BY DEF Init
  <2>3. {rts, ier, cts} \subseteq BOOLEAN
    BY Zenon DEF Init
  <2>4. late \in 0 .. Overshoot /\ burst \in 0 .. Burst
    BY DEF Init
  <2> QED BY <2>1, <2>2, <2>3, <2>4 DEF Init, TypeOK
<1>2. RingsAgree
  BY DEF Init, RingsAgree, Ring, Turn, InRing, InTring
<1>3. Steps /\ Flow
  BY DEF Init, Steps, Flow, Coming, Ring
<1> QED BY <1>1, <1>2, <1>3 DEF IInv

(* The program is at a step of its own only when nothing is pending.        *)
Checked(from, to) == from \in {"idle", "get", "check"} /\ to \in {"idle", "test"}

LEMMA CheckStep ==
  ASSUME IInv, NEW from, NEW to, Checked(from, to), Checkdata(from, to)
  PROVE  IInv'
<1> USE Sizes DEF IInv, Checked
<1>1. UNCHANGED <<ser, tser, c, rts, ier, chip, cts, late, burst, nextIn, nextOut, sent>>
  BY DEF Checkdata
<1>2. /\ pc \in {"idle", "get", "check"} /\ ~chip.full
      /\ \/ pc' = "raise" /\ after' \in {"idle", "test"} /\ ser.data <= LowWater
         \/ pc' = "take" /\ UNCHANGED after /\ ser.data > LowWater
         \/ pc' = "idle" /\ UNCHANGED after
  <2>1. pc \in {"idle", "get", "check"} /\ ~chip.full
    BY DEF Checkdata, Go, Pending
  <2>2. ser.data \in Nat
    BY DEF TypeOK, Rings
  <2>3. CASE ser.data <= LowWater
    <3>1. pc' = "raise" /\ after' = to
      BY <2>3 DEF Checkdata, Go
    <3> QED BY <2>1, <2>3, <3>1
  <2>4. CASE ser.data > LowWater
    <3>1. pc' = (IF to = "test" THEN "take" ELSE to) /\ UNCHANGED after
      BY <2>2, <2>4 DEF Checkdata, Go
    <3> QED BY <2>1, <2>4, <3>1
  <2> QED BY <2>2, <2>3, <2>4
<1>3. TypeOK'
  BY <1>1, <1>2 DEF TypeOK
<1>4. InRing' = InRing /\ InTring' = InTring
  BY <1>1, <1>2 DEF InRing, InTring
<1>5. RingsAgree'
  BY <1>1, <1>4 DEF RingsAgree
<1>6. ser.data \in Nat /\ burst \in Nat
  BY DEF TypeOK, Rings
<1>7. Steps'
  BY <1>1, <1>2, <1>6 DEF Steps
<1>8. Flow'
  BY <1>1, <1>2, <1>6 DEF Flow, Coming
<1> QED BY <1>3, <1>5, <1>7, <1>8

LEMMA RaiseStep == ASSUME IInv, CheckdataRaise PROVE IInv'
<1> USE Sizes DEF IInv
<1>1. UNCHANGED <<ser, tser, c, ier, chip, cts, nextIn, nextOut, sent>>
  BY DEF CheckdataRaise
<1>2. /\ pc = "raise" /\ ~chip.full /\ rts' = TRUE /\ late' = 0 /\ burst' = 0 /\ after' = "idle"
      /\ pc' \in {"idle", "get", "take"} /\ (pc' = "take" => ser.data # 0)
  BY DEF CheckdataRaise, Go, Pending, SetRts, TypeOK
<1>3. TypeOK'
  BY <1>1, <1>2 DEF TypeOK
<1>4. InRing' = InRing /\ InTring' = InTring
  BY <1>1, <1>2 DEF InRing, InTring
<1>5. RingsAgree'
  BY <1>1, <1>4 DEF RingsAgree
<1>6. ser.data \in Nat /\ burst \in 0 .. Burst
  BY DEF TypeOK, Rings
<1>7. Steps'
  BY <1>1, <1>2, <1>6 DEF Steps
<1>8. ser.data < HighWater
  BY <1>2, <1>6 DEF Flow, Coming
<1>9. Flow'
  BY <1>1, <1>2, <1>8 DEF Flow, Coming
<1> QED BY <1>3, <1>5, <1>7, <1>9

(* What a step of the rings leaves of the invariant to be proved.           *)
LEMMA RingFields ==
  ASSUME NEW size \in Nat, NEW r \in Rings(size)
  PROVE  /\ r.buf \in [0 .. size - 1 -> Bytes] /\ r.head \in 0 .. size - 1
         /\ r.tail \in 0 .. size - 1 /\ r.data \in 0 .. size - 1
BY DEF Rings

LEMMA RingChange ==
  ASSUME NEW size \in Nat, NEW r \in Rings(size), NEW b \in Bytes,
         NEW h \in 0 .. size - 1, NEW t \in 0 .. size - 1, NEW d \in 0 .. size - 1
  PROVE  /\ [r EXCEPT !.tail = t] \in Rings(size)
         /\ [r EXCEPT !.data = d] \in Rings(size)
         /\ [r EXCEPT !.tail = t, !.data = d] \in Rings(size)
         /\ [r EXCEPT !.buf[r.head] = b, !.head = h] \in Rings(size)
         /\ [r EXCEPT !.buf[r.head] = b, !.head = h, !.data = d] \in Rings(size)
         /\ [r EXCEPT !.data = d, !.head = h, !.tail = t] \in Rings(size)
<1> USE DEF Rings
<1>1. [r EXCEPT !.tail = t] \in Rings(size)
  OBVIOUS
<1>2. [r EXCEPT !.data = d] \in Rings(size)
  OBVIOUS
<1>3. [r EXCEPT !.tail = t, !.data = d] \in Rings(size)
  OBVIOUS
<1>4. [r EXCEPT !.buf[r.head] = b, !.head = h] \in Rings(size)
  OBVIOUS
<1>5. [r EXCEPT !.buf[r.head] = b, !.head = h, !.data = d] \in Rings(size)
  OBVIOUS
<1>6. [r EXCEPT !.data = d, !.head = h, !.tail = t] \in Rings(size)
  OBVIOUS
<1> HIDE DEF Rings
<1> QED BY <1>1, <1>2, <1>3, <1>4, <1>5, <1>6

LEMMA TakeStep == ASSUME IInv, InfromdevTake PROVE IInv'
<1> USE Sizes DEF IInv
<1>1. UNCHANGED <<tser, rts, ier, chip, after, cts, late, burst, nextIn, nextOut, sent>>
  BY DEF InfromdevTake, lineVars
<1>2. /\ pc = "take" /\ pc' = "taken" /\ c' = ser.buf[ser.tail]
      /\ ser' = [ser EXCEPT !.tail = Inc(@, RSize)]
  BY DEF InfromdevTake, Go
<1>3. /\ ser \in Rings(RSize) /\ ser.tail \in 0 .. RSize - 1 /\ ser.data \in 0 .. RSize - 1
      /\ ser.buf \in [0 .. RSize - 1 -> Bytes]
  BY RingFields DEF TypeOK
<1>4. /\ ser'.tail = Inc(ser.tail, RSize) /\ ser'.data = ser.data /\ ser'.head = ser.head
      /\ ser'.buf = ser.buf
  BY <1>2, <1>3 DEF Rings
<1>5. TypeOK'
  <2>1. ser' \in Rings(RSize)
    <3>1. Inc(ser.tail, RSize) \in 0 .. RSize - 1
      BY <1>3 DEF Inc
    <3> QED BY <1>2, <1>3, <3>1, RingChange
  <2>2. c' \in Bytes
    BY <1>2, <1>3
  <2> QED BY <1>1, <1>2, <2>1, <2>2 DEF TypeOK
<1>6. ser.data > 0
  BY <1>2 DEF Steps
<1>7. RingsAgree'
  <2>1. InRing' = ser.data - 1 /\ InRing = ser.data /\ InTring' = InTring
    BY <1>1, <1>2, <1>3, <1>4 DEF InRing, InTring
  <2>2. Turn(Inc(ser.tail, RSize) + (ser.data - 1), RSize) = Turn(ser.tail + ser.data, RSize)
    BY <1>3, <1>6, IncTurn
  <2> QED BY <1>1, <1>4, <2>1, <2>2 DEF RingsAgree
<1>8. Steps' /\ Flow'
  BY <1>1, <1>2, <1>4, <1>6 DEF Steps, Flow, Coming
<1> QED BY <1>5, <1>7, <1>8

LEMMA CountStep == ASSUME IInv, InfromdevCount PROVE IInv'
<1> USE Sizes DEF IInv
<1>1. UNCHANGED <<tser, rts, ier, chip, after, c, cts, late, burst, nextIn, nextOut, sent>>
  BY DEF InfromdevCount, lineVars
<1>2. pc = "taken" /\ pc' = "check" /\ ser' = [ser EXCEPT !.data = @ - 1]
  BY DEF InfromdevCount, Go
<1>3. ser \in Rings(RSize) /\ ser.data \in 0 .. RSize - 1 /\ ser.data > 0
  BY <1>2, RingFields DEF TypeOK, Steps
<1>4. /\ ser'.tail = ser.tail /\ ser'.data = ser.data - 1 /\ ser'.head = ser.head
      /\ ser'.buf = ser.buf
  BY <1>2, <1>3 DEF Rings
<1>5. TypeOK'
  <2>1. ser' \in Rings(RSize)
    <3>1. ser.data - 1 \in 0 .. RSize - 1
      BY <1>3
    <3> QED BY <1>2, <1>3, <3>1, RingChange
  <2> QED BY <1>1, <1>2, <2>1 DEF TypeOK
<1>6. InRing' = InRing /\ InTring' = InTring
  BY <1>1, <1>2, <1>3, <1>4 DEF InRing, InTring
<1>7. RingsAgree'
  BY <1>1, <1>4, <1>6 DEF RingsAgree
<1>8. late \in Nat
  BY DEF TypeOK
<1>9. Steps' /\ Flow'
  BY <1>1, <1>2, <1>3, <1>4, <1>8 DEF Steps, Flow, Coming
<1> QED BY <1>5, <1>7, <1>9

LEMMA StoreStep == ASSUME IInv, OuttodevStore PROVE IInv'
<1> USE Sizes DEF IInv
<1>1. UNCHANGED <<ser, rts, ier, chip, after, c, cts, late, burst, nextIn, sent>>
  BY DEF OuttodevStore, lineVars
<1>2. /\ pc \in {"idle", "put"} /\ pc' = "stored" /\ tser.data # TSize - 1
      /\ tser' = [tser EXCEPT !.buf[tser.head] = nextOut, !.head = Inc(@, TSize)]
      /\ nextOut' = Succ(nextOut)
  BY DEF OuttodevStore, Go
<1>3. /\ tser \in Rings(TSize) /\ tser.tail \in 0 .. TSize - 1 /\ tser.data \in 0 .. TSize - 1
      /\ nextOut \in Bytes
  BY RingFields DEF TypeOK
<1>4. /\ tser'.tail = tser.tail /\ tser'.data = tser.data /\ tser'.head = Inc(tser.head, TSize)
  BY <1>2, <1>3 DEF Rings
<1>5. TypeOK'
  <2>1. tser' \in Rings(TSize)
    <3>1. Inc(tser.head, TSize) \in 0 .. TSize - 1
      BY <1>3, RingFields DEF Inc
    <3> QED BY <1>2, <1>3, <3>1, RingChange
  <2>2. nextOut' \in Bytes
    BY <1>2, <1>3 DEF Succ
  <2> QED BY <1>1, <1>2, <2>1, <2>2 DEF TypeOK
<1>6. RingsAgree'
  <2>1. InTring' = tser.data + 1 /\ InTring = tser.data /\ InRing' = InRing
    BY <1>1, <1>2, <1>3, <1>4 DEF InRing, InTring
  <2>2. Inc(Turn(tser.tail + tser.data, TSize), TSize) = Turn(tser.tail + (tser.data + 1), TSize)
    BY <1>3, IncTurn
  <2> QED BY <1>1, <1>4, <2>1, <2>2 DEF RingsAgree
<1>7. Steps' /\ Flow'
  BY <1>1, <1>2, <1>3, <1>4 DEF Steps, Flow, Coming
<1> QED BY <1>5, <1>6, <1>7

LEMMA OutCountStep == ASSUME IInv, OuttodevCount PROVE IInv'
<1> USE Sizes DEF IInv
<1>1. UNCHANGED <<ser, rts, ier, chip, after, c, cts, late, burst, nextIn, nextOut, sent>>
  BY DEF OuttodevCount, lineVars
<1>2. pc = "stored" /\ pc' = "enable" /\ tser' = [tser EXCEPT !.data = @ + 1]
  BY DEF OuttodevCount, Go
<1>3. tser \in Rings(TSize) /\ tser.data \in 0 .. TSize - 1 /\ tser.data < TSize - 1
  BY <1>2, RingFields DEF TypeOK, Steps
<1>4. tser'.tail = tser.tail /\ tser'.data = tser.data + 1 /\ tser'.head = tser.head
  BY <1>2, <1>3 DEF Rings
<1>5. TypeOK'
  <2>1. tser' \in Rings(TSize)
    <3>1. tser.data + 1 \in 0 .. TSize - 1
      BY <1>3
    <3> QED BY <1>2, <1>3, <3>1, RingChange
  <2> QED BY <1>1, <1>2, <2>1 DEF TypeOK
<1>6. InRing' = InRing /\ InTring' = InTring
  BY <1>1, <1>2, <1>3, <1>4 DEF InRing, InTring
<1>7. RingsAgree'
  BY <1>1, <1>4, <1>6 DEF RingsAgree
<1>8. Steps' /\ Flow'
  BY <1>1, <1>2 DEF Steps, Flow, Coming
<1> QED BY <1>5, <1>7, <1>8

(* Waiting for room, and enabling the interrupt, touch neither ring.        *)
LEMMA EnableStep == ASSUME IInv, OuttodevWait \/ OuttodevEnable PROVE IInv'
<1> USE Sizes DEF IInv
<1>1. UNCHANGED <<ser, tser, rts, chip, after, c, cts, late, burst, nextIn, nextOut, sent>>
  BY DEF OuttodevWait, OuttodevEnable, lineVars
<1>2. pc \in {"idle", "put", "enable"} /\ pc' \in {"put", "idle"}
  BY DEF OuttodevWait, OuttodevEnable, Go
<1>3. ier' \in BOOLEAN
  BY DEF OuttodevWait, OuttodevEnable, TypeOK
<1>4. TypeOK'
  BY <1>1, <1>2, <1>3 DEF TypeOK
<1>5. InRing' = InRing /\ InTring' = InTring
  BY <1>1, <1>2 DEF InRing, InTring
<1>6. RingsAgree'
  BY <1>1, <1>5 DEF RingsAgree
<1>7. Steps' /\ Flow'
  BY <1>1, <1>2 DEF Steps, Flow, Coming
<1> QED BY <1>4, <1>6, <1>7

LEMMA ZapStep == ASSUME IInv, Zapbuffers PROVE IInv'
<1> USE Sizes DEF IInv
<1>1. UNCHANGED <<tser, chip, ier, after, c, cts, burst, nextIn, nextOut, sent>>
  BY DEF Zapbuffers
<1>2. /\ pc = "idle" /\ pc' = "idle" /\ rts' = TRUE /\ late' = 0
      /\ ser' = [ser EXCEPT !.data = 0, !.head = 0, !.tail = 0]
  BY DEF Zapbuffers, Go, SetRts
<1>3. ser \in Rings(RSize)
  BY DEF TypeOK
<1>4. ser'.tail = 0 /\ ser'.data = 0 /\ ser'.head = 0 /\ ser' \in Rings(RSize)
  <2>1. 0 \in 0 .. RSize - 1
    OBVIOUS
  <2>2. ser' \in Rings(RSize)
    BY <1>2, <1>3, <2>1, RingChange
  <2> QED BY <1>2, <1>3, <2>2 DEF Rings
<1>5. TypeOK'
  BY <1>1, <1>2, <1>4 DEF TypeOK
<1>6. InRing' = 0 /\ InTring' = InTring
  BY <1>1, <1>2, <1>4 DEF InRing, InTring
<1>7. RingsAgree'
  BY <1>1, <1>4, <1>6 DEF RingsAgree, Turn
<1>8. Steps' /\ Flow'
  BY <1>1, <1>2, <1>4 DEF Steps, Flow, Coming
<1> QED BY <1>5, <1>7, <1>8

(* A byte that has come always has room.                                    *)
LEMMA Room == IInv => NothingDropped
<1> SUFFICES ASSUME IInv, chip.full PROVE ser.data <= RSize - 2
  BY DEF NothingDropped
<1>1. ser.data \in Nat /\ late \in 0 .. Overshoot /\ rts \in BOOLEAN
  BY Sizes, RingFields DEF IInv, TypeOK
<1> QED BY Sizes, <1>1 DEF IInv, Flow, Coming

LEMMA IsrDataStep == ASSUME IInv, IsrData PROVE IInv'
<1> USE Sizes DEF IInv
<1>1. UNCHANGED <<tser, pc, c, after, nextOut, ier, cts, burst, nextIn, sent>>
  BY DEF IsrData, mainVars
<1>2. /\ ser \in Rings(RSize) /\ ser.head \in 0 .. RSize - 1 /\ ser.tail \in 0 .. RSize - 1
      /\ ser.data \in 0 .. RSize - 1 /\ chip.byte \in Bytes
  BY RingFields DEF TypeOK
<1>3. chip.full /\ ser.data <= RSize - 2
  BY Room DEF IsrData, NothingDropped
<1>4. /\ chip' = [chip EXCEPT !.full = FALSE]
      /\ ser' = [ser EXCEPT !.buf[ser.head] = chip.byte, !.head = Inc(@, RSize), !.data = @ + 1]
      /\ IF ser'.data = HighWater THEN SetRts(FALSE) ELSE UNCHANGED <<rts, late>>
  <2>1. ~(ser.data > RSize - 2)
    BY <1>2, <1>3
  <2> QED BY Zenon, <2>1 DEF IsrData
<1>5. /\ ser'.tail = ser.tail /\ ser'.data = ser.data + 1 /\ ser'.head = Inc(ser.head, RSize)
      /\ ser' \in Rings(RSize)
  <2>1. Inc(ser.head, RSize) \in 0 .. RSize - 1
    BY <1>2 DEF Inc
  <2>2. ser.data + 1 \in 0 .. RSize - 1
    BY <1>2, <1>3
  <2>3. ser' \in Rings(RSize)
    BY <1>2, <1>4, <2>1, <2>2, RingChange
  <2> QED BY <1>2, <1>4, <2>3 DEF Rings
<1>6. chip' \in [full : BOOLEAN, byte : Bytes, empty : BOOLEAN, msi : BOOLEAN] /\ ~chip'.full
  BY <1>4 DEF TypeOK
<1>7. late \in 0 .. Overshoot /\ rts \in BOOLEAN /\ burst \in Nat
  BY DEF TypeOK
<1>8. /\ rts' \in BOOLEAN /\ late' \in 0 .. Overshoot
      /\ rts' => rts /\ ser'.data # HighWater
      /\ ~rts' => \/ rts /\ ser'.data = HighWater
                  \/ ~rts /\ late' = late
  <2>1. CASE ser'.data = HighWater
    <3>1. rts' = FALSE /\ late' = IF rts THEN 0 ELSE late
      BY <1>4, <2>1 DEF SetRts
    <3>2. ~rts' /\ rts' \in BOOLEAN
      BY <3>1
    <3>3. CASE rts
      BY <2>1, <3>1, <3>2, <3>3
    <3>4. CASE ~rts
      BY <1>7, <2>1, <3>1, <3>2, <3>4
    <3> QED BY <3>3, <3>4
  <2>2. CASE ser'.data # HighWater
    <3>1. rts' = rts /\ late' = late
      BY <1>4, <2>2
    <3> QED BY <1>7, <2>2, <3>1
  <2> QED BY <2>1, <2>2
<1>9. TypeOK'
  BY <1>1, <1>5, <1>6, <1>8 DEF TypeOK
<1>10. RingsAgree'
  <2>1. InRing' = InRing + 1 /\ InTring' = InTring
    BY <1>1, <1>2, <1>5 DEF InRing, InTring
  <2>2. InRing \in 0 .. RSize - 1
    BY <1>2 DEF InRing, Steps
  <2>3. Inc(Turn(ser.tail + InRing, RSize), RSize) = Turn(ser.tail + (InRing + 1), RSize)
    BY <1>2, <2>2, IncTurn
  <2> QED BY <1>1, <1>5, <2>1, <2>3 DEF RingsAgree
<1>11. Steps'
  BY <1>1, <1>2, <1>5 DEF Steps
<1>12. Flow'
  <2>1. Coming' = 0 /\ Coming = 1
    BY <1>3, <1>6 DEF Coming
  <2>2. rts' => ser'.data < HighWater
    BY <1>2, <1>5, <1>8 DEF Flow
  <2>3. ~rts' => ser'.data <= HighWater + late'
    BY <1>2, <1>5, <1>7, <1>8, <2>1 DEF Flow
  <2>4. pc = "raise" => ser'.data <= LowWater + burst
    BY <1>2, <1>5, <2>1 DEF Flow
  <2> QED BY <1>1, <1>2, <1>5, <1>7, <1>8, <2>1, <2>2, <2>3, <2>4 DEF Flow
<1> QED BY <1>9, <1>10, <1>11, <1>12

LEMMA IsrSendStep == ASSUME IInv, IsrSend PROVE IInv'
<1> USE Sizes DEF IInv
<1>1. UNCHANGED <<ser, pc, c, after, nextOut, rts, ier, cts, late, burst, nextIn>>
  BY DEF IsrSend, mainVars
<1> tser.data # 0
  BY DEF IsrSend
<1>2. /\ sent' = tser.buf[tser.tail]
      /\ chip' = [chip EXCEPT !.empty = FALSE, !.msi = FALSE]
      /\ tser' = [tser EXCEPT !.tail = Inc(@, TSize), !.data = @ - 1]
  BY DEF IsrSend
<1>3. /\ tser \in Rings(TSize) /\ tser.tail \in 0 .. TSize - 1 /\ tser.data \in 0 .. TSize - 1
      /\ tser.buf \in [0 .. TSize - 1 -> Bytes]
  BY RingFields DEF TypeOK
<1>4. /\ tser'.tail = Inc(tser.tail, TSize) /\ tser'.data = tser.data - 1
      /\ tser'.head = tser.head /\ tser' \in Rings(TSize)
  <2>1. Inc(tser.tail, TSize) \in 0 .. TSize - 1
    BY <1>3 DEF Inc
  <2>2. tser.data - 1 \in 0 .. TSize - 1
    BY <1>3
  <2>3. tser' \in Rings(TSize)
    BY <1>2, <1>3, <2>1, <2>2, RingChange
  <2> QED BY <1>2, <1>3, <2>3 DEF Rings
<1>5. /\ chip' \in [full : BOOLEAN, byte : Bytes, empty : BOOLEAN, msi : BOOLEAN]
      /\ chip'.full = chip.full
  BY <1>2 DEF TypeOK
<1>6. TypeOK'
  <2>1. sent' \in Bytes
    BY <1>2, <1>3
  <2> QED BY <1>1, <1>4, <1>5, <2>1 DEF TypeOK
<1>7. RingsAgree'
  <2>1. InTring' = InTring - 1 /\ InRing' = InRing
    BY <1>1, <1>3, <1>4 DEF InRing, InTring
  <2>2. InTring \in 0 .. TSize - 1 /\ InTring > 0
    <3>1. CASE pc = "stored"
      BY <1>3, <3>1 DEF InTring, Steps
    <3>2. CASE pc # "stored"
      BY <1>3, <3>2 DEF InTring
    <3> QED BY <3>1, <3>2
  <2>3. Turn(Inc(tser.tail, TSize) + (InTring - 1), TSize) = Turn(tser.tail + InTring, TSize)
    BY <1>3, <2>2, IncTurn
  <2> QED BY <1>1, <1>4, <2>1, <2>3 DEF RingsAgree
<1>8. Steps'
  BY <1>1, <1>3, <1>4 DEF Steps
<1>9. Flow'
  BY <1>1, <1>5 DEF Flow, Coming
<1> QED BY <1>6, <1>7, <1>8, <1>9

(* A byte comes: it is late, or one of a burst.                             *)
LEMMA LineInStep == ASSUME IInv, LineIn PROVE IInv'
<1> USE Sizes DEF IInv
<1>1. UNCHANGED <<ser, tser, pc, c, after, nextOut, rts, ier, cts, sent>>
  BY DEF LineIn, mainVars
<1>2. /\ ~chip.full /\ (rts \/ late < Overshoot) /\ (pc = "raise" => burst < Burst)
      /\ chip' = [chip EXCEPT !.full = TRUE, !.byte = nextIn] /\ nextIn' = Succ(nextIn)
      /\ late' = (IF rts THEN 0 ELSE late + 1)
      /\ burst' = (IF pc = "raise" THEN burst + 1 ELSE 0)
  BY DEF LineIn
<1>3. /\ late \in 0 .. Overshoot /\ burst \in 0 .. Burst /\ rts \in BOOLEAN
      /\ ser.data \in Nat /\ nextIn \in Bytes
  BY RingFields DEF TypeOK
<1>4. /\ chip' \in [full : BOOLEAN, byte : Bytes, empty : BOOLEAN, msi : BOOLEAN]
      /\ chip'.full = TRUE
  BY <1>2, <1>3 DEF TypeOK
<1>5. TypeOK'
  <2>1. late' \in 0 .. Overshoot /\ burst' \in 0 .. Burst
    BY <1>2, <1>3
  <2>2. nextIn' \in Bytes
    BY <1>2, <1>3 DEF Succ
  <2> QED BY <1>1, <1>4, <2>1, <2>2 DEF TypeOK
<1>6. InRing' = InRing /\ InTring' = InTring
  BY <1>1 DEF InRing, InTring
<1>7. RingsAgree' /\ Steps'
  BY <1>1, <1>6 DEF RingsAgree, Steps
<1>8. Flow'
  <2>1. Coming' = 1 /\ Coming = 0
    BY <1>2, <1>4 DEF Coming
  <2>2. ~rts => ser.data + 1 <= HighWater + late'
    BY <1>2, <1>3, <2>1 DEF Flow
  <2>3. pc = "raise" => ser.data + 1 <= LowWater + burst'
    BY <1>2, <1>3, <2>1 DEF Flow
  <2> QED BY <1>1, <2>1, <2>2, <2>3 DEF Flow
<1> QED BY <1>5, <1>7, <1>8

(* The rest of serial_ISR and of the line touches neither ring nor RTS.     *)
Beside == IsrStopSending \/ IsrModem \/ LineOut \/ LineCts
LEMMA BesideStep == ASSUME IInv, Beside PROVE IInv'
<1> USE Sizes DEF IInv
<1>1. UNCHANGED <<ser, tser, pc, c, after, nextOut, rts, late, burst, nextIn, sent>>
  BY DEF Beside, IsrStopSending, IsrModem, LineOut, LineCts, mainVars, lineVars
<1>2. /\ chip' \in [full : BOOLEAN, byte : Bytes, empty : BOOLEAN, msi : BOOLEAN]
      /\ chip'.full = chip.full /\ chip'.byte = chip.byte
  <2>1. chip \in [full : BOOLEAN, byte : Bytes, empty : BOOLEAN, msi : BOOLEAN]
    BY DEF TypeOK
  <2>2. \E e, m \in BOOLEAN : chip' = [chip EXCEPT !.empty = e, !.msi = m]
    <3>1. CASE IsrStopSending
      <4>1. chip' = [chip EXCEPT !.empty = chip.empty, !.msi = chip.msi /\ tser.data = 0]
        BY <2>1, <3>1 DEF IsrStopSending
      <4>2. chip.empty \in BOOLEAN /\ (chip.msi /\ tser.data = 0) \in BOOLEAN
        BY <2>1
      <4> QED BY <4>1, <4>2
    <3>2. CASE IsrModem
      BY <2>1, <3>2 DEF IsrModem
    <3>3. CASE LineOut
      BY <2>1, <3>3 DEF LineOut
    <3>4. CASE LineCts
      BY <2>1, <3>4 DEF LineCts
    <3> QED BY <3>1, <3>2, <3>3, <3>4 DEF Beside
  <2> QED BY <2>1, <2>2
<1>3. ier' \in BOOLEAN /\ cts' \in BOOLEAN
  <2>1. ier \in BOOLEAN /\ cts \in BOOLEAN
    BY DEF TypeOK
  <2> QED BY <2>1 DEF Beside, IsrStopSending, IsrModem, LineOut, LineCts, lineVars
<1>4. TypeOK'
  BY <1>1, <1>2, <1>3 DEF TypeOK
<1>5. InRing' = InRing /\ InTring' = InTring
  BY <1>1 DEF InRing, InTring
<1>6. RingsAgree' /\ Steps' /\ Flow'
  BY <1>1, <1>2, <1>5 DEF RingsAgree, Steps, Flow, Coming
<1> QED BY <1>4, <1>6

LEMMA StepIInv == IInv /\ [Next]_vars => IInv'
<1> SUFFICES ASSUME IInv, [Next]_vars PROVE IInv'
  OBVIOUS
<1>1. ASSUME NEW from, NEW to, Checked(from, to), Checkdata(from, to) PROVE IInv'
  BY <1>1, CheckStep
<1>2. CASE Main
  BY <1>1, <1>2, RaiseStep, TakeStep, CountStep, StoreStep, OutCountStep, EnableStep, ZapStep
     DEF Main, Checked
<1>3. CASE Isr \/ LineIn \/ LineOut \/ LineCts
  BY <1>3, IsrDataStep, IsrSendStep, LineInStep, BesideStep DEF Isr, Beside
<1>4. CASE UNCHANGED vars
  BY <1>4 DEF vars, IInv, TypeOK, RingsAgree, InRing, InTring, Steps, Flow, Coming
<1> QED BY <1>2, <1>3, <1>4 DEF Next

LEMMA Invariance == Spec => []IInv
BY InitIInv, StepIInv, PTL DEF Spec

(* Wherever serial_ISR interrupts checkdata, infromdev, outtodev or         *)
(* zapbuffers, the counts are the distances between the indices and a byte  *)
(* that comes has room, if the peer stops in time (dosuart.c:215-331).      *)
THEOREM RingsSound == Spec => []UartSound
<1>1. IInv => UartSound
  BY Room DEF IInv, UartSound
<1> QED BY <1>1, Invariance, PTL

-----------------------------------------------------------------------------
(* The refinement.  The queues of the serial line.                          *)
Rx == Window(ser, InRing, RSize)
Tx == Window(tser, InTring, TSize)

LEMMA Queues ==
  ASSUME IInv
  PROVE  /\ InRing \in 0 .. RSize - 1 /\ InTring \in 0 .. TSize - 1
         /\ Rx \in Seq(Bytes) /\ Len(Rx) = InRing
         /\ Tx \in Seq(Bytes) /\ Len(Tx) = InTring
<1> USE Sizes
<1>1. ser \in Rings(RSize) /\ tser \in Rings(TSize)
  BY DEF IInv, TypeOK
<1>2. ser.data \in 0 .. RSize - 1 /\ tser.data \in 0 .. TSize - 1
  BY <1>1, RingFields
<1>3. InRing \in 0 .. RSize - 1
  BY <1>2 DEF IInv, Steps, InRing
<1>4. InTring \in 0 .. TSize - 1
  BY <1>2 DEF IInv, Steps, InTring
<1>5. Rx \in Seq(Bytes) /\ Len(Rx) = InRing
  <2>1. InRing \in 0 .. RSize
    BY <1>3
  <2> QED BY <1>1, <2>1, WindowType DEF Rx
<1>6. Tx \in Seq(Bytes) /\ Len(Tx) = InTring
  <2>1. InTring \in 0 .. TSize
    BY <1>4
  <2> QED BY <1>1, <2>1, WindowType DEF Tx
<1> QED BY <1>3, <1>4, <1>5, <1>6

LEMMA RefineInit == Init => M!Init
<1> SUFFICES ASSUME Init PROVE M!Init
  OBVIOUS
<1>1. InRing = 0 /\ InTring = 0
  BY DEF Init, InRing, InTring, Ring
<1>2. Window(ser, 0, RSize) = <<>> /\ Window(tser, 0, TSize) = <<>>
  BY DEF Window
<1>3. {chip.byte, nextOut, c, sent} \subseteq Bytes
  BY Sizes DEF Init
<1> QED BY <1>1, <1>2, <1>3 DEF M!Init

(* Steps about the counts, the marks and the interrupts are not seen.       *)
LEMMA Unseen ==
  ASSUME ser'.buf = ser.buf, ser'.tail = ser.tail, tser'.buf = tser.buf, tser'.tail = tser.tail,
         InRing' = InRing, InTring' = InTring, chip'.byte = chip.byte,
         nextOut' = nextOut, c' = c, sent' = sent
  PROVE  UNCHANGED M!vars
<1>1. Window(ser', InRing, RSize) = Window(ser, InRing, RSize)
  BY WindowSame
<1>2. Window(tser', InTring, TSize) = Window(tser, InTring, TSize)
  BY WindowSame
<1> QED BY <1>1, <1>2 DEF M!vars

(* InfromdevTake reads the head of the receive queue.                       *)
LEMMA RefineTake == ASSUME IInv, IInv', InfromdevTake PROVE M!Read
<1> USE Sizes
<1>1. /\ ser \in Rings(RSize) /\ ser' \in Rings(RSize) /\ ser.data \in 0 .. RSize - 1
  BY RingFields DEF IInv, TypeOK
<1>2. ser' = [ser EXCEPT !.tail = Inc(ser.tail, RSize)] /\ c' = ser.buf[ser.tail]
  BY DEF InfromdevTake
<1>3. ser'.buf = ser.buf /\ ser'.tail = Inc(ser.tail, RSize) /\ ser'.data = ser.data
  BY <1>1, <1>2 DEF Rings
<1>4. pc = "take" /\ pc' = "taken" /\ ser.data > 0
  BY DEF InfromdevTake, Go, IInv, Steps
<1>5. InRing = ser.data /\ InRing' = ser.data - 1 /\ ser.data \in 1 .. RSize
  BY <1>1, <1>3, <1>4 DEF InRing
<1>6. /\ Window(ser, ser.data, RSize) # <<>>
      /\ Head(Window(ser, ser.data, RSize)) = ser.buf[ser.tail]
      /\ Tail(Window(ser, ser.data, RSize)) = Window(ser', ser.data - 1, RSize)
  BY <1>1, <1>3, <1>5, WindowPop
<1>7. Rx # <<>> /\ Head(Rx) = c' /\ Tail(Rx) = Rx'
  BY <1>2, <1>5, <1>6 DEF Rx
<1>8. UNCHANGED <<tser, chip, nextOut, sent>>
  BY DEF InfromdevTake, lineVars
<1>9. Tx' = Tx
  BY <1>4, <1>8 DEF Tx, InTring
<1> QED BY <1>7, <1>8, <1>9 DEF M!Read, Rx, Tx

(* OuttodevStore appends to the transmit queue.                             *)
LEMMA RefineStore == ASSUME IInv, IInv', OuttodevStore PROVE M!Write
<1> USE Sizes
<1>1. /\ tser \in Rings(TSize) /\ tser' \in Rings(TSize) /\ tser.data \in 0 .. TSize - 1
      /\ nextOut \in Bytes /\ nextOut' \in Bytes
  BY RingFields DEF IInv, TypeOK
<1>2. /\ pc \in {"idle", "put"} /\ pc' = "stored" /\ tser.data # TSize - 1
      /\ UNCHANGED <<ser, chip, c, sent>>
  BY DEF OuttodevStore, Go, lineVars
<1>3. tser' = [tser EXCEPT !.buf[tser.head] = nextOut, !.head = Inc(tser.head, TSize)]
  BY DEF OuttodevStore
<1>4. /\ tser'.buf = [tser.buf EXCEPT ![tser.head] = nextOut] /\ tser'.tail = tser.tail
      /\ tser'.data = tser.data
  BY <1>1, <1>3 DEF Rings
<1>5. InTring = tser.data /\ InTring' = tser.data + 1 /\ InRing' = InRing
  BY <1>1, <1>2, <1>4 DEF InTring, InRing
<1>6. tser.head = Turn(tser.tail + tser.data, TSize)
  BY <1>5 DEF IInv, RingsAgree
<1>7. Window(tser', tser.data + 1, TSize) = Append(Window(tser, tser.data, TSize), nextOut)
  <2> HIDE Sizes
  <2>1. TSize \in Nat
    BY Sizes
  <2>2. tser'.buf = [tser.buf EXCEPT ![tser.head] = nextOut] /\ tser'.tail = tser.tail
    BY <1>4
  <2> QED BY <1>1, <1>6, <2>1, <2>2, WindowPush
<1>8. Tx' = Append(Tx, nextOut)
  BY <1>5, <1>7 DEF Tx
<1>9. Len(Tx) < TSize - 1
  BY <1>1, <1>2, <1>5, Queues
<1>10. Rx' = Rx
  BY <1>2, <1>5 DEF Rx
<1> QED BY <1>1, <1>2, <1>8, <1>9, <1>10 DEF M!Write, Rx, Tx

(* zapbuffers throws a full receive queue away.                             *)
LEMMA RefineZap == ASSUME IInv, IInv', Zapbuffers PROVE M!Zap
<1> USE Sizes
<1>1. ser \in Rings(RSize) /\ ser.data \in 0 .. RSize - 1
  BY RingFields DEF IInv, TypeOK
<1>2. /\ pc = "idle" /\ pc' = "idle" /\ ser.data > RSize - 2
      /\ UNCHANGED <<tser, chip, c, nextOut, sent>>
  BY DEF Zapbuffers, Go
<1>3. ser'.data = 0
  BY <1>1 DEF Zapbuffers, Rings
<1>4. InRing = RSize - 1 /\ InRing' = 0 /\ InTring' = InTring
  BY <1>1, <1>2, <1>3 DEF InRing, InTring
<1>5. Len(Rx) = RSize - 1
  BY <1>4, Queues
<1>6. Rx' = <<>>
  BY <1>4 DEF Rx, Window
<1>7. Tx' = Tx
  BY <1>2, <1>4 DEF Tx
<1> QED BY <1>2, <1>5, <1>6, <1>7 DEF M!Zap, Rx, Tx

(* serial_ISR puts a byte that has come into the receive queue ...          *)
LEMMA RefineData == ASSUME IInv, IInv', IsrData PROVE M!Receive
<1> USE Sizes
<1>1. /\ ser \in Rings(RSize) /\ ser' \in Rings(RSize) /\ ser.data \in 0 .. RSize - 1
      /\ chip.byte \in Bytes /\ chip'.byte = chip.byte
  BY RingFields DEF IInv, TypeOK, IsrData
<1>2. UNCHANGED <<tser, pc, c, nextOut, sent>>
  BY DEF IsrData, mainVars
<1>3. ser.data <= RSize - 2
  BY Room DEF IsrData, NothingDropped
<1>4. ~(ser.data > RSize - 2)
  BY <1>1, <1>3
<1>5. ser' = [ser EXCEPT !.buf[ser.head] = chip.byte, !.head = Inc(ser.head, RSize), !.data = ser.data + 1]
  BY Zenon, <1>4 DEF IsrData
<1>6. /\ ser'.buf = [ser.buf EXCEPT ![ser.head] = chip.byte] /\ ser'.tail = ser.tail
      /\ ser'.data = ser.data + 1
  BY <1>1, <1>5 DEF Rings
<1>7. InRing' = InRing + 1 /\ InTring' = InTring /\ InRing < RSize - 1
  BY <1>1, <1>2, <1>3, <1>6 DEF InRing, InTring
<1>8. InRing \in 0 .. RSize - 1 /\ Len(Rx) = InRing
  BY Queues
<1>9. ser.head = Turn(ser.tail + InRing, RSize)
  BY DEF IInv, RingsAgree
<1>10. Window(ser', InRing + 1, RSize) = Append(Window(ser, InRing, RSize), chip.byte)
  <2> HIDE Sizes
  <2>1. RSize \in Nat
    BY Sizes
  <2>2. InRing \in 0 .. RSize - 1 /\ chip.byte \in Bytes
    BY <1>1, <1>8
  <2>3. ser'.buf = [ser.buf EXCEPT ![ser.head] = chip.byte] /\ ser'.tail = ser.tail
    BY <1>6
  <2>4. ser \in Rings(RSize) /\ ser' \in Rings(RSize)
    BY <1>1
  <2> QED BY <2>1, <2>2, <2>3, <2>4, <1>9, WindowPush
<1>11. Rx' = Append(Rx, chip.byte)
  BY <1>7, <1>10 DEF Rx
<1>12. Tx' = Tx
  BY <1>2, <1>7 DEF Tx
<1> QED BY <1>1, <1>2, <1>7, <1>8, <1>11, <1>12 DEF M!Receive, Rx, Tx

(* ... and sends the head of the transmit queue.                            *)
LEMMA RefineSend == ASSUME IInv, IInv', IsrSend PROVE M!Send
<1> USE Sizes
<1>1. /\ tser \in Rings(TSize) /\ tser' \in Rings(TSize) /\ tser.data \in 0 .. TSize - 1
  BY RingFields DEF IInv, TypeOK
<1>2. UNCHANGED <<ser, pc, c, nextOut>> /\ tser.data # 0 /\ sent' = tser.buf[tser.tail]
  BY DEF IsrSend, mainVars
<1>3. tser' = [tser EXCEPT !.tail = Inc(tser.tail, TSize), !.data = tser.data - 1]
  BY DEF IsrSend
<1>4. /\ tser'.buf = tser.buf /\ tser'.tail = Inc(tser.tail, TSize)
      /\ tser'.data = tser.data - 1
  BY <1>1, <1>3 DEF Rings
<1>5. InTring' = InTring - 1 /\ InRing' = InRing
  BY <1>1, <1>2, <1>4 DEF InTring, InRing
<1>6. InTring \in 0 .. TSize - 1 /\ InTring # 0
  <2>1. InTring \in 0 .. TSize - 1
    BY Queues
  <2>2. InTring # 0
    BY <1>1, <1>2 DEF InTring
  <2> QED BY <2>1, <2>2
<1>7. InTring \in 1 .. TSize
  BY <1>6
<1>8. /\ Window(tser, InTring, TSize) # <<>>
      /\ Head(Window(tser, InTring, TSize)) = tser.buf[tser.tail]
      /\ Tail(Window(tser, InTring, TSize)) = Window(tser', InTring - 1, TSize)
  BY <1>1, <1>4, <1>7, WindowPop
<1>9. Tx # <<>> /\ Head(Tx) = sent' /\ Tail(Tx) = Tx'
  BY <1>2, <1>5, <1>8 DEF Tx
<1>10. Rx' = Rx
  BY <1>2, <1>5 DEF Rx
<1>11. chip'.byte = chip.byte
  BY DEF IsrSend, IInv, TypeOK
<1> QED BY <1>2, <1>9, <1>10, <1>11 DEF M!Send, Rx, Tx

LEMMA RefineLineIn == ASSUME IInv, IInv', LineIn PROVE M!Arrive
<1>1. UNCHANGED <<ser, tser, pc, c, nextOut, sent>>
  BY DEF LineIn, mainVars
<1>2. chip'.byte \in Bytes
  BY DEF IInv, TypeOK
<1>3. Rx' = Rx /\ Tx' = Tx
  BY <1>1 DEF Rx, Tx, InRing, InTring
<1> QED BY <1>1, <1>2, <1>3 DEF M!Arrive, Rx, Tx

LEMMA RefineNext == IInv /\ IInv' /\ [Next]_vars => [M!Next]_(M!vars)
<1> SUFFICES ASSUME IInv, IInv', [Next]_vars PROVE M!Next \/ UNCHANGED M!vars
  OBVIOUS
<1>1. ASSUME NEW from, NEW to, Checked(from, to), Checkdata(from, to) PROVE UNCHANGED M!vars
  <2>1. UNCHANGED <<ser, tser, c, chip, nextOut, sent>>
    BY <1>1 DEF Checkdata
  <2>2. pc \notin {"taken", "stored"} /\ pc' \notin {"taken", "stored"}
    BY <1>1 DEF Checkdata, Go, Checked
  <2> QED BY <2>1, <2>2, Unseen DEF InRing, InTring
<1>2. CASE CheckdataRaise
  <2>1. UNCHANGED <<ser, tser, c, chip, nextOut, sent>>
    BY <1>2 DEF CheckdataRaise
  <2>2. pc \notin {"taken", "stored"} /\ pc' \notin {"taken", "stored"}
    BY <1>2 DEF CheckdataRaise, Go, IInv, TypeOK
  <2> QED BY <2>1, <2>2, Unseen DEF InRing, InTring
<1>3. CASE InfromdevCount
  <2>1. UNCHANGED <<tser, c, chip, nextOut, sent>> /\ pc = "taken" /\ pc' = "check"
    BY <1>3 DEF InfromdevCount, Go, lineVars
  <2>2. ser \in Rings(RSize) /\ ser.data \in Nat
    BY Sizes, RingFields DEF IInv, TypeOK
  <2>3. ser'.buf = ser.buf /\ ser'.tail = ser.tail /\ ser'.data = ser.data - 1
    BY <1>3, <2>2 DEF InfromdevCount, Rings
  <2>4. InRing' = InRing /\ InTring' = InTring
    BY <2>1, <2>2, <2>3 DEF InRing, InTring
  <2> QED BY <2>1, <2>3, <2>4, Unseen
<1>4. CASE OuttodevCount
  <2>1. UNCHANGED <<ser, c, chip, nextOut, sent>> /\ pc = "stored" /\ pc' = "enable"
    BY <1>4 DEF OuttodevCount, Go, lineVars
  <2>2. tser \in Rings(TSize) /\ tser.data \in Nat
    BY Sizes, RingFields DEF IInv, TypeOK
  <2>3. tser'.buf = tser.buf /\ tser'.tail = tser.tail /\ tser'.data = tser.data + 1
    BY <1>4, <2>2 DEF OuttodevCount, Rings
  <2>4. InRing' = InRing /\ InTring' = InTring
    BY <2>1, <2>2, <2>3 DEF InRing, InTring
  <2> QED BY <2>1, <2>3, <2>4, Unseen
<1>5. CASE OuttodevWait \/ OuttodevEnable
  <2>1. UNCHANGED <<ser, tser, c, chip, nextOut, sent>>
    BY <1>5 DEF OuttodevWait, OuttodevEnable, lineVars
  <2>2. pc \notin {"taken", "stored"} /\ pc' \notin {"taken", "stored"}
    BY <1>5 DEF OuttodevWait, OuttodevEnable, Go
  <2> QED BY <2>1, <2>2, Unseen DEF InRing, InTring
<1>6. CASE Beside
  <2>1. UNCHANGED <<ser, tser, pc, c, nextOut, sent>>
    BY <1>6 DEF Beside, IsrStopSending, IsrModem, LineOut, LineCts, mainVars, lineVars
  <2>2. chip'.byte = chip.byte
    BY <1>6 DEF Beside, IsrStopSending, IsrModem, LineOut, LineCts, IInv, TypeOK
  <2> QED BY <2>1, <2>2, Unseen DEF InRing, InTring
<1>7. CASE UNCHANGED vars
  BY <1>7, Unseen DEF vars, InRing, InTring
<1>8. CASE Main
  BY <1>1, <1>2, <1>3, <1>4, <1>5, <1>8, RefineTake, RefineStore, RefineZap
     DEF Main, M!Next, Checked
<1>9. CASE Isr \/ LineIn \/ LineOut \/ LineCts
  BY <1>6, <1>9, RefineData, RefineSend, RefineLineIn DEF Isr, Beside, M!Next
<1> QED BY <1>7, <1>8, <1>9 DEF Next

(* The driver is two queues: every byte that comes is read once and in      *)
(* order, and every byte written is sent once and in order, whatever ring   *)
(* sizes and marks, unless a full ring is zapped whole (dosuart.c:67-75).   *)
THEOREM Refinement == Spec => ImplementsSerialLine
<1>1. Init => M!Init
  BY RefineInit
<1>2. IInv /\ IInv' /\ [Next]_vars => [M!Next]_(M!vars)
  BY RefineNext
<1> QED BY <1>1, <1>2, Invariance, PTL DEF Spec, M!Spec, ImplementsSerialLine
=============================================================================
