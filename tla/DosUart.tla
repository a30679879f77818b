------------------------------- MODULE DosUart -------------------------------
(***************************************************************************)
(* The interrupt driven serial driver for DOS.  serial_ISR fills one ring  *)
(* and empties the other; the main program does the opposite in checkdata, *)
(* infromdev and outtodev, interrupted between any two of its steps.  RTS  *)
(* and CTS stop the sender on either side.  The chip and the peer are      *)
(* modelled by what the driver sees of them.                               *)
(***************************************************************************)
EXTENDS Integers, Sequences

CONSTANTS RSize, TSize,         \* RSERBUFSIZE, TSERBUFSIZE
          LowWater, HighWater,
          Overshoot,   \* the peer still sends this many bytes once RTS is low
          Burst,       \* bytes that may come between a test and the next outp
          Bytes        \* numbers of bytes, 0 .. n - 1, in the order of sending

(* With HIGHWATER next to LOWWATER, which dosuart.c:42 allows, one byte in   *)
(* a burst would take the count past the mark RTS falls at.                  *)
ASSUME UartAssumption ==
    /\ {RSize, TSize, LowWater, HighWater, Overshoot, Burst} \subseteq Nat
    /\ 0 < LowWater /\ LowWater + Burst < HighWater /\ HighWater + Overshoot < RSize
    /\ TSize > 1 /\ 0 \in Bytes /\ Bytes \subseteq Nat

VARIABLES ser,       \* receive ring [buf, head, tail, data]
          tser,      \* transmit ring
          pc, c,     \* where the main program is, and its register c
          after,     \* where checkdata returns to
          rts, ier,  \* modem control; transmit interrupt (0x0b or 0x09)
          chip,      \* 8250: [full, byte (receive), empty (transmit), msi]
          cts, late, burst,   \* the peer; bytes since RTS fell; since the test
          nextIn, nextOut, sent

mainVars == <<pc, c, after, nextOut>>
lineVars == <<cts, late, burst, nextIn, sent>>
vars == <<ser, tser, pc, c, after, rts, ier, chip, cts, late, burst, nextIn, nextOut, sent>>

(* head++ or tail++, back to 0 at the end of the buffer; several of them;   *)
(* and the n bytes a ring holds, from its tail on.                          *)
Inc(i, n) == IF i + 1 = n THEN 0 ELSE i + 1
Turn(i, n) == IF i < n THEN i ELSE i - n
Window(r, n, size) == [i \in 1 .. n |-> r.buf[Turn(r.tail + i - 1, size)]]

(* How many bytes there are, whatever step the count is behind by.          *)
InRing == ser.data - (IF pc = "taken" THEN 1 ELSE 0)
InTring == tser.data + (IF pc = "stored" THEN 1 ELSE 0)

M == INSTANCE SerialLine WITH RxRoom <- RSize - 1, TxRoom <- TSize - 1,
       rxq <- Window(ser, InRing, RSize), txq <- Window(tser, InTring, TSize),
       given <- c, line <- chip.byte, arg <- nextOut

Succ(b) == IF b + 1 \in Bytes THEN b + 1 ELSE 0
Ring(n) == [buf |-> [i \in 0 .. n - 1 |-> 0], head |-> 0, tail |-> 0, data |-> 0]
Rings(n) == [buf : [0 .. n - 1 -> Bytes], head : 0 .. n - 1, tail : 0 .. n - 1, data : 0 .. n - 1]

(* initializedev and serialon: 0x09 in the interrupt register, RTS raised.  *)
Init == /\ ser = Ring(RSize) /\ tser = Ring(TSize)
        /\ pc = "idle" /\ c = 0 /\ after = "idle"
        /\ rts = TRUE /\ ier = FALSE
        /\ chip = [full |-> FALSE, byte |-> 0, empty |-> TRUE, msi |-> FALSE]
        /\ cts = TRUE /\ late = 0 /\ burst = 0 /\ nextIn = 0 /\ nextOut = 0 /\ sent = 0

(* outp to the modem control register.                                      *)
SetRts(on) == rts' = on /\ late' = IF on \/ rts THEN 0 ELSE late

-----------------------------------------------------------------------------
(* The interrupt line.  The program goes on when serial_ISR has returned,    *)
(* which it does when nothing is pending any more (IIR & 7 is 1).            *)
Pending == chip.full \/ (ier /\ chip.empty) \/ chip.msi

(* The main program.                                                        *)
Go(here, there) == ~Pending /\ pc = here /\ pc' = there

(* slip: returns the count and leaves RTS alone, as check_out does *)
CheckdataPlain(from, to) ==
    /\ Go(from, IF to = "test" THEN IF ser.data = 0 THEN "get" ELSE "take" ELSE to)
    /\ UNCHANGED <<burst, after, ser, tser, c, nextOut, rts, ier, chip, cts, late, nextIn, sent>>
(* checkdata, first half: is the ring low enough to raise RTS?  The program *)
(* may be interrupted before it does.  infromdev waits until there is data. *)
Checkdata(from, to) ==
    /\ IF ser.data <= LowWater THEN Go(from, "raise") /\ after' = to
       ELSE Go(from, IF to = "test" THEN "take" ELSE to) /\ UNCHANGED after
    /\ UNCHANGED <<burst, ser, tser, c, nextOut, rts, ier, chip, cts, late, nextIn, sent>>

CheckdataRaise ==
    /\ Go("raise", IF after = "test" THEN IF ser.data = 0 THEN "get" ELSE "take" ELSE after)
    /\ SetRts(TRUE) /\ after' = "idle" /\ burst' = 0
    /\ UNCHANGED <<ser, tser, c, nextOut, ier, chip, cts, nextIn, sent>>

(* infromdev: wait, take the byte, then count it with interrupts off.       *)
InfromdevTake ==
    /\ Go("take", "taken")
    /\ c' = ser.buf[ser.tail] /\ ser' = [ser EXCEPT !.tail = Inc(@, RSize)]
    /\ UNCHANGED <<tser, nextOut, after, rts, ier, chip, lineVars>>
InfromdevCount ==
    /\ Go("taken", "check")
    /\ ser' = [ser EXCEPT !.data = @ - 1]
    /\ UNCHANGED <<tser, c, nextOut, after, rts, ier, chip, lineVars>>

(* slip: the byte is counted, and may be sent, before it is stored *)
OuttodevStoreLate ==
    /\ tser.data # TSize - 1 /\ \E from \in {"idle", "put"} : Go(from, "stored")
    /\ tser' = [tser EXCEPT !.head = Inc(@, TSize)] /\ nextOut' = Succ(nextOut)
    /\ UNCHANGED <<ser, c, after, rts, ier, chip, lineVars>>
(* outtodev: store the byte, count it with interrupts off, enable the       *)
(* transmit interrupt; while the ring is full, restart it if CTS is up.     *)
OuttodevStore ==
    /\ tser.data # TSize - 1 /\ \E from \in {"idle", "put"} : Go(from, "stored")
    /\ tser' = [tser EXCEPT !.buf[tser.head] = nextOut, !.head = Inc(@, TSize)]
    /\ nextOut' = Succ(nextOut)
    /\ UNCHANGED <<ser, c, after, rts, ier, chip, lineVars>>
OuttodevWait ==
    /\ tser.data = TSize - 1 /\ \E from \in {"idle", "put"} : Go(from, "put")
    /\ ier' = (ier \/ cts)
    /\ UNCHANGED <<ser, tser, c, after, nextOut, rts, chip, lineVars>>
OuttodevCount ==
    /\ Go("stored", "enable")
    /\ tser' = [tser EXCEPT !.data = @ + 1]
    /\ UNCHANGED <<ser, c, nextOut, after, rts, ier, chip, lineVars>>
(* slip: an interrupt that is on the way is thought to be enough *)
OuttodevEnableNever ==
    /\ Go("enable", "idle")
    /\ UNCHANGED <<ser, tser, c, nextOut, after, rts, ier, chip, lineVars>>
OuttodevEnable ==
    /\ Go("enable", "idle") /\ ier' = TRUE
    /\ UNCHANGED <<ser, tser, c, nextOut, after, rts, chip, lineVars>>

(* slip: the indices stay where they are *)
ZapbuffersCount ==
    /\ Go("idle", "idle") /\ ser.data > RSize - 2
    /\ ser' = [ser EXCEPT !.data = 0, !.head = 0] /\ SetRts(TRUE)
    /\ UNCHANGED <<tser, c, nextOut, after, ier, chip, cts, burst, nextIn, sent>>
(* zapbuffers: a full ring is thrown away, when slip is in the way of it.   *)
Zapbuffers ==
    /\ Go("idle", "idle") /\ ser.data > RSize - 2
    /\ ser' = [ser EXCEPT !.data = 0, !.head = 0, !.tail = 0] /\ SetRts(TRUE)
    /\ UNCHANGED <<tser, c, nextOut, after, ier, chip, cts, burst, nextIn, sent>>

Main == \/ Checkdata("idle", "idle") \/ Checkdata("idle", "test") \/ Checkdata("get", "test")
        \/ Checkdata("check", "idle") \/ CheckdataRaise \/ InfromdevTake \/ InfromdevCount
        \/ OuttodevStore \/ OuttodevWait \/ OuttodevCount \/ OuttodevEnable \/ Zapbuffers

-----------------------------------------------------------------------------
(* serial_ISR: each pass of its loop serves what the chip has pending,      *)
(* highest first.                                                           *)
(* case 0x04: store the byte or drop it; RTS falls at the high-water mark.  *)
IsrData ==
    /\ chip.full /\ chip' = [chip EXCEPT !.full = FALSE]
    /\ IF ser.data > RSize - 2 THEN UNCHANGED <<ser, rts, late>>
       ELSE /\ ser' = [ser EXCEPT !.buf[ser.head] = chip.byte, !.head = Inc(@, RSize), !.data = @ + 1]
            /\ IF ser'.data = HighWater THEN SetRts(FALSE) ELSE UNCHANGED <<rts, late>>
    /\ UNCHANGED <<tser, mainVars, ier, cts, burst, nextIn, sent>>

(* case 0x02: nothing to send, or CTS is low: no more of these interrupts.  *)
IsrStopSending ==
    /\ ~chip.full /\ ier /\ chip.empty /\ (tser.data = 0 \/ ~cts)
    /\ ier' = FALSE /\ chip' = [chip EXCEPT !.msi = @ /\ tser.data = 0]
    /\ UNCHANGED <<ser, tser, mainVars, rts, lineVars>>
IsrSend ==
    /\ ~chip.full /\ ier /\ chip.empty /\ tser.data # 0 /\ cts
    /\ chip' = [chip EXCEPT !.empty = FALSE, !.msi = FALSE]
    /\ sent' = tser.buf[tser.tail]
    /\ tser' = [tser EXCEPT !.tail = Inc(@, TSize), !.data = @ - 1]
    /\ UNCHANGED <<ser, mainVars, rts, ier, cts, late, burst, nextIn>>

(* case 0x00: CTS changed.                                                  *)
IsrModem ==
    /\ ~chip.full /\ ~(ier /\ chip.empty) /\ chip.msi
    /\ ier' = cts /\ chip' = [chip EXCEPT !.msi = FALSE]
    /\ UNCHANGED <<ser, tser, mainVars, rts, lineVars>>

Isr == IsrData \/ IsrStopSending \/ IsrSend \/ IsrModem

-----------------------------------------------------------------------------
(* The line.  The interrupt comes before the next byte or change does.      *)
LineIn ==
    /\ ~chip.full /\ (rts \/ late < Overshoot) /\ (pc = "raise" => burst < Burst)
    /\ chip' = [chip EXCEPT !.full = TRUE, !.byte = nextIn] /\ nextIn' = Succ(nextIn)
    /\ late' = (IF rts THEN 0 ELSE late + 1)
    /\ burst' = (IF pc = "raise" THEN burst + 1 ELSE 0)
    /\ UNCHANGED <<ser, tser, mainVars, rts, ier, cts, sent>>

LineOut == /\ ~chip.empty /\ chip' = [chip EXCEPT !.empty = TRUE]
           /\ UNCHANGED <<ser, tser, mainVars, rts, ier, lineVars>>

LineCts == /\ ~chip.msi /\ cts' = ~cts /\ chip' = [chip EXCEPT !.msi = TRUE]
           /\ UNCHANGED <<ser, tser, mainVars, rts, ier, late, burst, nextIn, sent>>

Next == Main \/ Isr \/ LineIn \/ LineOut \/ LineCts

Spec == Init /\ [][Next]_vars

(* The program goes on, polls for input whatever else it does, and is not   *)
(* interrupted for ever; a byte leaves the chip; CTS comes up and stays up  *)
(* long enough for the interrupt that uses it.                              *)
FairSpec == Spec /\ WF_vars(Main) /\ WF_vars(Isr) /\ WF_vars(LineOut) /\ WF_vars(~cts /\ LineCts)
                 /\ SF_vars(IsrSend) /\ SF_vars(Checkdata("idle", "idle"))
                 /\ SF_vars(Checkdata("idle", "test")) /\ SF_vars(Main /\ pc # "idle")
-----------------------------------------------------------------------------
TypeOK ==
    /\ ser \in Rings(RSize) /\ tser \in Rings(TSize)
    /\ chip \in [full : BOOLEAN, byte : Bytes, empty : BOOLEAN, msi : BOOLEAN]
    /\ pc \in {"idle", "raise", "get", "take", "taken", "check", "put", "stored", "enable"}
    /\ c \in Bytes /\ after \in {"idle", "test"} /\ {rts, ier, cts} \subseteq BOOLEAN
    /\ late \in 0 .. Overshoot /\ burst \in 0 .. Burst /\ {nextIn, nextOut, sent} \subseteq Bytes

(* Whatever step the program is interrupted in, each count is the distance  *)
(* between its two indices, but for the one byte that step is about.        *)
RingsAgree == /\ ser.head = Turn(ser.tail + InRing, RSize)
              /\ tser.head = Turn(tser.tail + InTring, TSize)

(* A peer that stops within Overshoot bytes of RTS never sends into a full  *)
(* ring, as the comment on HIGHWATER requires (dosuart.c:42), although RTS  *)
(* is raised on a count that is old by then.                                *)
NothingDropped == chip.full => ser.data <= RSize - 2

(* The rings stay sound and have room, wherever the interrupt comes.        *)
UartSound == TypeOK /\ RingsAgree /\ NothingDropped

(* Bytes go through both ways once and in order (dosuart.c:234, 252).       *)
ImplementsSerialLine == M!Spec

(* What was put into the transmit ring is sent, in whatever state of the    *)
(* transmit interrupt it was put there and however CTS moved meanwhile.     *)
TxDrains == []<>(tser.data = 0) \/ []<><<IsrSend>>_vars

(* A peer that was stopped is let go on again.                              *)
RtsReleased == ~rts ~> rts
=============================================================================
