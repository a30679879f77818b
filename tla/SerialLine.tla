------------------------------ MODULE SerialLine ------------------------------
(* What a serial driver promises the program: two queues between program and  *)
(* line, each first in first out, nothing taken twice, nothing made up.  Only *)
(* a full receive queue may be thrown away, and then all of it.               *)
EXTENDS Integers, Sequences

CONSTANTS Bytes, RxRoom, TxRoom
VARIABLES rxq, txq,  \* received and not read, written and not sent
          line,      \* the byte the line brings
          arg,       \* the byte the program will write
          given,     \* the byte the program read last
          sent       \* the byte that was put on the line last

vars == <<rxq, txq, line, arg, given, sent>>

Init == /\ rxq = <<>> /\ txq = <<>>
        /\ {line, arg, given, sent} \subseteq Bytes

Arrive == line' \in Bytes /\ UNCHANGED <<rxq, txq, arg, given, sent>>
Receive == /\ Len(rxq) < RxRoom /\ rxq' = Append(rxq, line)
           /\ UNCHANGED <<txq, line, arg, given, sent>>
Read == /\ rxq # <<>> /\ given' = Head(rxq) /\ rxq' = Tail(rxq)
        /\ UNCHANGED <<txq, line, arg, sent>>
Zap == Len(rxq) = RxRoom /\ rxq' = <<>> /\ UNCHANGED <<txq, line, arg, given, sent>>
Write == /\ Len(txq) < TxRoom /\ txq' = Append(txq, arg) /\ arg' \in Bytes
         /\ UNCHANGED <<rxq, line, given, sent>>
Send == /\ txq # <<>> /\ sent' = Head(txq) /\ txq' = Tail(txq)
        /\ UNCHANGED <<rxq, line, arg, given>>

Next == Arrive \/ Receive \/ Read \/ Zap \/ Write \/ Send

Spec == Init /\ [][Next]_vars
=============================================================================
