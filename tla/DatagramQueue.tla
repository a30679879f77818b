---------------------------- MODULE DatagramQueue ----------------------------
(* What a datagram socket keeps for its reader: datagrams come out whole,     *)
(* once each and in the order in which they were put in, and at most Capacity *)
(* bytes wait.  Only a fresh one can be asked in vain: a reader that asks an  *)
(* empty queue again, after it has taken something, spoils it until it is     *)
(* renewed.                                                                   *)
EXTENDS Integers, Sequences, FiniteSetsExt

CONSTANTS Capacity,
          Extra      \* bytes each datagram takes up beside its own
VARIABLES waiting,   \* lengths of the datagrams that wait
          bytes,     \* that they take up
          taken,     \* bytes the last read gave, -1 if there was nothing
          used,      \* something has been taken
          spoilt     \* an empty queue was asked although it was used

vars == <<waiting, bytes, taken, used, spoilt>>

Fresh == waiting = <<>> /\ bytes = 0 /\ taken = -1 /\ ~used /\ ~spoilt

Init == Fresh

Put(n) == /\ ~spoilt
          /\ bytes' = bytes + Extra + n /\ bytes' <= Capacity
          /\ waiting' = Append(waiting, n) /\ UNCHANGED <<taken, used, spoilt>>

(* A reader's buffer of n bytes may cut a datagram short; the rest is gone.   *)
Take(n) == /\ ~spoilt /\ waiting # <<>>
           /\ waiting' = Tail(waiting) /\ bytes' = bytes - Extra - Head(waiting)
           /\ taken' = Min({n, Head(waiting)})
           /\ used' = TRUE /\ UNCHANGED spoilt

TakeNothing == /\ ~spoilt /\ waiting = <<>> /\ ~used
               /\ taken' = -1 /\ UNCHANGED <<waiting, bytes, used, spoilt>>

Spoil == /\ ~spoilt /\ waiting = <<>> /\ used
         /\ spoilt' = TRUE /\ taken' \in Nat
         /\ waiting' = <<>> /\ bytes' = 0 /\ used' = FALSE

Renew == Fresh'

Next == (\E n \in 0 .. Capacity : Put(n)) \/ (\E n \in 0 .. Capacity : Take(n))
        \/ TakeNothing \/ Spoil \/ Renew

Spec == Init /\ [][Next]_vars
=============================================================================
