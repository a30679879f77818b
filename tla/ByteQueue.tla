----------------------------- MODULE ByteQueue -----------------------------
(***************************************************************************)
(* What the receive side of a connected socket promises its application:   *)
(* the bytes of the peer's stream come out once each, in order, and at     *)
(* most Capacity of them are ever held back.  Byte k of the stream is      *)
(* represented by its position k.                                          *)
(***************************************************************************)
EXTENDS Naturals, Sequences

CONSTANT Capacity   \* how many unread bytes can be held

VARIABLES
  queue,            \* the unread bytes, oldest first
  next,             \* position in the stream of the next byte to accept
  out               \* what the latest read returned

vars == <<queue, next, out>>

Init ==
  /\ queue = << >>
  /\ next = 0
  /\ out = << >>

\* The n bytes of the stream that start at position k.
Run(k, n) == [j \in 1..n |-> k + j - 1]

\* Bytes are taken from the network: always the next ones, never more than fit.
Accept ==
  \E n \in 1..(Capacity - Len(queue)) :
    /\ queue' = queue \o Run(next, n)
    /\ next' = next + n
    /\ UNCHANGED out

\* The application reads some of the oldest bytes.
Read ==
  \E n \in 0..Len(queue) :
    /\ out' = SubSeq(queue, 1, n)
    /\ queue' = SubSeq(queue, n + 1, Len(queue))
    /\ UNCHANGED next

Next == Accept \/ Read

Spec == Init /\ [][Next]_vars
=============================================================================
