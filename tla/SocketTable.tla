---------------------------- MODULE SocketTable ----------------------------
(***************************************************************************)
(* The table of sockets: slots handed out by findfreeslot, a bound socket  *)
(* and the queue of its listening children, accept, close, and             *)
(* nuke_tcp_socket, which gives a slot up or makes it listen again.        *)
(*                                                                         *)
(* The life of a connection is reduced to the steps that matter to the     *)
(* table (TcpSocket has the rest): any of them may come whenever the       *)
(* program is inside a call that runs schedulestuff, and every call does.  *)
(* Of a slot's buffers there is only whether the read buffer is a queue.   *)
(***************************************************************************)
EXTENDS Naturals, Sequences, FiniteSets, Netinet

CONSTANTS
  NSlot,      \* SOKALLOW - 1: usable slots
  MaxBacklog, \* BUFFERS / 2
  MaxHeld,    \* bound: descriptors the program has at once
  Datagrams,  \* TRUE: the program also opens UDP sockets
  MayFail     \* TRUE: MALLOC may fail

ASSUME TableAssumption ==
  /\ NSlot \in Nat \ {0} /\ MaxBacklog \in Nat \ {0} /\ MaxHeld \in Nat
  /\ Datagrams \in BOOLEAN /\ MayFail \in BOOLEAN

Slot == 1..NSlot

VARIABLES
  tab,   \* tab[s]: the slot's record and the arrays indexed by slot
  held,  \* held[s]: descriptors of slot s the program still has
  call,  \* the call the program is in
  up     \* the program has not been ended by exit(1)

vars == <<tab, held, call, up>>

\* st, par, pos: SOCKST, SPARET, SPARPO.  room, socks, queue: what
\* rdatapointers holds for a socket that listens, the places, how many of them
\* were filled, and who stands there; room is 0 if the buffer is no queue, or
\* gone.  left, wild: history.  left: this child's listener has forgotten it, by
\* listening again, by closing while the child was accepted, or because another
\* was put in its place; wild: its number was written to what is no queue.
Queue == [1..MaxBacklog -> 0..NSlot]
NoQueue == [i \in 1..MaxBacklog |-> 0]

Ops == {"none", "connect", "accept", "children", "kill", "self", "flush", "last"}
Idle == [op |-> "none", fd |-> 0, i |-> 0, kill |-> 0]

Init ==
  /\ tab = [s \in Slot |->
              [st |-> STATE_CLOSED, par |-> 0, pos |-> 0, room |-> 0, socks |-> 0,
               queue |-> NoQueue, left |-> FALSE, wild |-> FALSE]]
  /\ held = [s \in Slot |-> 0]
  /\ call = Idle
  /\ up = TRUE
-----------------------------------------------------------------------------
\* Buffers freed or allocated anew: no queue.
Buffers(r) == [r EXCEPT !.room = 0, !.socks = 0, !.queue = NoQueue]
Free(r) == [Buffers(r) EXCEPT !.st = STATE_CLOSED]

Child(t, p, i) == {c \in Slot : t[c].par = p /\ t[c].pos = i}
Children(t, p) == {c \in Slot : t[c].par = p}
Leave(t, cs) == [c \in Slot |-> IF c \in cs THEN [t[c] EXCEPT !.left = TRUE] ELSE t[c]]

\* Slip: the child's parent is not written down again.
NukeOrphan(t, s) ==
  IF t[s].par = 0 \/ t[t[s].par].st = STATE_CLOSED
    THEN [t EXCEPT ![s] = Free(@)]
    ELSE [t EXCEPT ![s].st = STATE_LISTEN, ![s].par = 0, ![t[s].par].queue[t[s].pos] = s]

\* nuke_tcp_socket: a slot without a parent, or whose parent is closed, is
\* closed; any other listens again and is written to its place in its parent's
\* buffer, whoever stands there, be it a queue with that place or not.
Nuke(t, s) ==
  LET p == t[s].par
      i == t[s].pos
  IN  IF p = 0 \/ t[p].st = STATE_CLOSED
        THEN [t EXCEPT ![s] = Free(@)]
      ELSE IF i <= t[p].room
        THEN Leave([t EXCEPT ![s].st = STATE_LISTEN, ![p].queue[i] = s],
                   Child(t, p, i) \cap ({t[p].queue[i]} \ {s}))
      ELSE [t EXCEPT ![s].st = STATE_LISTEN, ![s].wild = TRUE]

\* findfreeslot takes the lowest closed slot and clears its record, be it
\* a child that was reset and is yet to be collected or not.  (It passes over
\* one whose ring still holds bytes; rings are not in this module.)
FreeSlots == {s \in Slot : tab[s].st = STATE_CLOSED}
Rank(s) == Cardinality({r \in FreeSlots : r <= s})
Cleared(r) == [r EXCEPT !.st = STATE_NOTINIT, !.par = 0, !.pos = 0, !.left = FALSE, !.wild = FALSE]
-----------------------------------------------------------------------------
\* The program may make a call on descriptor s.
Ready(s) == up /\ call = Idle /\ held[s] > 0

AJK_socket ==
  \E s \in FreeSlots :
    /\ up /\ call = Idle /\ Rank(s) = 1
    /\ Cardinality({r \in Slot : held[r] > 0}) < MaxHeld /\ held[s] < 2
    /\ tab' = [tab EXCEPT ![s] = Cleared(@)]
    /\ held' = [held EXCEPT ![s] = @ + 1]
    /\ UNCHANGED <<call, up>>

\* sockconnect: two buffers, the first SYN, and a loop that ends when the
\* socket is connected or closed.  Without memory it returns at once.
AJK_connect(s) ==
  /\ Ready(s) /\ tab[s].st = STATE_NOTINIT
  /\ tab' = [tab EXCEPT ![s] = [Buffers(@) EXCEPT !.st = STATE_SYN_SENT]]
  /\ call' = [Idle EXCEPT !.op = "connect", !.fd = s]
  /\ UNCHANGED <<held, up>>

ConnectReturns ==
  /\ up /\ call.op = "connect"
  /\ tab[call.fd].st \in {STATE_CLOSED, STATE_ESTABLISHED}
  /\ call' = Idle
  /\ UNCHANGED <<tab, held, up>>

\* AJK_bind; a datagram socket gets its receive buffer here.
AJK_bind(s, udp) ==
  /\ Ready(s) /\ tab[s].st = STATE_NOTINIT
  /\ \/ udp /\ Datagrams /\ tab' = [tab EXCEPT ![s] = [Buffers(@) EXCEPT !.st = STATE_UDP]]
     \/ ~udp /\ tab' = [tab EXCEPT ![s].st = STATE_BIND]
  /\ UNCHANGED <<held, call, up>>

\* Listening on s with a queue of n places and k children: the k lowest closed
\* slots, each with a note of its parent and of its place in the queue.  With no
\* child there is no queue either.
Listening(t, s, n, k) ==
  [c \in Slot |->
     IF c = s /\ k = 0 THEN Buffers(t[s])
     ELSE IF c = s
       THEN [t[s] EXCEPT !.st = STATE_BOUND, !.room = n, !.socks = k,
               !.queue = [i \in 1..MaxBacklog |->
                            IF i <= k THEN CHOOSE r \in FreeSlots : Rank(r) = i ELSE 0]]
     ELSE IF c \in FreeSlots /\ Rank(c) <= k
       THEN [Buffers(Cleared(t[c])) EXCEPT !.st = STATE_LISTEN, !.par = s, !.pos = Rank(c)]
     ELSE t[c]]

\* AJK_listen: a new queue, and as many children as asked for, as there are
\* slots and as memory lasts.  The code asks only that s be in range.  Listening
\* on a connected, a reset or a datagram socket is not followed; listening on
\* one that listens already is: its old queue is lost, and all that stood in it.
AJK_listen(s, backlog) ==
  /\ Ready(s) /\ tab[s].st \in {STATE_NOTINIT, STATE_BIND, STATE_BOUND}
  /\ \E k \in 0..backlog :
       /\ k <= Cardinality(FreeSlots)
       /\ MayFail \/ k = backlog \/ k = Cardinality(FreeSlots)
       /\ tab' = Listening(Leave(tab, Children(tab, s)), s, backlog, k)
  /\ UNCHANGED <<held, call, up>>

\* After a second listen that failed, accept and close read a queue that is no
\* more.  What they do then is undefined, and not followed.
QueueGone(s) == tab[s].st = STATE_BOUND /\ tab[s].room = 0

\* AJK_accept looks at the queue's entries one by one, the stack running in
\* between.
AJK_accept(s) ==
  /\ Ready(s) /\ tab[s].st = STATE_BOUND
  /\ call' = [Idle EXCEPT !.op = "accept", !.fd = s]
  /\ up' = ~QueueGone(s)
  /\ UNCHANGED <<tab, held>>

Connected(c) == IF c = 0 THEN FALSE ELSE tab[c].st = STATE_ESTABLISHED

\* The next entry: a child that is connected is taken out and returned.
ScanNext ==
  LET s == call.fd
      c == IF call.i < tab[s].socks THEN tab[s].queue[call.i + 1] ELSE 0
  IN  /\ up /\ call.op = "accept"
      /\ \/ call.i = tab[s].socks /\ call' = Idle /\ UNCHANGED <<tab, held>>
         \/ /\ call.i < tab[s].socks
            /\ ~Connected(c)
            /\ call' = [call EXCEPT !.i = @ + 1]
            /\ UNCHANGED <<tab, held>>
         \/ /\ call.i < tab[s].socks
            /\ Connected(c) /\ held[c] < 2
            /\ tab' = [tab EXCEPT ![s].queue[call.i + 1] = 0]
            /\ held' = [held EXCEPT ![c] = @ + 1]
            /\ call' = Idle
      /\ UNCHANGED up
-----------------------------------------------------------------------------
\* AJK_sockclose: the children in a bound socket's queue are closed one by
\* one, then the socket itself.
AJK_sockclose(s) ==
  /\ Ready(s) /\ up' = ~QueueGone(s)
  /\ call' = [op |-> IF tab[s].st = STATE_BOUND THEN "children" ELSE "self",
              fd |-> s, i |-> 0, kill |-> s]
  /\ UNCHANGED <<tab, held>>

\* Slip: a child killed with its parent keeps its parent.
DisownNot(t, c) == t

\* The parent flag is removed.
Disown(t, c) == [t EXCEPT ![c].par = 0]

\* The next place's turn; that of an accepted child holds 0, and the child is
\* passed over.
NextChild ==
  /\ up /\ call.op = "children"
  /\ IF call.i < tab[call.fd].socks
       THEN LET c == tab[call.fd].queue[call.i + 1]
                t == Leave(tab, Child(tab, call.fd, call.i + 1) \ {c}) IN
            /\ call' = [call EXCEPT !.i = @ + 1, !.kill = c,
                                    !.op = IF c = 0 THEN "children" ELSE "kill"]
            /\ tab' = IF c = 0 THEN t ELSE Disown(t, c)
       ELSE call' = [call EXCEPT !.kill = call.fd, !.op = "self"] /\ UNCHANGED tab
  /\ UNCHANGED <<held, up>>

\* sockAclose is done with the slot; a child loses its parent once more.
Closed(t) ==
  IF call.kill = call.fd
    THEN /\ tab' = t
         /\ held' = [held EXCEPT ![call.fd] = @ - 1]
         /\ call' = Idle
    ELSE /\ tab' = Disown(t, call.kill)
         /\ call' = [call EXCEPT !.op = "children"]
         /\ UNCHANGED held

\* sockAclose: a slot that is not connected is nuked at once, with its children
\* left behind if it was found in another's queue.
SockAclose ==
  /\ up /\ call.op \in {"kill", "self"}
  /\ tab[call.kill].st < STATE_ESTABLISHED
  /\ Closed(Nuke(Leave(tab, IF call.op = "kill" THEN Children(tab, call.kill) ELSE {}),
                 call.kill))
  /\ UNCHANGED up

\* One that is connected is flushed first, while anything may happen to it.
FlushSocket ==
  /\ up /\ call.op \in {"kill", "self"}
  /\ tab[call.kill].st >= STATE_ESTABLISHED
  /\ call' = [call EXCEPT !.op = "flush"]
  /\ UNCHANGED <<tab, held, up>>

\* Then the FIN is sent, whatever the slot is now; one that listens again
\* has no peer address, and the program ends.
SendFin ==
  /\ up /\ call.op = "flush"
  /\ tab' = [tab EXCEPT ![call.kill].st = STATE_LAST_ACK]
  /\ up' = (tab[call.kill].st # STATE_LISTEN)
  /\ call' = [call EXCEPT !.op = "last"]
  /\ UNCHANGED held

\* And the slot is nuked.
Nukeit ==
  /\ up /\ call.op = "last"
  /\ Closed(Nuke(tab, call.kill))
  /\ UNCHANGED up
-----------------------------------------------------------------------------
\* What the stack does to slot s in some schedulestuff.  AJK_sockclose runs none
\* but where it waits for a socket that is connected.
Polls == up /\ call.op \notin {"children", "kill", "self"}
Stack(t) == Polls /\ tab' = t /\ UNCHANGED <<held, call, up>>

\* How a segment moves a connection on.
Moves ==
  {<<STATE_LISTEN, STATE_SYN_RECEIVED>>,       <<STATE_SYN_SENT, STATE_ESTABLISHED>>,
   <<STATE_SYN_SENT, STATE_SYN_RECEIVED>>, <<STATE_SYN_RECEIVED, STATE_ESTABLISHED>>,
   <<STATE_ESTABLISHED, STATE_CLOSING>>,   <<STATE_CLOSING, STATE_TIME_WAIT>>}

Segment(s) ==
  \E m \in Moves : tab[s].st = m[1] /\ Stack([tab EXCEPT ![s].st = m[2]])

\* The last segment of a connection.
LastSegment(s) ==
  tab[s].st \in {STATE_LAST_ACK, STATE_TIME_WAIT} /\ Stack(Nuke(tab, s))

\* A reset closes the slot, a datagram socket's too, but frees nothing.
Reset(s) ==
  /\ tab[s].st > STATE_NOTINIT
  /\ Stack([tab EXCEPT ![s].st = STATE_CLOSED])

\* check_sockets: a timer expires once too often, and the socket is given up.
Expire(s) == tab[s].st > STATE_UDP /\ Stack(Nuke(tab, s))

\* check_sockets: a closed slot that has a parent is collected.
Collect(s) ==
  /\ tab[s].st = STATE_CLOSED /\ tab[s].par # 0
  /\ Stack(Nuke(tab, s))

\* The program has ended.
Ended == ~up /\ UNCHANGED vars

Next ==
  \/ AJK_socket \/ ConnectReturns \/ ScanNext \/ Ended
  \/ NextChild \/ SockAclose \/ FlushSocket \/ SendFin \/ Nukeit
  \/ \E s \in Slot :
       \/ AJK_connect(s) \/ AJK_bind(s, FALSE) \/ AJK_bind(s, TRUE)
       \/ AJK_accept(s) \/ AJK_sockclose(s)
       \/ \E backlog \in 1..MaxBacklog : AJK_listen(s, backlog)
       \/ Segment(s) \/ LastSegment(s) \/ Reset(s) \/ Expire(s) \/ Collect(s)

Spec == Init /\ [][Next]_vars
-----------------------------------------------------------------------------
\* The types of the variables.
TypeOK ==
  /\ tab \in [Slot -> [st : States, par : 0..NSlot, pos : 0..MaxBacklog,
                       room : 0..MaxBacklog, socks : 0..MaxBacklog, queue : Queue,
                       left : BOOLEAN, wild : BOOLEAN]]
  /\ held \in [Slot -> 0..2]
  /\ call \in [op : Ops, fd : 0..NSlot, i : 0..MaxBacklog, kill : 0..NSlot]
  /\ up \in BOOLEAN

InPlace(c) == tab[tab[c].par].queue[tab[c].pos] = c

\* A child that was not left behind has a listener with a queue and a place of
\* its own in it; it stands there, or a program holds it.
ChildrenKnown ==
  \A c \in Slot : tab[c].par # 0 /\ ~tab[c].left =>
    /\ tab[tab[c].par].st = STATE_BOUND
    /\ tab[c].pos \in 1..tab[tab[c].par].socks
    /\ InPlace(c) \/ held[c] > 0
    /\ \A d \in Child(tab, tab[c].par, tab[c].pos) : d = c \/ tab[d].left

\* A slot that answers SYNs can be reached by accept: it is in the queue of
\* a bound parent, or about to be closed with it.
ListenersQueued ==
  \A c \in Slot : tab[c].st = STATE_LISTEN /\ ~tab[c].left =>
    call.kill = c \/ (tab[c].par # 0 /\ InPlace(c))

\* The table: well typed, and queue, children and parents agree, however often
\* a socket is listened on, in whatever order sockets are closed and whenever
\* slots are handed out (socket.c:768, tcp.c:68-75).
TableSound == TypeOK /\ ChildrenKnown /\ ListenersQueued

\* Only a child that was left behind can write its number into a freed buffer,
\* past the end of a queue or into the ring of a socket that has its parent's
\* slot now (tcp.c:70-71).
NoWildWrite == \A s \in Slot : tab[s].wild => tab[s].left

\* accept returns a connection of its listener's (socket.c:899).  Neither this
\* nor the next holds (README, section 5), and no run checks them.
AcceptsOwn ==
  [][\A c \in Slot : call.op = "accept" /\ held'[c] > held[c] => tab[c].par = call.fd]_vars

\* With a listener all its children are closed (socket.c:597-598): none goes on
\* listening.
NoneLeftListening ==
  \A c \in Slot : tab[c].st = STATE_LISTEN =>
    call.kill = c \/ (tab[c].par # 0 /\ tab[tab[c].par].st = STATE_BOUND)
=============================================================================
