------------------------- MODULE SocketTable_proofs -------------------------
(***************************************************************************)
(* Proofs about the table of sockets, for any number of slots and any      *)
(* backlog, whatever the program does and when: queue, children and        *)
(* parents agree, and only a child that was left behind writes wild.       *)
(***************************************************************************)
EXTENDS SocketTable, FiniteSetTheorems, TLAPS

USE DEF STATE_CLOSED, STATE_BIND, STATE_BOUND, STATE_LISTEN, STATE_NOTINIT, STATE_UDP,
        STATE_SYN_SENT, STATE_SYN_RECEIVED, STATE_ESTABLISHED, STATE_CLOSEWAIT, STATE_CLOSING,
        STATE_FINWAIT1, STATE_FINWAIT2, STATE_LAST_ACK, STATE_PEER_RESET, STATE_TIME_WAIT

Records == [st : States, par : 0..NSlot, pos : 0..MaxBacklog,
            room : 0..MaxBacklog, socks : 0..MaxBacklog, queue : Queue,
            left : BOOLEAN, wild : BOOLEAN]
Calls == [op : Ops, fd : 0..NSlot, i : 0..MaxBacklog, kill : 0..NSlot]
Closes == {"children", "kill", "self", "flush", "last"}

LEMMA Numbers ==
  NSlot \in Nat \ {0} /\ MaxBacklog \in Nat \ {0} /\ Slot = 1 .. NSlot
BY TableAssumption DEF Slot

LEMMA Fields ==
  ASSUME NEW t \in [Slot -> Records], NEW s \in Slot
  PROVE  /\ t[s] \in Records /\ t[s].st \in States /\ t[s].par \in 0 .. NSlot
         /\ t[s].par # 0 => t[s].par \in Slot
         /\ t[s].pos \in 0 .. MaxBacklog /\ t[s].socks \in 0 .. MaxBacklog
         /\ t[s].room \in 0 .. MaxBacklog
         /\ t[s].queue \in Queue /\ t[s].left \in BOOLEAN /\ t[s].wild \in BOOLEAN
<1>1. t[s] \in Records OBVIOUS
<1> QED BY <1>1, Numbers DEF Records

(* A place of a queue is written to.                                        *)
LEMMA Written ==
  ASSUME NEW f \in Queue, NEW j, NEW x \in 0 .. NSlot
  PROVE  LET q == [f EXCEPT ![j] = x]
         IN  /\ q \in Queue
             /\ j \in 1 .. MaxBacklog => q[j] = x
             /\ \A i \in 1 .. MaxBacklog : i # j => q[i] = f[i]
BY DEF Queue

(* One slot's record is changed.                                            *)
LEMMA Put ==
  ASSUME NEW t \in [Slot -> Records], NEW s \in Slot, NEW r \in Records
  PROVE  LET u == [t EXCEPT ![s] = r]
         IN  u \in [Slot -> Records] /\ u[s] = r /\ \A x \in Slot \ {s} : u[x] = t[x]
OBVIOUS

(* The changes the code makes to a record.                                  *)
LEMMA StateSet ==
  ASSUME NEW r \in Records, NEW v \in States
  PROVE  LET n == [r EXCEPT !.st = v]
         IN  /\ n \in Records /\ n.st = v /\ n.par = r.par /\ n.pos = r.pos
             /\ n.room = r.room /\ n.socks = r.socks /\ n.queue = r.queue
             /\ n.left = r.left /\ n.wild = r.wild
BY DEF Records

LEMMA QueueSet ==
  ASSUME NEW r \in Records, NEW q \in Queue
  PROVE  LET n == [r EXCEPT !.queue = q]
         IN  /\ n \in Records /\ n.st = r.st /\ n.par = r.par /\ n.pos = r.pos
             /\ n.room = r.room /\ n.socks = r.socks /\ n.queue = q
             /\ n.left = r.left /\ n.wild = r.wild
BY DEF Records

LEMMA Forgotten ==
  ASSUME NEW r \in Records
  PROVE  LET n == [r EXCEPT !.left = TRUE]
         IN  /\ n \in Records /\ n.st = r.st /\ n.par = r.par /\ n.pos = r.pos
             /\ n.room = r.room /\ n.socks = r.socks /\ n.queue = r.queue
             /\ n.left = TRUE /\ n.wild = r.wild
BY DEF Records

LEMMA Orphaned ==
  ASSUME NEW r \in Records
  PROVE  LET n == [r EXCEPT !.par = 0]
         IN  /\ n \in Records /\ n.st = r.st /\ n.par = 0 /\ n.pos = r.pos
             /\ n.room = r.room /\ n.socks = r.socks /\ n.queue = r.queue
             /\ n.left = r.left /\ n.wild = r.wild
BY Numbers DEF Records

LEMMA BuffersGone ==
  ASSUME NEW r \in Records
  PROVE  LET n == Buffers(r)
         IN  /\ n \in Records /\ n.st = r.st /\ n.par = r.par /\ n.pos = r.pos
             /\ n.room = 0 /\ n.socks = 0 /\ n.left = r.left /\ n.wild = r.wild
<1>1. NoQueue \in Queue BY Numbers DEF NoQueue, Queue
<1>2. 0 \in 0 .. MaxBacklog BY Numbers
<1> QED BY <1>1, <1>2 DEF Records, Buffers

LEMMA RecordCleared ==
  ASSUME NEW r \in Records
  PROVE  LET n == Cleared(r)
         IN  /\ n \in Records /\ n.st = STATE_NOTINIT /\ n.par = 0 /\ n.pos = 0
             /\ n.room = r.room /\ n.socks = r.socks /\ ~n.left /\ ~n.wild
<1>1. STATE_NOTINIT \in States BY DEF States
<1>2. 0 \in 0 .. NSlot /\ 0 \in 0 .. MaxBacklog BY Numbers
<1> QED BY <1>1, <1>2 DEF Records, Cleared

-----------------------------------------------------------------------------
(* The inductive invariant, of a table t, the descriptors h and a call c.   *)
Typed(t, h, c) ==
  /\ t \in [Slot -> Records] /\ h \in [Slot -> 0..2] /\ c \in Calls
  /\ \A s \in Slot : /\ t[s].par # s /\ t[s].socks <= t[s].room
                     /\ t[s].wild => t[s].left

(* A child its listener still knows.                                        *)
Known(t, s) == t[s].par # 0 /\ ~t[s].left
Stands(t, s) == t[t[s].par].queue[t[s].pos] = s

(* ChildrenKnown of the module: its listener is bound and has a place for   *)
(* it, for it alone; it stands there, or the program holds it.              *)
Kept(t, h) ==
  \A s \in Slot : Known(t, s) =>
    /\ t[t[s].par].st = STATE_BOUND
    /\ t[s].pos \in 1 .. t[t[s].par].socks
    /\ Stands(t, s) \/ h[s] > 0
    /\ \A d \in Slot : t[d].par = t[s].par /\ t[d].pos = t[s].pos => d = s \/ t[d].left

(* What listens is in its place, or a child being closed with its parent.   *)
Listeners(t, c) ==
  \A s \in Slot : t[s].st = STATE_LISTEN /\ ~t[s].left =>
    \/ c.op \in {"kill", "flush", "last"} /\ c.kill = s
    \/ t[s].par # 0 /\ Stands(t, s)

(* What a call knows of its descriptor, and of the slot it is closing: a    *)
(* bound socket parts with its children one by one.                         *)
Callers(t, h, c) ==
  /\ c.op # "none" => c.fd \in Slot
  /\ c.op \in Closes => h[c.fd] > 0
  /\ c.op \in Closes \ {"children"} => c.kill \in Slot
  /\ c.op = "self" => c.kill = c.fd
  /\ c.op \in {"flush", "last"} => t[c.kill].st # STATE_BOUND
  /\ c.op \in {"kill", "flush", "last"} /\ c.kill # c.fd => t[c.kill].par = 0
  /\ c.op \in Closes => \A s \in Slot :
       Known(t, s) /\ t[s].par = c.fd => c.op # "self" /\ t[s].pos > c.i

Sound(t, h, c) == Typed(t, h, c) /\ Kept(t, h) /\ Listeners(t, c) /\ Callers(t, h, c)

IInv == Sound(tab, held, call) /\ up \in BOOLEAN

LEMMA InitIInv == Init => IInv
<1> SUFFICES ASSUME Init PROVE IInv OBVIOUS
<1>1. NoQueue \in Queue BY Numbers DEF NoQueue, Queue
<1>2. 0 \in 0 .. NSlot /\ 0 \in 0 .. MaxBacklog /\ STATE_CLOSED \in States BY Numbers DEF States
<1>3. tab \in [Slot -> Records] BY <1>1, <1>2 DEF Init, Records
<1>4. held \in [Slot -> 0..2] BY DEF Init
<1>5. call \in Calls BY <1>2 DEF Init, Calls, Idle, Ops
<1>6. \A s \in Slot : /\ tab[s].par = 0 /\ tab[s].socks = 0 /\ tab[s].room = 0
                      /\ ~tab[s].wild /\ tab[s].st = STATE_CLOSED
  BY DEF Init
<1>7. call.op = "none" BY DEF Init, Idle
<1>8. Typed(tab, held, call) BY <1>3, <1>4, <1>5, <1>6, Numbers DEF Typed
<1>9. Kept(tab, held) /\ Listeners(tab, call) BY <1>6 DEF Kept, Known, Listeners
<1>10. Callers(tab, held, call) BY <1>7 DEF Callers, Closes
<1> QED BY <1>8, <1>9, <1>10 DEF IInv, Sound, Init

-----------------------------------------------------------------------------
(* A slot without known children, which does not come to be bound or to     *)
(* listen, may change as it likes, as long as it stays its parent's child.  *)
LEMMA Touch ==
  ASSUME NEW t, NEW h, NEW c, Sound(t, h, c), NEW s \in Slot, NEW r \in Records,
         t[s].st = STATE_BOUND => \A x \in Slot : Known(t, x) => t[x].par # s,
         r.st # STATE_BOUND, r.st = STATE_LISTEN => r.left,
         r.par = 0 \/ (r.par = t[s].par /\ r.pos = t[s].pos /\ r.left = t[s].left),
         r.wild => r.left, r.socks <= r.room
  PROVE  Sound([t EXCEPT ![s] = r], h, c)
<1> USE Numbers
<1> DEFINE u == [t EXCEPT ![s] = r]
<1>t. t \in [Slot -> Records] BY DEF Sound, Typed
<1>1. u \in [Slot -> Records] /\ u[s] = r /\ \A x \in Slot \ {s} : u[x] = t[x] BY <1>t, Put
<1> HIDE DEF u
<1>2. Typed(u, h, c) BY <1>1 DEF Sound, Typed
<1>3. ASSUME NEW x \in Slot, Known(u, x)
      PROVE  /\ Known(t, x) /\ u[x].par = t[x].par /\ u[x].pos = t[x].pos
             /\ t[x].par \in Slot /\ u[t[x].par] = t[t[x].par] /\ t[t[x].par].st = STATE_BOUND
  <2>1. Known(t, x) /\ u[x].par = t[x].par /\ u[x].pos = t[x].pos BY <1>1, <1>3 DEF Known
  <2>2. t[x].par \in Slot BY <1>t, <2>1, Fields DEF Known
  <2>3. t[t[x].par].st = STATE_BOUND BY <2>1 DEF Sound, Kept
  <2>4. t[x].par # s BY <2>1, <2>3
  <2> QED BY <1>1, <2>1, <2>2, <2>3, <2>4
<1>4. \A x \in Slot : u[x].par # 0 =>
        u[x].par = t[x].par /\ u[x].pos = t[x].pos /\ u[x].left = t[x].left
  BY <1>1
<1>5. Kept(u, h)
  <2> SUFFICES ASSUME NEW x \in Slot, Known(u, x)
               PROVE  /\ u[u[x].par].st = STATE_BOUND
                      /\ u[x].pos \in 1 .. u[u[x].par].socks
                      /\ Stands(u, x) \/ h[x] > 0
                      /\ \A d \in Slot : u[d].par = u[x].par /\ u[d].pos = u[x].pos => d = x \/ u[d].left
    BY DEF Kept
  <2>1. /\ Known(t, x) /\ u[x].par = t[x].par /\ u[x].pos = t[x].pos /\ u[x].par # 0
        /\ t[x].par \in Slot /\ u[t[x].par] = t[t[x].par]
    BY <1>3 DEF Known
  <2>2. /\ t[t[x].par].st = STATE_BOUND
        /\ t[x].pos \in 1 .. t[t[x].par].socks
        /\ Stands(t, x) \/ h[x] > 0
        /\ \A d \in Slot : t[d].par = t[x].par /\ t[d].pos = t[x].pos => d = x \/ t[d].left
    BY <2>1 DEF Sound, Kept
  <2>3. \A d \in Slot : u[d].par = u[x].par /\ u[d].pos = u[x].pos => d = x \/ u[d].left
    BY <1>4, <2>1, <2>2
  <2> QED BY <2>1, <2>2, <2>3 DEF Stands
<1>6. Listeners(u, c)
  <2> SUFFICES ASSUME NEW x \in Slot, u[x].st = STATE_LISTEN, ~u[x].left,
                      ~(c.op \in {"kill", "flush", "last"} /\ c.kill = x)
               PROVE  u[x].par # 0 /\ Stands(u, x)
    BY DEF Listeners
  <2>1. x # s /\ u[x] = t[x] BY <1>1
  <2>2. t[x].par # 0 /\ Stands(t, x) BY <2>1 DEF Sound, Listeners
  <2>3. Known(u, x) BY <2>1, <2>2 DEF Known
  <2> QED BY <1>3, <2>1, <2>2, <2>3 DEF Stands
<1>7. Callers(u, h, c)
  <2>1. Callers(t, h, c) BY DEF Sound
  <2>2. ASSUME c.op \in {"flush", "last"} PROVE u[c.kill].st # STATE_BOUND
    BY <1>1, <2>1, <2>2 DEF Callers, Closes
  <2>3. ASSUME c.op \in {"kill", "flush", "last"}, c.kill # c.fd PROVE u[c.kill].par = 0
    <3>1. c.kill \in Slot /\ t[c.kill].par = 0 BY <2>1, <2>3 DEF Callers, Closes
    <3> QED BY <3>1, <1>1
  <2>4. ASSUME NEW x \in Slot, c.op \in Closes, Known(u, x), u[x].par = c.fd
        PROVE  c.op # "self" /\ u[x].pos > c.i
    BY <1>3, <2>1, <2>4 DEF Callers
  <2> QED BY <2>1, <2>2, <2>3, <2>4 DEF Callers
<1> QED BY <1>2, <1>5, <1>6, <1>7 DEF Sound, u

(* Children are left behind.                                                *)
LEMMA LeaveThem ==
  ASSUME NEW t, NEW h, NEW c, Sound(t, h, c), NEW D
  PROVE  /\ Sound(Leave(t, D), h, c)
         /\ \A x \in Slot :
              LET v == Leave(t, D)[x]
              IN  /\ v.st = t[x].st /\ v.par = t[x].par /\ v.pos = t[x].pos
                  /\ v.room = t[x].room /\ v.socks = t[x].socks /\ v.queue = t[x].queue
                  /\ v.wild = t[x].wild
                  /\ v.left <=> (x \in D \/ t[x].left)
<1> DEFINE u == Leave(t, D)
<1>t. t \in [Slot -> Records] BY DEF Sound, Typed
<1>1. \A x \in Slot : u[x] = IF x \in D THEN [t[x] EXCEPT !.left = TRUE] ELSE t[x]
  BY DEF Leave
<1>2. \A x \in Slot : u[x] \in Records
  <2>1. \A x \in Slot : t[x] \in Records BY <1>t
  <2> SUFFICES ASSUME NEW x \in Slot PROVE u[x] \in Records OBVIOUS
  <2>2. [t[x] EXCEPT !.left = TRUE] \in Records BY <2>1, Forgotten
  <2> QED BY <1>1, <2>1, <2>2
<1>3. u \in [Slot -> Records] BY <1>2 DEF Leave
<1> HIDE DEF u
<1>4. ASSUME NEW x \in Slot
      PROVE  /\ u[x].st = t[x].st /\ u[x].par = t[x].par /\ u[x].pos = t[x].pos
             /\ u[x].room = t[x].room /\ u[x].socks = t[x].socks /\ u[x].queue = t[x].queue
             /\ u[x].wild = t[x].wild
             /\ u[x].left <=> (x \in D \/ t[x].left)
  <2>1. t[x] \in Records BY <1>t
  <2> DEFINE n == [t[x] EXCEPT !.left = TRUE]
  <2>2. /\ n.st = t[x].st /\ n.par = t[x].par /\ n.pos = t[x].pos
        /\ n.room = t[x].room /\ n.socks = t[x].socks /\ n.queue = t[x].queue
        /\ n.left = TRUE /\ n.wild = t[x].wild
    BY <2>1, Forgotten
  <2>3. u[x] = IF x \in D THEN n ELSE t[x] BY <1>1
  <2>4. t[x].left \in BOOLEAN BY <1>t, Fields
  <2> HIDE DEF n
  <2> QED BY <2>2, <2>3, <2>4
<1>5. Typed(u, h, c) BY <1>3, <1>4 DEF Sound, Typed
<1>6. ASSUME NEW x \in Slot, u[x].par # 0 PROVE u[x].par \in Slot BY <1>3, <1>6, Fields
<1>7. ASSUME NEW x \in Slot PROVE Known(u, x) => Known(t, x) BY <1>4 DEF Known
<1>8. ASSUME NEW x \in Slot, t[x].par # 0 PROVE Stands(u, x) <=> Stands(t, x)
  BY <1>4, <1>6, <1>8 DEF Stands
<1>9. Kept(u, h)
  <2> SUFFICES ASSUME NEW x \in Slot, Known(u, x)
               PROVE  /\ u[u[x].par].st = STATE_BOUND
                      /\ u[x].pos \in 1 .. u[u[x].par].socks
                      /\ Stands(u, x) \/ h[x] > 0
                      /\ \A d \in Slot : u[d].par = u[x].par /\ u[d].pos = u[x].pos => d = x \/ u[d].left
    BY DEF Kept
  <2>1. Known(t, x) /\ t[x].par # 0 /\ t[x].par \in Slot BY <1>4, <1>6, <1>7 DEF Known
  <2> QED BY <2>1, <1>4, <1>8 DEF Sound, Kept
<1>10. Listeners(u, c) BY <1>4, <1>8 DEF Sound, Listeners
<1>11. Callers(u, h, c) BY <1>4, <1>7 DEF Sound, Callers, Closes
<1> QED BY <1>4, <1>5, <1>9, <1>10, <1>11 DEF Sound, u

(* A child goes back to its place and listens; whoever stood there is left  *)
(* behind.                                                                  *)
LEMMA NukeChild ==
  ASSUME NEW t, NEW h, NEW c, Sound(t, h, c), NEW s \in Slot, t[s].par # 0,
         t[t[s].par].st # STATE_CLOSED,
         t[s].st = STATE_BOUND => \A x \in Slot : Known(t, x) => t[x].par # s,
         t[s].pos <= t[t[s].par].room
  PROVE  LET u == Nuke(t, s)
         IN  /\ Sound(u, h, c)
             /\ u[s].par = t[s].par /\ u[s].st = STATE_LISTEN
             /\ ~u[s].left => Stands(u, s)
<1> USE Numbers
<1> DEFINE p == t[s].par
           i == t[s].pos
           q == [t[p].queue EXCEPT ![i] = s]
           a == [t[s] EXCEPT !.st = STATE_LISTEN]
           b == [t[p] EXCEPT !.queue = q]
           v == [t EXCEPT ![s] = a, ![p] = b]
           D == Child(t, p, i) \cap ({t[p].queue[i]} \ {s})
           u == Nuke(t, s)
<1>t. t \in [Slot -> Records] BY DEF Sound, Typed
<1>1. /\ p \in Slot /\ p # s /\ p # 0 /\ i \in 0 .. MaxBacklog
      /\ t[p] \in Records /\ t[s] \in Records /\ t[p].queue \in Queue
  BY <1>t, Fields DEF Sound, Typed
<1>2. u = Leave(v, D)
  <2>1. [t EXCEPT ![s].st = STATE_LISTEN, ![p].queue[i] = s] = v BY <1>t, <1>1
  <2>2. u = Leave([t EXCEPT ![s].st = STATE_LISTEN, ![p].queue[i] = s], D) BY DEF Nuke
  <2> QED BY <2>1, <2>2
<1>3. q \in Queue /\ (i # 0 => q[i] = s) /\ \A j \in 1 .. MaxBacklog : j # i => q[j] = t[p].queue[j]
  <2> DEFINE f == t[p].queue
  <2>1. f \in Queue /\ s \in 0 .. NSlot BY <1>1
  <2> HIDE DEF f, i
  <2>2. LET g == [f EXCEPT ![i] = s]
        IN  g \in Queue /\ (i \in 1 .. MaxBacklog => g[i] = s)
            /\ \A j \in 1 .. MaxBacklog : j # i => g[j] = f[j]
    BY ONLY <2>1, Written
  <2> QED BY <2>2, <1>1 DEF f
<1>4. /\ a \in Records /\ a.st = STATE_LISTEN /\ a.par = t[s].par /\ a.pos = t[s].pos
      /\ a.room = t[s].room /\ a.socks = t[s].socks /\ a.queue = t[s].queue
      /\ a.left = t[s].left /\ a.wild = t[s].wild
  BY <1>1, StateSet DEF States
<1>5. /\ b \in Records /\ b.st = t[p].st /\ b.par = t[p].par /\ b.pos = t[p].pos
      /\ b.room = t[p].room /\ b.socks = t[p].socks /\ b.queue = q
      /\ b.left = t[p].left /\ b.wild = t[p].wild
  <2>1. t[p] \in Records /\ q \in Queue BY <1>1, <1>3
  <2>2. b = [t[p] EXCEPT !.queue = q] OBVIOUS
  <2> HIDE DEF q, p, b
  <2> QED BY ONLY <2>1, <2>2, QueueSet
<1>6. v \in [Slot -> Records] /\ v[s] = a /\ v[p] = b /\ \A x \in Slot \ {s, p} : v[x] = t[x]
  <2> HIDE DEF a, b, p
  <2> QED BY <1>t, <1>1, <1>4, <1>5
<1> HIDE DEF v, a, b, q
<1>7. ASSUME NEW x \in Slot
      PROVE  /\ v[x].par = t[x].par /\ v[x].pos = t[x].pos /\ v[x].room = t[x].room
             /\ v[x].socks = t[x].socks /\ v[x].left = t[x].left /\ v[x].wild = t[x].wild
             /\ x = s => v[x].st = STATE_LISTEN
             /\ x # s => v[x].st = t[x].st
             /\ x = p => v[x].queue = q
             /\ x # p => v[x].queue = t[x].queue
  BY <1>1, <1>4, <1>5, <1>6
<1>8. u \in [Slot -> Records]
  <2>1. ASSUME NEW x \in Slot PROVE u[x] \in Records
    <3>1. v[x] \in Records BY <1>6
    <3>2. [v[x] EXCEPT !.left = TRUE] \in Records BY <3>1, Forgotten
    <3> QED BY <1>2, <3>1, <3>2 DEF Leave
  <2> QED BY <1>2, <2>1 DEF Leave
<1>9. ASSUME NEW x \in Slot
      PROVE  /\ u[x].par = t[x].par /\ u[x].pos = t[x].pos /\ u[x].room = t[x].room
             /\ u[x].socks = t[x].socks /\ u[x].wild = t[x].wild
             /\ u[x].left <=> (x \in D \/ t[x].left)
             /\ x = s => u[x].st = STATE_LISTEN
             /\ x # s => u[x].st = t[x].st
             /\ x = p => u[x].queue = q
             /\ x # p => u[x].queue = t[x].queue
  <2>1. v[x] \in Records BY <1>6
  <2> DEFINE n == [v[x] EXCEPT !.left = TRUE]
  <2>2. /\ n.st = v[x].st /\ n.par = v[x].par /\ n.pos = v[x].pos
        /\ n.room = v[x].room /\ n.socks = v[x].socks /\ n.queue = v[x].queue
        /\ n.left = TRUE /\ n.wild = v[x].wild
    BY <2>1, Forgotten
  <2>3. u[x] = IF x \in D THEN n ELSE v[x] BY <1>2 DEF Leave
  <2>4. v[x].left \in BOOLEAN BY <1>6, Fields
  <2>5. /\ u[x].st = v[x].st /\ u[x].par = v[x].par /\ u[x].pos = v[x].pos
        /\ u[x].room = v[x].room /\ u[x].socks = v[x].socks /\ u[x].queue = v[x].queue
        /\ u[x].wild = v[x].wild /\ (u[x].left <=> (x \in D \/ v[x].left))
    <3> HIDE DEF n, D
    <3> QED BY <2>2, <2>3, <2>4
  <2> HIDE DEF n, D, u
  <2> QED BY <1>7, <2>5
<1>10. \A x \in Slot : x \in D <=> /\ t[x].par = p /\ t[x].pos = i
                                   /\ x = t[p].queue[i] /\ x # s
  BY DEF D, Child
<1> HIDE DEF u, D
<1>11. Typed(u, h, c) BY <1>8, <1>9 DEF Sound, Typed
<1>12. ASSUME NEW x \in Slot, Known(u, x)
       PROVE  /\ Known(t, x) /\ t[x].par \in Slot /\ t[t[x].par].st = STATE_BOUND
              /\ t[x].par # s /\ t[x].pos \in 1 .. MaxBacklog
              /\ t[x].pos \in 1 .. t[t[x].par].socks
  <2>1. Known(t, x) BY <1>9, <1>12 DEF Known
  <2>2. t[x].par \in Slot BY <1>t, <2>1, Fields DEF Known
  <2>3. t[t[x].par].st = STATE_BOUND /\ t[x].pos \in 1 .. t[t[x].par].socks
    BY <2>1 DEF Sound, Kept
  <2>4. t[x].par # s BY <2>1, <2>3
  <2>5. t[t[x].par].socks \in 0 .. MaxBacklog BY <1>t, <2>2, Fields
  <2> QED BY <2>1, <2>2, <2>3, <2>4, <2>5
<1>13. ASSUME NEW x \in Slot, Known(u, x), Stands(t, x) PROVE Stands(u, x)
  <2>1. CASE t[x].par # p BY <2>1, <1>9, <1>12, <1>13 DEF Stands
  <2>2. CASE t[x].par = p /\ t[x].pos # i
    <3>1. t[p].queue[t[x].pos] = x BY <2>2, <1>13 DEF Stands
    <3>2. q[t[x].pos] = x BY <2>2, <3>1, <1>3, <1>12, <1>13
    <3>3. u[x].par = p /\ u[x].pos = t[x].pos /\ u[p].queue = q BY <2>2, <1>1, <1>9
    <3> QED BY <3>2, <3>3 DEF Stands
  <2>3. CASE t[x].par = p /\ t[x].pos = i
    <3>1. x = t[p].queue[i] BY <2>3, <1>13 DEF Stands
    <3>2. x = s BY <2>3, <3>1, <1>9, <1>10, <1>13 DEF Known
    <3>3. i # 0 BY <2>3, <1>12, <1>13
    <3> QED BY <2>3, <3>2, <3>3, <1>1, <1>3, <1>9 DEF Stands
  <2> QED BY <2>1, <2>2, <2>3
<1>14. Kept(u, h)
  <2> SUFFICES ASSUME NEW x \in Slot, Known(u, x)
               PROVE  /\ u[u[x].par].st = STATE_BOUND
                      /\ u[x].pos \in 1 .. u[u[x].par].socks
                      /\ Stands(u, x) \/ h[x] > 0
                      /\ \A d \in Slot : u[d].par = u[x].par /\ u[d].pos = u[x].pos => d = x \/ u[d].left
    BY DEF Kept
  <2>1. Known(t, x) /\ t[x].par \in Slot /\ t[x].par # s BY <1>12
  <2>2. /\ t[t[x].par].st = STATE_BOUND
        /\ t[x].pos \in 1 .. t[t[x].par].socks
        /\ Stands(t, x) \/ h[x] > 0
        /\ \A d \in Slot : t[d].par = t[x].par /\ t[d].pos = t[x].pos => d = x \/ t[d].left
    BY <2>1 DEF Sound, Kept
  <2> QED BY <2>1, <2>2, <1>9, <1>13
<1>15. ~u[s].left => Stands(u, s)
  <2> SUFFICES ASSUME ~u[s].left PROVE Stands(u, s) OBVIOUS
  <2>1. Known(u, s) BY <1>9 DEF Known
  <2>2. i # 0 BY <2>1, <1>12
  <2> QED BY <2>2, <1>1, <1>3, <1>9 DEF Stands
<1>16. Listeners(u, c)
  <2> SUFFICES ASSUME NEW x \in Slot, u[x].st = STATE_LISTEN, ~u[x].left,
                      ~(c.op \in {"kill", "flush", "last"} /\ c.kill = x)
               PROVE  u[x].par # 0 /\ Stands(u, x)
    BY DEF Listeners
  <2>1. CASE x = s BY <2>1, <1>1, <1>9, <1>15
  <2>2. CASE x # s
    <3>1. t[x].st = STATE_LISTEN /\ ~t[x].left /\ u[x].par = t[x].par BY <2>2, <1>9
    <3>2. t[x].par # 0 /\ Stands(t, x) BY <3>1 DEF Sound, Listeners
    <3>3. Known(u, x) BY <3>1, <3>2 DEF Known
    <3> QED BY <3>1, <3>2, <3>3, <1>13
  <2> QED BY <2>1, <2>2
<1>17. Callers(u, h, c)
  <2>1. Callers(t, h, c) BY DEF Sound
  <2>2. \A x \in Slot : Known(u, x) => Known(t, x) BY <1>12
  <2>3. ASSUME c.op \in {"flush", "last"} PROVE u[c.kill].st # STATE_BOUND
    BY <1>9, <2>1, <2>3 DEF Callers, Closes
  <2>4. ASSUME c.op \in {"kill", "flush", "last"}, c.kill # c.fd PROVE u[c.kill].par = 0
    BY <1>9, <2>1, <2>4 DEF Callers, Closes
  <2> QED BY <1>9, <2>1, <2>2, <2>3, <2>4 DEF Callers
<1>18. u[s].par = t[s].par /\ u[s].st = STATE_LISTEN BY <1>9
<1> QED BY <1>11, <1>14, <1>15, <1>16, <1>17, <1>18 DEF Sound, u

(* nuke_tcp_socket, on any slot but a listener whose children are known.    *)
LEMMA NukeAny ==
  ASSUME NEW t, NEW h, NEW c, Sound(t, h, c), NEW s \in Slot,
         t[s].st = STATE_BOUND => \A x \in Slot : Known(t, x) => t[x].par # s
  PROVE  LET u == Nuke(t, s)
         IN  /\ Sound(u, h, c)
             /\ u[s].par = t[s].par
             /\ u[s].st = STATE_CLOSED \/ (u[s].st = STATE_LISTEN /\ u[s].par # 0)
             /\ Known(u, s) => Stands(u, s)
<1> USE Numbers
<1> DEFINE p == t[s].par
           i == t[s].pos
           u == Nuke(t, s)
<1>t. t \in [Slot -> Records] BY DEF Sound, Typed
<1>1. t[s] \in Records /\ (p # 0 => p \in Slot) BY <1>t, Fields
<1>2. t[s].wild => t[s].left BY DEF Sound, Typed
<1>3. CASE p = 0 \/ t[p].st = STATE_CLOSED
  <2> DEFINE r == Free(t[s])
  <2>1. u = [t EXCEPT ![s] = r] BY <1>3 DEF Nuke
  <2>2. /\ r \in Records /\ r.st = STATE_CLOSED /\ r.par = p /\ r.pos = i /\ r.socks <= r.room
        /\ r.left = t[s].left /\ r.wild = t[s].wild
    <3> DEFINE n == Buffers(t[s])
    <3>1. /\ n \in Records /\ n.par = p /\ n.pos = i /\ n.room = 0 /\ n.socks = 0
          /\ n.left = t[s].left /\ n.wild = t[s].wild
      BY <1>1, BuffersGone
    <3>2. r = [n EXCEPT !.st = STATE_CLOSED] BY DEF Free
    <3>3. STATE_CLOSED \in States BY DEF States
    <3> HIDE DEF n, r
    <3>4. /\ r \in Records /\ r.st = STATE_CLOSED /\ r.par = n.par /\ r.pos = n.pos
          /\ r.room = n.room /\ r.socks = n.socks /\ r.left = n.left /\ r.wild = n.wild
      BY ONLY <3>1, <3>2, <3>3, StateSet
    <3> QED BY <3>1, <3>4
  <2>3. u[s] = r BY <2>1, <2>2, <1>t, Put
  <2>4. ~Known(t, s) BY <1>1, <1>3 DEF Sound, Kept, Known
  <2>5. Known(u, s) <=> Known(t, s) BY <2>2, <2>3 DEF Known
  <2>6. Sound([t EXCEPT ![s] = r], h, c)
    <3> HIDE DEF r
    <3> QED BY <1>2, <2>2, Touch
  <2> QED BY <2>1, <2>2, <2>3, <2>4, <2>5, <2>6
<1>4. CASE p # 0 /\ t[p].st # STATE_CLOSED /\ i <= t[p].room
  <2>1. /\ Sound(u, h, c) /\ u[s].par = t[s].par /\ u[s].st = STATE_LISTEN
        /\ ~u[s].left => Stands(u, s)
    BY <1>4, NukeChild
  <2> QED BY <2>1, <1>4 DEF Known
<1>5. CASE p # 0 /\ t[p].st # STATE_CLOSED /\ ~(i <= t[p].room)
  <2> DEFINE r == [t[s] EXCEPT !.st = STATE_LISTEN, !.wild = TRUE]
  <2>1. u = [t EXCEPT ![s] = r]
    <3>1. u = [t EXCEPT ![s].st = STATE_LISTEN, ![s].wild = TRUE] BY <1>5 DEF Nuke
    <3> QED BY <3>1, <1>t, <1>1
  <2>2. /\ r \in Records /\ r.st = STATE_LISTEN /\ r.par = p /\ r.pos = i
        /\ r.room = t[s].room /\ r.socks = t[s].socks /\ r.left = t[s].left
    <3>1. STATE_LISTEN \in States BY DEF States
    <3> QED BY <1>1, <3>1 DEF Records
  <2>3. u[s] = r BY <2>1, <2>2, <1>t, Put
  <2>4. ~Known(t, s)
    <3> SUFFICES ASSUME Known(t, s) PROVE FALSE OBVIOUS
    <3>1. i \in 1 .. t[p].socks BY DEF Sound, Kept
    <3>2. t[p].socks <= t[p].room BY <1>1, <1>5 DEF Sound, Typed
    <3>3. t[p].socks \in Nat /\ t[p].room \in Nat /\ i \in Nat BY <1>t, <1>1, <1>5, Fields
    <3> QED BY <3>1, <3>2, <3>3, <1>5
  <2>5. t[s].left BY <2>4, <1>5 DEF Known
  <2>6. t[s].socks <= t[s].room /\ r.left BY <2>2, <2>5 DEF Sound, Typed
  <2>7. Sound([t EXCEPT ![s] = r], h, c)
    <3>1. r.st # STATE_BOUND BY <2>2
    <3>2. r.par = t[s].par /\ r.pos = t[s].pos /\ r.left = t[s].left BY <2>2
    <3>3. r.socks <= r.room /\ r \in Records BY <2>2, <2>6
    <3>4. r.left BY <2>6
    <3> HIDE DEF r
    <3> QED BY <3>1, <3>2, <3>3, <3>4, Touch
  <2> QED BY <2>1, <2>2, <2>3, <2>5, <2>7, <1>5 DEF Known
<1> QED BY <1>3, <1>4, <1>5

-----------------------------------------------------------------------------
(* Only the call changes, and no more is asked of the table.                *)
LEMMA NewCall ==
  ASSUME NEW t, NEW h, NEW c, Sound(t, h, c), NEW d \in Calls,
         c.op \in {"kill", "flush", "last"} =>
           \/ d.op \in {"kill", "flush", "last"} /\ d.kill = c.kill
           \/ t[c.kill].st = STATE_LISTEN /\ ~t[c.kill].left =>
                t[c.kill].par # 0 /\ Stands(t, c.kill),
         Callers(t, h, d)
  PROVE  Sound(t, h, d)
<1>1. Typed(t, h, d) /\ Kept(t, h) BY DEF Sound, Typed
<1>2. Listeners(t, d) BY DEF Sound, Listeners
<1> QED BY <1>1, <1>2 DEF Sound

LEMMA IdleCall ==
  /\ Idle \in Calls /\ Idle.op = "none" /\ Idle.i = 0
  /\ \A t, h : Callers(t, h, Idle)
BY Numbers DEF Idle, Calls, Ops, Callers, Closes

LEMMA CallBegins ==
  ASSUME NEW o \in {"connect", "accept"}, NEW s \in Slot
  PROVE  LET d == [Idle EXCEPT !.op = o, !.fd = s]
         IN  d \in Calls /\ d.op = o /\ d.fd = s
<1>1. o \in Ops /\ s \in 0 .. NSlot BY Numbers DEF Ops
<1>2. Idle \in Calls BY IdleCall
<1>3. ASSUME NEW c \in Calls
      PROVE  LET d == [c EXCEPT !.op = o, !.fd = s]
             IN  d \in Calls /\ d.op = o /\ d.fd = s
  BY <1>1 DEF Calls
<1> QED BY <1>2, <1>3

(* A descriptor more, or one less of a child that stands in its place.      *)
LEMMA Descriptor ==
  ASSUME NEW t, NEW h, NEW c, Sound(t, h, c), c.op = "none",
         NEW s \in Slot, NEW n \in 0..2, n >= h[s] \/ (Known(t, s) => Stands(t, s))
  PROVE  Sound(t, [h EXCEPT ![s] = n], c)
<1> DEFINE g == [h EXCEPT ![s] = n]
<1>1. h \in [Slot -> 0..2] BY DEF Sound, Typed
<1>2. g \in [Slot -> 0..2] /\ g[s] = n /\ \A x \in Slot \ {s} : g[x] = h[x] BY <1>1
<1>3. h[s] \in 0..2 BY <1>1
<1> HIDE DEF g
<1>4. Typed(t, g, c) BY <1>2 DEF Sound, Typed
<1>5. \A x \in Slot : Known(t, x) => Stands(t, x) \/ g[x] > 0
  BY <1>2, <1>3 DEF Sound, Kept
<1>6. Kept(t, g) BY <1>5 DEF Sound, Kept
<1>7. Callers(t, g, c) BY DEF Sound, Callers, Closes
<1> QED BY <1>4, <1>6, <1>7 DEF Sound, g

-----------------------------------------------------------------------------
LEMMA SocketStep == ASSUME IInv, AJK_socket PROVE IInv'
<1> USE Numbers
<1>1. PICK s \in FreeSlots :
        /\ call = Idle /\ held[s] < 2
        /\ tab' = [tab EXCEPT ![s] = Cleared(@)] /\ held' = [held EXCEPT ![s] = @ + 1]
        /\ UNCHANGED <<call, up>>
  BY DEF AJK_socket
<1>2. s \in Slot /\ tab[s].st = STATE_CLOSED BY DEF FreeSlots
<1>3. tab \in [Slot -> Records] /\ held \in [Slot -> 0..2] /\ Sound(tab, held, call)
      /\ tab[s].socks <= tab[s].room
  BY <1>2 DEF IInv, Sound, Typed
<1> DEFINE r == Cleared(tab[s])
<1>4. tab[s] \in Records BY <1>2, <1>3
<1>5. /\ r \in Records /\ r.st = STATE_NOTINIT /\ r.par = 0
      /\ r.room = tab[s].room /\ r.socks = tab[s].socks /\ ~r.wild
  BY <1>4, RecordCleared
<1> HIDE DEF r
<1>s. /\ tab[s].st # STATE_BOUND /\ r.st # STATE_BOUND /\ r.st # STATE_LISTEN
      /\ r.socks <= r.room
  BY <1>2, <1>3, <1>5
<1>6. Sound([tab EXCEPT ![s] = r], held, call) BY <1>2, <1>3, <1>5, <1>s, Touch
<1>7. Sound(tab', held, call) BY <1>1, <1>6 DEF r
<1>8. held[s] + 1 \in 0..2 /\ held[s] + 1 >= held[s] BY <1>1, <1>2, <1>3
<1>9. Sound(tab', [held EXCEPT ![s] = held[s] + 1], call)
  BY <1>1, <1>2, <1>7, <1>8, IdleCall, Descriptor
<1>10. held' = [held EXCEPT ![s] = held[s] + 1] /\ call' = call /\ up' = up BY <1>1
<1> QED BY <1>9, <1>10 DEF IInv

(* Touch, for a slot whose state is set.                                    *)
LEMMA SetState ==
  ASSUME NEW t, NEW h, NEW c, Sound(t, h, c), NEW s \in Slot, NEW v \in States,
         t[s].st # STATE_BOUND, v \notin {STATE_BOUND, STATE_LISTEN}
  PROVE  Sound([t EXCEPT ![s].st = v], h, c)
<1> DEFINE r == [t[s] EXCEPT !.st = v]
<1>1. t \in [Slot -> Records] /\ t[s].socks <= t[s].room /\ (t[s].wild => t[s].left)
  BY DEF Sound, Typed
<1>2. t[s] \in Records BY <1>1
<1>3. /\ r \in Records /\ r.st = v /\ r.par = t[s].par /\ r.pos = t[s].pos
      /\ r.room = t[s].room /\ r.socks = t[s].socks /\ r.left = t[s].left /\ r.wild = t[s].wild
  BY <1>2, StateSet
<1>4. [t EXCEPT ![s].st = v] = [t EXCEPT ![s] = r] BY <1>1
<1> HIDE DEF r
<1>5. r.wild => r.left BY <1>1, <1>3
<1>6. r.st # STATE_BOUND /\ r.st # STATE_LISTEN /\ r.socks <= r.room BY <1>1, <1>3
<1>7. Sound([t EXCEPT ![s] = r], h, c) BY <1>3, <1>5, <1>6, Touch
<1> QED BY <1>4, <1>7

(* New buffers, and a new state.                                            *)
LEMMA SetUp ==
  ASSUME NEW t, NEW h, NEW c, Sound(t, h, c), NEW s \in Slot, NEW v \in States,
         t[s].st # STATE_BOUND, v \notin {STATE_BOUND, STATE_LISTEN}
  PROVE  Sound([t EXCEPT ![s] = [Buffers(@) EXCEPT !.st = v]], h, c)
<1> DEFINE n == Buffers(t[s])
           r == [n EXCEPT !.st = v]
<1>1. t \in [Slot -> Records] /\ (t[s].wild => t[s].left) BY DEF Sound, Typed
<1>2. t[s] \in Records BY <1>1
<1>3. /\ n \in Records /\ n.par = t[s].par /\ n.pos = t[s].pos /\ n.room = 0 /\ n.socks = 0
      /\ n.left = t[s].left /\ n.wild = t[s].wild
  BY <1>2, BuffersGone
<1>4. r = [n EXCEPT !.st = v] OBVIOUS
<1>5. [t EXCEPT ![s] = [Buffers(@) EXCEPT !.st = v]] = [t EXCEPT ![s] = r] BY <1>1
<1> HIDE DEF n, r
<1>6. /\ r \in Records /\ r.st = v /\ r.par = n.par /\ r.pos = n.pos
      /\ r.room = n.room /\ r.socks = n.socks /\ r.left = n.left /\ r.wild = n.wild
  BY ONLY <1>3, <1>4, StateSet, v \in States
<1>7. r.wild => r.left BY <1>1, <1>3, <1>6
<1>8. /\ r.st # STATE_BOUND /\ r.st # STATE_LISTEN /\ r.socks <= r.room
      /\ r.par = t[s].par /\ r.pos = t[s].pos /\ r.left = t[s].left
  BY <1>3, <1>6
<1>9. Sound([t EXCEPT ![s] = r], h, c) BY <1>6, <1>7, <1>8, Touch
<1> QED BY <1>5, <1>9

LEMMA ConnectStep == ASSUME IInv, NEW s \in Slot, AJK_connect(s) PROVE IInv'
<1> USE Numbers
<1> DEFINE d == [Idle EXCEPT !.op = "connect", !.fd = s]
<1>1. /\ call = Idle /\ tab[s].st = STATE_NOTINIT /\ call' = d /\ UNCHANGED <<held, up>>
      /\ tab' = [tab EXCEPT ![s] = [Buffers(@) EXCEPT !.st = STATE_SYN_SENT]]
  BY DEF AJK_connect, Ready
<1>s. STATE_SYN_SENT \in States BY DEF States
<1>2. Sound(tab', held, call)
  <2>1. tab[s].st # STATE_BOUND /\ STATE_SYN_SENT \notin {STATE_BOUND, STATE_LISTEN} BY <1>1
  <2>2. Sound([tab EXCEPT ![s] = [Buffers(@) EXCEPT !.st = STATE_SYN_SENT]], held, call)
    BY ONLY <1>s, <2>1, s \in Slot, IInv, SetUp DEF IInv
  <2> QED BY <1>1, <2>2
<1>3. d \in Calls /\ d.op = "connect" /\ d.fd = s BY CallBegins
<1> HIDE DEF d
<1>4. Callers(tab', held, d) BY <1>3 DEF Callers, Closes
<1>5. Sound(tab', held, d) BY <1>1, <1>2, <1>3, <1>4, IdleCall, NewCall
<1> QED BY <1>1, <1>5 DEF IInv

LEMMA ConnectReturnsStep == ASSUME IInv, ConnectReturns PROVE IInv'
<1>1. call.op = "connect" /\ call' = Idle /\ UNCHANGED <<tab, held, up>> BY DEF ConnectReturns
<1>2. Sound(tab, held, Idle) BY <1>1, IdleCall, NewCall DEF IInv
<1> QED BY <1>1, <1>2 DEF IInv

LEMMA BindStep == ASSUME IInv, NEW s \in Slot, NEW udp, AJK_bind(s, udp) PROVE IInv'
<1>1. /\ tab[s].st = STATE_NOTINIT /\ UNCHANGED <<held, call, up>>
      /\ \/ tab' = [tab EXCEPT ![s] = [Buffers(@) EXCEPT !.st = STATE_UDP]]
         \/ tab' = [tab EXCEPT ![s].st = STATE_BIND]
  BY DEF AJK_bind
<1>2. STATE_UDP \in States /\ STATE_BIND \in States BY DEF States
<1>3. Sound(tab', held, call) BY <1>1, <1>2, SetUp, SetState DEF IInv
<1> QED BY <1>1, <1>3 DEF IInv

LEMMA AcceptStep == ASSUME IInv, NEW s \in Slot, AJK_accept(s) PROVE IInv'
<1> USE Numbers
<1> DEFINE d == [Idle EXCEPT !.op = "accept", !.fd = s]
<1>1. /\ call = Idle /\ call' = d /\ UNCHANGED <<tab, held>> /\ up' \in BOOLEAN
  BY DEF AJK_accept, Ready
<1>2. d \in Calls /\ d.op = "accept" /\ d.fd = s BY CallBegins
<1> HIDE DEF d
<1>3. Callers(tab, held, d) BY <1>2 DEF Callers, Closes
<1>4. Sound(tab, held, d) BY <1>1, <1>2, <1>3, IdleCall, NewCall DEF IInv
<1> QED BY <1>1, <1>4 DEF IInv

(* A bound socket's children all have a place after the 0th; no other       *)
(* socket has known children.                                               *)
LEMMA SockcloseStep == ASSUME IInv, NEW s \in Slot, AJK_sockclose(s) PROVE IInv'
<1> USE Numbers
<1> DEFINE d == [op |-> IF tab[s].st = STATE_BOUND THEN "children" ELSE "self",
                 fd |-> s, i |-> 0, kill |-> s]
<1>1. /\ held[s] > 0 /\ call = Idle /\ call' = d /\ UNCHANGED <<tab, held>> /\ up' \in BOOLEAN
  BY DEF AJK_sockclose, Ready
<1>2. /\ d \in Calls /\ d.fd = s /\ d.i = 0 /\ d.kill = s
      /\ d.op \in {"children", "self"} /\ (d.op = "self" => tab[s].st # STATE_BOUND)
  BY DEF Calls, Ops
<1> HIDE DEF d
<1>3. ASSUME NEW x \in Slot, Known(tab, x), tab[x].par = d.fd
      PROVE  d.op # "self" /\ tab[x].pos > d.i
  <2>1. tab[tab[x].par].st = STATE_BOUND /\ tab[x].pos \in 1 .. tab[tab[x].par].socks
    BY <1>3 DEF IInv, Sound, Kept
  <2>2. tab[x].pos \in 0 .. MaxBacklog BY Fields DEF IInv, Sound, Typed
  <2> QED BY <2>1, <2>2, <1>2, <1>3
<1>4. Callers(tab, held, d) BY <1>1, <1>2, <1>3 DEF Callers, Closes
<1>5. Sound(tab, held, d) BY <1>1, <1>2, <1>4, IdleCall, NewCall DEF IInv
<1> QED BY <1>1, <1>5 DEF IInv

-----------------------------------------------------------------------------
(* A child a program has is taken out of a queue.                           *)
LEMMA TakeOut ==
  ASSUME NEW t, NEW h, NEW c, Sound(t, h, c), NEW s \in Slot, NEW j \in 1 .. MaxBacklog,
         NEW x \in Slot, t[s].queue[j] = x, h[x] > 0, t[x].st # STATE_LISTEN
  PROVE  Sound([t EXCEPT ![s].queue[j] = 0], h, c)
<1> USE Numbers
<1> DEFINE f == t[s].queue
           q == [f EXCEPT ![j] = 0]
           r == [t[s] EXCEPT !.queue = q]
           u == [t EXCEPT ![s] = r]
<1>t. t \in [Slot -> Records] BY DEF Sound, Typed
<1>1. t[s] \in Records /\ f \in Queue /\ f[j] = x BY <1>t, Fields
<1>2. [t EXCEPT ![s].queue[j] = 0] = u BY <1>t
<1>3. q \in Queue /\ q[j] = 0 /\ \A i \in 1 .. MaxBacklog : i # j => q[i] = f[i]
  <2> HIDE DEF f
  <2>1. f \in Queue /\ 0 \in 0 .. NSlot BY <1>1
  <2>2. LET g == [f EXCEPT ![j] = 0]
        IN  g \in Queue /\ (j \in 1 .. MaxBacklog => g[j] = 0)
            /\ \A i \in 1 .. MaxBacklog : i # j => g[i] = f[i]
    BY ONLY <2>1, Written
  <2> QED BY <2>2
<1> HIDE DEF q, f
<1>4. /\ r \in Records /\ r.st = t[s].st /\ r.par = t[s].par /\ r.pos = t[s].pos
      /\ r.room = t[s].room /\ r.socks = t[s].socks /\ r.queue = q
      /\ r.left = t[s].left /\ r.wild = t[s].wild
  BY <1>1, <1>3, QueueSet
<1> HIDE DEF r
<1>5. u \in [Slot -> Records] /\ u[s] = r /\ \A y \in Slot \ {s} : u[y] = t[y]
  BY <1>t, <1>4, Put
<1> HIDE DEF u
<1>6. ASSUME NEW y \in Slot
      PROVE  /\ u[y].par = t[y].par /\ u[y].pos = t[y].pos /\ u[y].room = t[y].room
             /\ u[y].socks = t[y].socks /\ u[y].left = t[y].left /\ u[y].wild = t[y].wild
             /\ u[y].st = t[y].st
             /\ y = s => u[y].queue = q
             /\ y # s => u[y].queue = t[y].queue
  BY <1>4, <1>5
<1>7. Typed(u, h, c) BY <1>5, <1>6 DEF Sound, Typed
<1>8. \A y \in Slot : Known(u, y) <=> Known(t, y) BY <1>6 DEF Known
<1>9. ASSUME NEW y \in Slot, Known(t, y)
      PROVE  /\ t[y].par \in Slot /\ t[y].pos \in 1 .. MaxBacklog
             /\ Stands(t, y) => Stands(u, y) \/ y = x
  <2>1. t[y].par \in Slot BY <1>t, <1>9, Fields DEF Known
  <2>2. t[y].pos \in 1 .. t[t[y].par].socks BY <1>9 DEF Sound, Kept
  <2>3. t[t[y].par].socks \in 0 .. MaxBacklog BY <1>t, <2>1, Fields
  <2>4. t[y].pos \in 1 .. MaxBacklog BY <2>2, <2>3
  <2>5. ASSUME Stands(t, y), y # x PROVE Stands(u, y)
    <3>1. CASE t[y].par # s BY <3>1, <2>1, <2>5, <1>6 DEF Stands
    <3>2. CASE t[y].par = s
      <4>1. f[t[y].pos] = y BY <3>2, <2>5 DEF Stands, f
      <4>2. q[t[y].pos] = y BY <4>1, <2>4, <2>5, <1>1, <1>3
      <4> QED BY <4>2, <3>2, <1>6 DEF Stands
    <3> QED BY <3>1, <3>2
  <2> QED BY <2>1, <2>4, <2>5
<1>10. Kept(u, h)
  <2> SUFFICES ASSUME NEW y \in Slot, Known(u, y)
               PROVE  /\ u[u[y].par].st = STATE_BOUND
                      /\ u[y].pos \in 1 .. u[u[y].par].socks
                      /\ Stands(u, y) \/ h[y] > 0
                      /\ \A d \in Slot : u[d].par = u[y].par /\ u[d].pos = u[y].pos => d = y \/ u[d].left
    BY DEF Kept
  <2>1. Known(t, y) /\ t[y].par \in Slot BY <1>8, <1>9
  <2>2. /\ t[t[y].par].st = STATE_BOUND
        /\ t[y].pos \in 1 .. t[t[y].par].socks
        /\ Stands(t, y) \/ h[y] > 0
        /\ \A d \in Slot : t[d].par = t[y].par /\ t[d].pos = t[y].pos => d = y \/ t[d].left
    BY <2>1 DEF Sound, Kept
  <2> QED BY <2>1, <2>2, <1>6, <1>9
<1>11. Listeners(u, c)
  <2> SUFFICES ASSUME NEW y \in Slot, u[y].st = STATE_LISTEN, ~u[y].left,
                      ~(c.op \in {"kill", "flush", "last"} /\ c.kill = y)
               PROVE  u[y].par # 0 /\ Stands(u, y)
    BY DEF Listeners
  <2>1. t[y].st = STATE_LISTEN /\ ~t[y].left /\ u[y].par = t[y].par /\ y # x BY <1>6
  <2>2. t[y].par # 0 /\ Stands(t, y) BY <2>1 DEF Sound, Listeners
  <2>3. Known(t, y) BY <2>1, <2>2 DEF Known
  <2> QED BY <2>1, <2>2, <2>3, <1>9
<1>12. Callers(u, h, c) BY <1>6, <1>8 DEF Sound, Callers, Closes
<1>13. Sound(u, h, c) BY <1>7, <1>10, <1>11, <1>12 DEF Sound
<1> QED BY <1>2, <1>13

LEMMA ScanStep == ASSUME IInv, ScanNext PROVE IInv'
<1> USE Numbers
<1> DEFINE s == call.fd
           j == call.i + 1
           x == tab[s].queue[j]
<1>1. call.op = "accept" /\ up' = up BY DEF ScanNext
<1>2. /\ s \in Slot /\ call \in Calls /\ tab \in [Slot -> Records] /\ held \in [Slot -> 0..2]
      /\ Sound(tab, held, call) /\ up \in BOOLEAN
  BY <1>1 DEF IInv, Sound, Callers, Typed
<1>3. tab[s].socks \in 0 .. MaxBacklog /\ call.i \in 0 .. MaxBacklog /\ tab[s].queue \in Queue
  BY <1>2, Fields DEF Calls
<1>4. CASE call.i = tab[s].socks /\ call' = Idle /\ UNCHANGED <<tab, held>>
  <2>1. Sound(tab, held, Idle) BY <1>1, <1>2, IdleCall, NewCall
  <2> QED BY <1>1, <1>2, <1>4, <2>1 DEF IInv
<1>5. CASE call.i < tab[s].socks /\ call' = [call EXCEPT !.i = @ + 1] /\ UNCHANGED <<tab, held>>
  <2> DEFINE d == [call EXCEPT !.i = @ + 1]
  <2>1. d \in Calls /\ d.op = "accept" /\ d.fd = s
    <3>1. j \in 0 .. MaxBacklog BY <1>3, <1>5
    <3> QED BY <3>1, <1>1, <1>2 DEF Calls
  <2> HIDE DEF d
  <2>2. Callers(tab, held, d) BY <2>1, <1>2 DEF Callers, Closes
  <2>3. Sound(tab, held, d) BY <1>1, <1>2, <2>1, <2>2, NewCall
  <2> QED BY <1>1, <1>2, <1>5, <2>3 DEF IInv, d
<1>6. CASE /\ call.i < tab[s].socks /\ Connected(x) /\ held[x] < 2
           /\ tab' = [tab EXCEPT ![s].queue[j] = 0]
           /\ held' = [held EXCEPT ![x] = @ + 1]
           /\ call' = Idle
  <2>1. j \in 1 .. MaxBacklog BY <1>3, <1>6
  <2>2. x \in Slot /\ tab[x].st = STATE_ESTABLISHED
    <3>1. x \in 0 .. NSlot BY <1>3, <2>1 DEF Queue
    <3> QED BY <3>1, <1>6 DEF Connected
  <2> HIDE DEF x, j, s
  <2>3. Sound(tab, held, Idle) BY <1>1, <1>2, IdleCall, NewCall
  <2> DEFINE g == [held EXCEPT ![x] = held[x] + 1]
  <2>4. held[x] + 1 \in 0..2 /\ held[x] + 1 >= held[x] BY <1>2, <1>6, <2>2
  <2>5. Sound(tab, g, Idle)
    <3> DEFINE n == held[x] + 1
    <3>1. n \in 0..2 /\ n >= held[x] BY <2>4
    <3> HIDE DEF n
    <3>2. Sound(tab, [held EXCEPT ![x] = n], Idle)
      BY ONLY <2>2, <2>3, <3>1, IdleCall, Descriptor
    <3> QED BY <3>2 DEF n
  <2>6. g[x] > 0 BY <1>2, <2>2, <2>4
  <2> HIDE DEF g
  <2>7. tab[s].queue[j] = x BY DEF x, j, s
  <2>8. Sound([tab EXCEPT ![s].queue[j] = 0], g, Idle)
    <3>1. s \in Slot /\ tab[x].st # STATE_LISTEN BY <1>2, <2>2 DEF s
    <3> QED BY ONLY <2>1, <2>2, <2>5, <2>6, <2>7, <3>1, TakeOut
  <2>9. tab' = [tab EXCEPT ![s].queue[j] = 0] /\ held' = g /\ call' = Idle
    BY <1>6 DEF g
  <2> QED BY <1>1, <1>2, <2>8, <2>9 DEF IInv
<1>7. \/ call.i = tab[s].socks /\ call' = Idle /\ UNCHANGED <<tab, held>>
      \/ call.i < tab[s].socks /\ call' = [call EXCEPT !.i = @ + 1] /\ UNCHANGED <<tab, held>>
      \/ /\ call.i < tab[s].socks /\ Connected(x) /\ held[x] < 2
         /\ tab' = [tab EXCEPT ![s].queue[j] = 0]
         /\ held' = [held EXCEPT ![x] = @ + 1]
         /\ call' = Idle
  BY DEF ScanNext
<1> QED BY <1>4, <1>5, <1>6, <1>7

-----------------------------------------------------------------------------
(* A child that is to be closed with its listener loses its parent.         *)
LEMMA DisownIt ==
  ASSUME NEW t, NEW h, NEW c, Sound(t, h, c), c.op = "children", NEW x \in Slot,
         NEW d \in Calls, d.op = "kill", d.kill = x, Callers(Disown(t, x), h, d)
  PROVE  Sound(Disown(t, x), h, d)
<1> DEFINE r == [t[x] EXCEPT !.par = 0]
           u == Disown(t, x)
<1>t. t \in [Slot -> Records] BY DEF Sound, Typed
<1>1. t[x] \in Records BY <1>t
<1>2. /\ r \in Records /\ r.st = t[x].st /\ r.par = 0 /\ r.pos = t[x].pos
      /\ r.room = t[x].room /\ r.socks = t[x].socks /\ r.queue = t[x].queue
      /\ r.left = t[x].left /\ r.wild = t[x].wild
  BY <1>1, Orphaned
<1>3. u = [t EXCEPT ![x] = r] BY <1>t DEF Disown
<1> HIDE DEF r, u
<1>4. u \in [Slot -> Records] /\ u[x] = r /\ \A y \in Slot \ {x} : u[y] = t[y]
  BY <1>t, <1>2, <1>3, Put
<1>5. ASSUME NEW y \in Slot
      PROVE  /\ u[y].pos = t[y].pos /\ u[y].room = t[y].room /\ u[y].st = t[y].st
             /\ u[y].socks = t[y].socks /\ u[y].left = t[y].left /\ u[y].wild = t[y].wild
             /\ u[y].queue = t[y].queue
             /\ y = x => u[y].par = 0
             /\ y # x => u[y].par = t[y].par
  BY <1>2, <1>4
<1>6. x # 0 BY Numbers
<1>7. Typed(u, h, d) BY <1>4, <1>5, <1>6 DEF Sound, Typed
<1>8. ASSUME NEW y \in Slot, Known(u, y)
      PROVE  /\ Known(t, y) /\ y # x /\ u[y].par = t[y].par /\ t[y].par \in Slot
             /\ Stands(t, y) => Stands(u, y)
  <2>1. Known(t, y) /\ y # x /\ u[y].par = t[y].par BY <1>5, <1>8 DEF Known
  <2>2. t[y].par \in Slot BY <1>t, <2>1, Fields DEF Known
  <2> QED BY <2>1, <2>2, <1>5 DEF Stands
<1>9. Kept(u, h)
  <2> SUFFICES ASSUME NEW y \in Slot, Known(u, y)
               PROVE  /\ u[u[y].par].st = STATE_BOUND
                      /\ u[y].pos \in 1 .. u[u[y].par].socks
                      /\ Stands(u, y) \/ h[y] > 0
                      /\ \A e \in Slot : u[e].par = u[y].par /\ u[e].pos = u[y].pos => e = y \/ u[e].left
    BY DEF Kept
  <2>1. Known(t, y) /\ t[y].par \in Slot /\ u[y].par = t[y].par /\ t[y].par # 0 BY <1>8 DEF Known
  <2>2. /\ t[t[y].par].st = STATE_BOUND
        /\ t[y].pos \in 1 .. t[t[y].par].socks
        /\ Stands(t, y) \/ h[y] > 0
        /\ \A e \in Slot : t[e].par = t[y].par /\ t[e].pos = t[y].pos => e = y \/ t[e].left
    BY <2>1 DEF Sound, Kept
  <2> QED BY <2>1, <2>2, <1>5, <1>8
<1>10. Listeners(u, d)
  <2> SUFFICES ASSUME NEW y \in Slot, u[y].st = STATE_LISTEN, ~u[y].left, y # x
               PROVE  u[y].par # 0 /\ Stands(u, y)
    BY DEF Listeners
  <2>1. t[y].st = STATE_LISTEN /\ ~t[y].left /\ u[y].par = t[y].par BY <1>5
  <2>2. t[y].par # 0 /\ Stands(t, y) BY <2>1 DEF Sound, Listeners
  <2>3. Known(u, y) BY <2>1, <2>2 DEF Known
  <2> QED BY <2>1, <2>2, <2>3, <1>8
<1> QED BY <1>7, <1>9, <1>10 DEF Sound, u

LEMMA NextChildStep == ASSUME IInv, NextChild PROVE IInv'
<1> USE Numbers
<1> DEFINE s == call.fd
           j == call.i + 1
           x == tab[s].queue[j]
           D == Child(tab, s, j) \ {x}
           t == Leave(tab, D)
<1>1. call.op = "children" /\ UNCHANGED <<held, up>> BY DEF NextChild
<1>2. /\ s \in Slot /\ call \in Calls /\ tab \in [Slot -> Records]
      /\ Sound(tab, held, call) /\ up \in BOOLEAN /\ held[s] > 0
      /\ \A y \in Slot : Known(tab, y) /\ tab[y].par = s => tab[y].pos > call.i
  BY <1>1 DEF IInv, Sound, Callers, Typed, Closes
<1>3. tab[s].socks \in 0 .. MaxBacklog /\ call.i \in 0 .. MaxBacklog /\ tab[s].queue \in Queue
  BY <1>2, Fields DEF Calls
<1>4. CASE call.i < tab[s].socks
  <2> DEFINE d == [call EXCEPT !.i = @ + 1, !.kill = x,
                               !.op = IF x = 0 THEN "children" ELSE "kill"]
  <2>1. call' = d /\ tab' = IF x = 0 THEN t ELSE Disown(t, x) BY <1>4 DEF NextChild
  <2>2. j \in 1 .. MaxBacklog BY <1>3, <1>4
  <2>3. x \in 0 .. NSlot BY <1>3, <2>2 DEF Queue
  <2>4. /\ d \in Calls /\ d.fd = s /\ d.i = j /\ d.kill = x
        /\ d.op = IF x = 0 THEN "children" ELSE "kill"
    <3>1. (IF x = 0 THEN "children" ELSE "kill") \in Ops BY DEF Ops
    <3> DEFINE o == IF x = 0 THEN "children" ELSE "kill"
    <3>2. d = [call EXCEPT !.i = j, !.kill = x, !.op = o] OBVIOUS
    <3>3. j \in 0 .. MaxBacklog /\ o \in Ops BY <2>2, <3>1
    <3> HIDE DEF x, d, j, o
    <3>4. d \in Calls /\ d.op = o /\ d.fd = call.fd /\ d.i = j /\ d.kill = x
      <4>1. call \in Calls BY <1>2
      <4>2. LET e == [call EXCEPT !.i = j, !.kill = x, !.op = o]
            IN  e \in Calls /\ e.op = o /\ e.fd = call.fd /\ e.i = j /\ e.kill = x
        BY ONLY <3>3, <4>1, <2>3 DEF Calls
      <4> QED BY <3>2, <4>2
    <3> QED BY <3>4 DEF o
  <2>5. /\ Sound(t, held, call)
        /\ \A y \in Slot : /\ t[y].par = tab[y].par /\ t[y].pos = tab[y].pos
                           /\ t[y].left <=> (y \in D \/ tab[y].left)
    BY <1>2, LeaveThem
  <2>6. ASSUME NEW y \in Slot, Known(t, y), t[y].par = s, y # x PROVE t[y].pos > j
    <3>1. y \notin D /\ Known(tab, y) /\ tab[y].par = s /\ t[y].pos = tab[y].pos
      BY <2>5, <2>6 DEF Known
    <3>2. tab[y].pos > call.i /\ tab[y].pos \in 0 .. MaxBacklog BY <1>2, <3>1, Fields
    <3>3. tab[y].pos # j BY <2>6, <3>1 DEF Child
    <3> QED BY <3>1, <3>2, <3>3, <1>3
  <2> HIDE DEF d, D, t, x
  <2>7. CASE x = 0
    <3>1. Callers(t, held, d) BY <2>4, <2>6, <2>7, <1>2 DEF Callers, Closes
    <3>2. Sound(t, held, d) BY <2>4, <2>5, <3>1, <1>1, NewCall
    <3> QED BY <3>2, <2>1, <2>7, <1>1, <1>2 DEF IInv
  <2>8. CASE x # 0
    <3> DEFINE u == Disown(t, x)
    <3>1. x \in Slot BY <2>3, <2>8
    <3>2. t \in [Slot -> Records] BY <2>5 DEF Sound, Typed
    <3>3. t[x] \in Records BY <3>1, <3>2
    <3>4. u[x].par = 0 /\ \A y \in Slot \ {x} : u[y] = t[y]
      <4>1. u[x] = [t[x] EXCEPT !.par = 0] BY <3>1, <3>2 DEF Disown
      <4>2. \A y \in Slot \ {x} : u[y] = t[y] BY <3>1, <3>2 DEF Disown
      <4> QED BY <4>1, <4>2, <3>3, Orphaned
    <3> HIDE DEF u
    <3>5. ASSUME NEW y \in Slot, Known(u, y), u[y].par = s PROVE u[y].pos > j
      BY <3>4, <3>5, <2>6 DEF Known
    <3>6. d.op = "kill" /\ d.kill = x BY <2>4, <2>8
    <3>7. Callers(u, held, d) BY <2>4, <3>1, <3>4, <3>5, <3>6, <1>2 DEF Callers, Closes
    <3>8. Sound(u, held, d) BY <1>1, <2>4, <2>5, <3>1, <3>6, <3>7, DisownIt DEF u
    <3> QED BY <3>8, <2>1, <2>8, <1>1, <1>2 DEF IInv, u
  <2> QED BY <2>7, <2>8
<1>5. CASE ~(call.i < tab[s].socks)
  <2> DEFINE d == [call EXCEPT !.kill = call.fd, !.op = "self"]
  <2>1. call' = d /\ tab' = tab BY <1>5 DEF NextChild
  <2>2. d \in Calls /\ d.fd = s /\ d.op = "self" /\ d.kill = s BY <1>2 DEF Calls, Ops
  <2> HIDE DEF d
  <2>3. \A y \in Slot : ~(Known(tab, y) /\ tab[y].par = s)
    <3> SUFFICES ASSUME NEW y \in Slot, Known(tab, y), tab[y].par = s PROVE FALSE OBVIOUS
    <3>1. tab[y].pos \in 1 .. tab[s].socks BY <1>2 DEF Sound, Kept
    <3>2. tab[y].pos > call.i BY <1>2
    <3> QED BY <3>1, <3>2, <1>3, <1>5
  <2>4. Callers(tab, held, d) BY <2>2, <2>3, <1>2 DEF Callers, Closes
  <2>5. Sound(tab, held, d) BY <1>1, <1>2, <2>2, <2>4, NewCall
  <2> QED BY <1>1, <1>2, <2>1, <2>5 DEF IInv
<1> QED BY <1>4, <1>5

-----------------------------------------------------------------------------
(* A slot that was being closed is nuked, and sockAclose is done with it.   *)
LEMMA ClosedStep ==
  ASSUME IInv, NEW t, Sound(t, held, call), call.op \in {"kill", "self", "last"},
         t[call.kill].st = STATE_BOUND =>
           \A x \in Slot : Known(t, x) => t[x].par # call.kill,
         Closed(Nuke(t, call.kill)), up' = up
  PROVE  IInv'
<1> USE Numbers
<1> DEFINE k == call.kill
           s == call.fd
           u == Nuke(t, k)
<1>1. /\ s \in Slot /\ k \in Slot /\ call \in Calls /\ held \in [Slot -> 0..2]
      /\ held[s] > 0 /\ up \in BOOLEAN /\ (k # s => t[k].par = 0)
  BY DEF IInv, Sound, Callers, Typed, Closes
<1>2. /\ Sound(u, held, call)
      /\ u[k].par = t[k].par
      /\ u[k].st = STATE_CLOSED \/ (u[k].st = STATE_LISTEN /\ u[k].par # 0)
      /\ Known(u, k) => Stands(u, k)
  <2> HIDE DEF k
  <2> QED BY <1>1, NukeAny DEF k
<1> HIDE DEF u
<1>3. u[k].st = STATE_LISTEN /\ ~u[k].left => u[k].par # 0 /\ Stands(u, k)
  BY <1>2 DEF Known
<1>4. CASE k = s
  <2>1. /\ tab' = u /\ call' = Idle /\ held' = [held EXCEPT ![s] = held[s] - 1]
    BY <1>4 DEF Closed, u
  <2>2. Sound(u, held, Idle) BY <1>2, <1>3, IdleCall, NewCall
  <2>3. held[s] - 1 \in 0..2 BY <1>1
  <2> HIDE DEF k, s
  <2>4. Sound(u, [held EXCEPT ![s] = held[s] - 1], Idle)
    <3> DEFINE n == held[s] - 1
    <3>1. n \in 0..2 BY <2>3
    <3> HIDE DEF n
    <3>2. Sound(u, [held EXCEPT ![s] = n], Idle)
      BY ONLY <1>1, <1>2, <1>4, <2>2, <3>1, IdleCall, Descriptor
    <3> QED BY <3>2 DEF n
  <2> QED BY <1>1, <2>1, <2>4 DEF IInv
<1>5. CASE k # s
  <2> DEFINE d == [call EXCEPT !.op = "children"]
             r == [u[k] EXCEPT !.par = 0]
  <2>1. tab' = Disown(u, k) /\ call' = d /\ held' = held BY <1>5 DEF Closed, u
  <2>2. u[k].par = 0 /\ u[k].st = STATE_CLOSED BY <1>1, <1>2, <1>5
  <2>3. d \in Calls /\ d.op = "children" /\ d.fd = s /\ d.i = call.i BY <1>1 DEF Calls, Ops
  <2> HIDE DEF d
  <2>4. Callers(u, held, call) BY <1>2 DEF Sound
  <2>5. Callers(u, held, d) BY <1>1, <2>3, <2>4 DEF Callers, Closes
  <2>6. Sound(u, held, d) BY <1>2, <1>3, <2>3, <2>5, NewCall
  <2>7. /\ u \in [Slot -> Records] /\ u[k].socks <= u[k].room /\ (u[k].wild => u[k].left)
    BY <1>1, <2>6 DEF Sound, Typed
  <2>8. u[k] \in Records BY <1>1, <2>7
  <2>9. /\ r \in Records /\ r.st = STATE_CLOSED /\ r.par = 0
        /\ r.room = u[k].room /\ r.socks = u[k].socks
        /\ r.left = u[k].left /\ r.wild = u[k].wild
    BY <2>2, <2>8, Orphaned
  <2>10. Disown(u, k) = [u EXCEPT ![k] = r] BY <2>7 DEF Disown
  <2> HIDE DEF r
  <2>11. /\ u[k].st # STATE_BOUND /\ r.st # STATE_BOUND /\ r.st # STATE_LISTEN
         /\ r.socks <= r.room /\ (r.wild => r.left)
    BY <2>2, <2>7, <2>9
  <2>12. Sound([u EXCEPT ![k] = r], held, d) BY <1>1, <2>6, <2>9, <2>11, Touch
  <2> QED BY <1>1, <2>1, <2>10, <2>12 DEF IInv
<1> QED BY <1>4, <1>5

LEMMA SockAcloseStep == ASSUME IInv, SockAclose PROVE IInv'
<1> DEFINE D == IF call.op = "kill" THEN Children(tab, call.kill) ELSE {}
           t == Leave(tab, D)
<1>1. call.op \in {"kill", "self"} /\ Closed(Nuke(t, call.kill)) /\ up' = up
  BY DEF SockAclose
<1>2. /\ Sound(tab, held, call)
      /\ call.op = "self" => \A x \in Slot : Known(tab, x) => tab[x].par # call.kill
  BY DEF IInv, Sound, Callers, Closes
<1>3. /\ Sound(t, held, call)
      /\ \A x \in Slot : t[x].par = tab[x].par /\ (t[x].left <=> (x \in D \/ tab[x].left))
  BY <1>2, LeaveThem
<1> HIDE DEF t
<1>4. \A x \in Slot : Known(t, x) => t[x].par # call.kill
  <2>1. CASE call.op = "self" BY <2>1, <1>2, <1>3 DEF Known
  <2>2. CASE call.op = "kill" BY <2>2, <1>3 DEF Known, Children
  <2> QED BY <1>1, <2>1, <2>2
<1> QED BY <1>1, <1>3, <1>4, ClosedStep

LEMMA NukeitStep == ASSUME IInv, Nukeit PROVE IInv'
<1>1. call.op = "last" /\ Closed(Nuke(tab, call.kill)) /\ up' = up BY DEF Nukeit
<1>2. Sound(tab, held, call) /\ tab[call.kill].st # STATE_BOUND
  BY <1>1 DEF IInv, Sound, Callers
<1> QED BY <1>1, <1>2, ClosedStep

LEMMA FlushStep == ASSUME IInv, FlushSocket PROVE IInv'
<1> USE Numbers
<1> DEFINE d == [call EXCEPT !.op = "flush"]
<1>1. /\ call.op \in {"kill", "self"} /\ tab[call.kill].st >= STATE_ESTABLISHED
      /\ call' = d /\ UNCHANGED <<tab, held, up>>
  BY DEF FlushSocket
<1>2. call \in Calls /\ Sound(tab, held, call) /\ Callers(tab, held, call) BY DEF IInv, Sound, Typed
<1>3. /\ d \in Calls /\ d.op = "flush" /\ d.fd = call.fd /\ d.i = call.i /\ d.kill = call.kill
  BY <1>2 DEF Calls, Ops
<1> HIDE DEF d
<1>4. tab[call.kill].st # STATE_BOUND BY <1>1
<1>5. Callers(tab, held, d) BY <1>1, <1>2, <1>3, <1>4 DEF Callers, Closes
<1>6. Sound(tab, held, d) BY <1>1, <1>2, <1>3, <1>5, NewCall
<1> QED BY <1>1, <1>6 DEF IInv

LEMMA FinStep == ASSUME IInv, SendFin PROVE IInv'
<1> USE Numbers
<1> DEFINE d == [call EXCEPT !.op = "last"]
<1>1. /\ call.op = "flush" /\ tab' = [tab EXCEPT ![call.kill].st = STATE_LAST_ACK]
      /\ call' = d /\ held' = held /\ up' \in BOOLEAN
  BY DEF SendFin
<1>2. /\ call \in Calls /\ call.kill \in Slot /\ tab[call.kill].st # STATE_BOUND
      /\ Sound(tab, held, call)
  BY <1>1 DEF IInv, Sound, Typed, Callers, Closes
<1>3. /\ d \in Calls /\ d.op = "last" /\ d.fd = call.fd /\ d.i = call.i /\ d.kill = call.kill
  BY <1>2 DEF Calls, Ops
<1> HIDE DEF d
<1>4. STATE_LAST_ACK \in States /\ STATE_LAST_ACK \notin {STATE_BOUND, STATE_LISTEN} BY DEF States
<1>5. Sound(tab', held, call) BY <1>1, <1>2, <1>4, SetState
<1>6. Callers(tab', held, d) BY <1>1, <1>3, <1>5 DEF Sound, Callers, Closes
<1>7. Sound(tab', held, d) BY <1>1, <1>3, <1>5, <1>6, NewCall
<1> QED BY <1>1, <1>7 DEF IInv

-----------------------------------------------------------------------------
(* What the stack does between any two steps of the program.                *)
LEMMA SegmentStep == ASSUME IInv, NEW s \in Slot, Segment(s) PROVE IInv'
<1>1. PICK m \in Moves :
        /\ tab[s].st = m[1] /\ tab' = [tab EXCEPT ![s].st = m[2]]
        /\ UNCHANGED <<held, call, up>>
  BY DEF Segment, Stack
<1>2. /\ m[1] # STATE_BOUND /\ m[2] \in States
      /\ m[2] \notin {STATE_BOUND, STATE_LISTEN}
  BY DEF Moves, States
<1>3. Sound(tab', held, call) BY <1>1, <1>2, SetState DEF IInv
<1> QED BY <1>1, <1>3 DEF IInv

LEMMA ResetStep == ASSUME IInv, NEW s \in Slot, Reset(s) PROVE IInv'
<1>1. /\ tab[s].st > STATE_NOTINIT /\ tab' = [tab EXCEPT ![s].st = STATE_CLOSED]
      /\ UNCHANGED <<held, call, up>>
  BY DEF Reset, Stack
<1>2. /\ tab[s].st # STATE_BOUND /\ STATE_CLOSED \in States
      /\ STATE_CLOSED \notin {STATE_BOUND, STATE_LISTEN}
  BY <1>1 DEF States
<1>3. Sound(tab', held, call) BY <1>1, <1>2, SetState DEF IInv
<1> QED BY <1>1, <1>3 DEF IInv

LEMMA NukeStep ==
  ASSUME IInv, NEW s \in Slot, tab[s].st # STATE_BOUND, Stack(Nuke(tab, s))
  PROVE  IInv'
<1>1. Sound(Nuke(tab, s), held, call) BY NukeAny DEF IInv
<1> QED BY <1>1 DEF Stack, IInv

LEMMA LastStep == ASSUME IInv, NEW s \in Slot, LastSegment(s) PROVE IInv'
<1>1. tab[s].st # STATE_BOUND /\ Stack(Nuke(tab, s)) BY DEF LastSegment
<1> QED BY <1>1, NukeStep

LEMMA ExpireStep == ASSUME IInv, NEW s \in Slot, Expire(s) PROVE IInv'
<1>1. tab[s].st # STATE_BOUND /\ Stack(Nuke(tab, s)) BY DEF Expire
<1> QED BY <1>1, NukeStep

LEMMA CollectStep == ASSUME IInv, NEW s \in Slot, Collect(s) PROVE IInv'
<1>1. tab[s].st # STATE_BOUND /\ Stack(Nuke(tab, s)) BY DEF Collect
<1> QED BY <1>1, NukeStep

-----------------------------------------------------------------------------
(* findfreeslot numbers the closed slots from the lowest on, without gaps.  *)
LEMMA Ranks ==
  /\ Cardinality(FreeSlots) \in 0 .. NSlot
  /\ \A r \in FreeSlots : Rank(r) \in 1 .. Cardinality(FreeSlots)
  /\ \A r, x \in FreeSlots : Rank(r) = Rank(x) => r = x
  /\ \A i \in 1 .. Cardinality(FreeSlots) : \E r \in FreeSlots : Rank(r) = i
<1> DEFINE F == FreeSlots
           n == Cardinality(F)
           B(x) == {r \in F : r <= x}
           rank == [r \in F |-> Rank(r)]
<1>1. F \in SUBSET Slot BY DEF FreeSlots
<1>2. IsFiniteSet(Slot) /\ Cardinality(Slot) = NSlot
  <2>1. NSlot \in Int /\ ~(1 > NSlot) /\ NSlot - 1 + 1 = NSlot BY Numbers
  <2> QED BY <2>1, FS_Interval, Numbers
<1> HIDE DEF F
<1>3. IsFiniteSet(F) /\ n <= NSlot BY <1>1, <1>2, FS_Subset
<1>4. n \in 0 .. NSlot BY <1>3, FS_CardinalityType, Numbers
<1>5. ASSUME NEW x \in F
      PROVE  IsFiniteSet(B(x)) /\ Cardinality(B(x)) \in 1 .. n /\ x \in B(x)
  <2>1. B(x) \in SUBSET F /\ x \in B(x) BY <1>1, Numbers
  <2>2. IsFiniteSet(B(x)) /\ Cardinality(B(x)) <= n BY <2>1, <1>3, FS_Subset
  <2>3. Cardinality(B(x)) \in Nat /\ Cardinality(B(x)) # 0
    BY <2>1, <2>2, FS_CardinalityType, FS_EmptySet
  <2> QED BY <2>1, <2>2, <2>3, <1>4
<1>6. \A x \in F : Rank(x) = Cardinality(B(x)) BY DEF Rank, F
<1>7. ASSUME NEW r \in F, NEW x \in F, r < x PROVE Cardinality(B(r)) # Cardinality(B(x))
  <2>1. \A y \in F : y \in Nat BY <1>1, Numbers
  <2>2. \A y \in F : y <= r => y <= x /\ y # x BY <2>1, <1>7
  <2>3. B(r) \in SUBSET B(x) /\ x \notin B(r) /\ x \in B(x) BY <2>2, <1>5
  <2> QED BY <2>3, <1>5, FS_Subset
<1>8. ASSUME NEW r \in F, NEW x \in F, Rank(r) = Rank(x) PROVE r = x
  <2>1. r \in Nat /\ x \in Nat BY <1>1, Numbers
  <2>2. ~(r < x) /\ ~(x < r) BY <1>6, <1>7, <1>8
  <2> QED BY <2>1, <2>2
<1>9. rank \in Injection(F, 1 .. n)
  <2>1. rank \in [F -> 1 .. n] BY <1>5, <1>6
  <2>2. \A a, b \in F : rank[a] = rank[b] => a = b BY <1>8
  <2> QED BY <2>1, <2>2 DEF Injection, IsInjective
<1>10. IsFiniteSet(1 .. n) /\ Cardinality(1 .. n) = n
  <2>1. n \in Int /\ 1 \in Int /\ (1 > n => n = 0) /\ n - 1 + 1 = n BY <1>4
  <2> HIDE DEF n
  <2> QED BY <2>1, FS_Interval
<1>11. rank \in Surjection(F, 1 .. n) BY <1>9, <1>10, FS_Injection
<1>12. \A i \in 1 .. n : \E r \in F : Rank(r) = i BY <1>11 DEF Surjection
<1> QED BY <1>4, <1>5, <1>6, <1>8, <1>12 DEF F

(* A socket listens, on a new queue, with the lowest closed slots as its    *)
(* children; those it had are left behind.                                  *)
LEMMA ListenStep ==
  ASSUME IInv, NEW s \in Slot, NEW backlog \in 1 .. MaxBacklog, AJK_listen(s, backlog)
  PROVE  IInv'
<1> USE Numbers
<1> DEFINE t == Leave(tab, Children(tab, s))
<1>1. PICK k \in 0 .. backlog :
        k <= Cardinality(FreeSlots) /\ tab' = Listening(t, s, backlog, k)
  BY DEF AJK_listen
<1>2. /\ call = Idle /\ call.op = "none" /\ UNCHANGED <<held, call, up>>
      /\ tab[s].st \in {STATE_NOTINIT, STATE_BIND, STATE_BOUND}
  BY DEF AJK_listen, Ready, Idle
<1>3. /\ Sound(t, held, call)
      /\ \A x \in Slot : /\ t[x].st = tab[x].st /\ t[x].par = tab[x].par
                         /\ t[x].left <=> (x \in Children(tab, s) \/ tab[x].left)
  BY LeaveThem DEF IInv
<1> DEFINE N == {x \in FreeSlots : Rank(x) <= k}
           u == Listening(t, s, backlog, k)
           Place(i) == CHOOSE r \in FreeSlots : Rank(r) = i
           q == [i \in 1 .. MaxBacklog |-> IF i <= k THEN Place(i) ELSE 0]
           b == [t[s] EXCEPT !.st = STATE_BOUND, !.room = backlog, !.socks = k, !.queue = q]
           n(x) == [Buffers(Cleared(t[x])) EXCEPT !.st = STATE_LISTEN, !.par = s, !.pos = Rank(x)]
<1> HIDE DEF t
<1>4. /\ N \subseteq Slot /\ s \notin N /\ s # 0
      /\ \A x \in N : t[x].st = STATE_CLOSED /\ Rank(x) \in 1 .. k
      /\ \A x \in N, y \in N : Rank(x) = Rank(y) => x = y
  <2>1. \A x \in FreeSlots : x \in Slot /\ tab[x].st = STATE_CLOSED BY DEF FreeSlots
  <2>2. s \notin FreeSlots BY <1>2, <2>1
  <2> HIDE DEF t
  <2>3. \A x \in FreeSlots : t[x].st = STATE_CLOSED BY <1>3, <2>1
  <2>4. \A x \in FreeSlots : Rank(x) \in 1 .. Cardinality(FreeSlots) BY Ranks
  <2>5. Cardinality(FreeSlots) \in Nat BY Ranks
  <2>6. \A x \in N : Rank(x) \in 1 .. k BY <2>4, <2>5
  <2> QED BY <2>1, <2>2, <2>3, <2>6, Ranks
<1>5. \A x \in N : Place(Rank(x)) = x BY <1>4, Ranks
<1>6. q \in Queue
  <2>1. ASSUME NEW i \in 1 .. MaxBacklog, i <= k PROVE Place(i) \in Slot
    <3>1. i \in 1 .. Cardinality(FreeSlots) BY <1>1, <2>1, Ranks
    <3>2. \E r \in FreeSlots : Rank(r) = i BY <3>1, Ranks
    <3>3. Place(i) \in FreeSlots BY <3>2
    <3> QED BY <3>3 DEF FreeSlots
  <2> HIDE DEF Place
  <2> QED BY <2>1 DEF Queue
<1>t. t \in [Slot -> Records] BY <1>3 DEF Sound, Typed
<1>7. t[s] \in Records /\ k \in 0 .. MaxBacklog /\ backlog \in 0 .. MaxBacklog BY <1>t
<1>8. /\ b \in Records /\ b.st = STATE_BOUND /\ b.par = t[s].par /\ b.pos = t[s].pos
      /\ b.room = backlog /\ b.socks = k /\ b.queue = q
      /\ b.left = t[s].left /\ b.wild = t[s].wild
  <2>1. STATE_BOUND \in States BY DEF States
  <2> HIDE DEF q
  <2> QED BY <1>6, <1>7, <2>1 DEF Records
<1>9. ASSUME NEW x \in N
      PROVE  /\ n(x) \in Records /\ n(x).st = STATE_LISTEN /\ n(x).par = s /\ n(x).pos = Rank(x)
             /\ n(x).room = 0 /\ n(x).socks = 0 /\ ~n(x).left /\ ~n(x).wild
  <2> DEFINE a == Cleared(t[x])
             e == Buffers(a)
  <2>1. a \in Records /\ ~a.left /\ ~a.wild BY <1>4, <1>t, Fields, RecordCleared
  <2> HIDE DEF a
  <2>2. e \in Records /\ e.room = 0 /\ e.socks = 0 /\ ~e.left /\ ~e.wild BY <2>1, BuffersGone
  <2>3. n(x) = [e EXCEPT !.st = STATE_LISTEN, !.par = s, !.pos = Rank(x)] BY DEF a
  <2>4. STATE_LISTEN \in States /\ s \in 0 .. NSlot /\ Rank(x) \in 0 .. MaxBacklog
    BY <1>4, <1>7 DEF States
  <2> HIDE DEF e, n
  <2> QED BY <2>2, <2>3, <2>4 DEF Records
<1>10. LET r == Buffers(t[s])
       IN  /\ r \in Records /\ r.st = t[s].st /\ r.par = t[s].par /\ r.pos = t[s].pos
           /\ r.room = 0 /\ r.socks = 0 /\ r.left = t[s].left /\ r.wild = t[s].wild
  BY <1>7, BuffersGone
<1>11. /\ u \in [Slot -> Records]
       /\ u[s] = IF k = 0 THEN Buffers(t[s]) ELSE b
       /\ \A x \in N : u[x] = n(x)
       /\ \A x \in Slot \ (N \cup {s}) : u[x] = t[x]
  <2>1. u[s] = IF k = 0 THEN Buffers(t[s]) ELSE b BY DEF Listening
  <2>2. \A x \in N : u[x] = n(x) BY <1>4 DEF Listening
  <2>3. \A x \in Slot \ (N \cup {s}) : u[x] = t[x] BY DEF Listening
  <2>4. ASSUME NEW x \in Slot PROVE u[x] \in Records
    <3> HIDE DEF u, b, n
    <3> QED BY <1>8, <1>9, <1>10, <1>t, <2>1, <2>2, <2>3
  <2> QED BY <2>1, <2>2, <2>3, <2>4 DEF Listening
<1> HIDE DEF u, b, n, N, q
<1>12. /\ u[s].par = t[s].par /\ u[s].pos = t[s].pos
       /\ u[s].left = t[s].left /\ u[s].wild = t[s].wild
       /\ u[s].st # STATE_LISTEN /\ u[s].socks <= u[s].room
       /\ k # 0 => u[s].st = STATE_BOUND /\ u[s].socks = k /\ u[s].queue = q
  BY <1>2, <1>3, <1>7, <1>8, <1>10, <1>11
<1>13. ASSUME NEW x \in N
       PROVE  /\ u[x].st = STATE_LISTEN /\ u[x].par = s /\ u[x].pos = Rank(x)
              /\ u[x].room = 0 /\ u[x].socks = 0 /\ ~u[x].left /\ ~u[x].wild
  BY <1>9, <1>11
<1>14. ASSUME NEW x \in N PROVE Known(u, x) /\ Stands(u, x) /\ k # 0
  <2>1. Rank(x) \in 1 .. k /\ Rank(x) \in 1 .. MaxBacklog /\ k # 0 BY <1>4, <1>7
  <2>2. q[Rank(x)] = x BY <2>1, <1>5 DEF q
  <2> QED BY <2>1, <2>2, <1>4, <1>12, <1>13 DEF Known, Stands
<1>15. ASSUME NEW x \in Slot, x \notin N, Known(u, x)
       PROVE  /\ Known(t, x) /\ u[x].par = t[x].par /\ u[x].pos = t[x].pos
              /\ t[x].par \in Slot /\ t[x].par # s /\ u[t[x].par] = t[t[x].par]
  <2>1. /\ u[x].par = t[x].par /\ u[x].pos = t[x].pos /\ u[x].left = t[x].left
    BY <1>11, <1>12, <1>15
  <2>2. Known(t, x) BY <2>1, <1>15 DEF Known
  <2>3. t[x].par \in Slot BY <1>t, <2>2, Fields DEF Known
  <2>4. t[x].par # s BY <2>2, <1>3 DEF Known, Children
  <2>5. t[t[x].par].st = STATE_BOUND BY <2>2, <1>3 DEF Sound, Kept
  <2>6. t[x].par \notin N
    <3> SUFFICES ASSUME t[x].par \in N PROVE FALSE OBVIOUS
    <3>1. t[t[x].par].st = STATE_CLOSED BY <1>4
    <3> QED BY <2>5, <3>1
  <2> QED BY <2>1, <2>2, <2>3, <2>4, <2>6, <1>11
<1>16. Typed(u, held, call)
  <2>1. Typed(t, held, call) BY <1>3 DEF Sound
  <2>2. ASSUME NEW x \in Slot PROVE u[x].par # x /\ u[x].socks <= u[x].room /\ (u[x].wild => u[x].left)
    <3>1. CASE x \in N BY <3>1, <1>4, <1>13
    <3>2. CASE x = s BY <3>2, <2>1, <1>12 DEF Typed
    <3>3. CASE x \notin N \cup {s} BY <3>3, <2>1, <1>11 DEF Typed
    <3> QED BY <3>1, <3>2, <3>3
  <2> QED BY <2>1, <2>2, <1>11 DEF Typed
<1>17. ASSUME NEW d \in Slot, d \notin N
       PROVE  u[d].par = t[d].par /\ u[d].pos = t[d].pos /\ u[d].left = t[d].left
  BY <1>11, <1>12, <1>17
<1>18. Kept(u, held)
  <2> SUFFICES ASSUME NEW x \in Slot, Known(u, x)
               PROVE  /\ u[u[x].par].st = STATE_BOUND
                      /\ u[x].pos \in 1 .. u[u[x].par].socks
                      /\ Stands(u, x) \/ held[x] > 0
                      /\ \A d \in Slot : u[d].par = u[x].par /\ u[d].pos = u[x].pos => d = x \/ u[d].left
    BY DEF Kept
  <2>1. CASE x \in N
    <3>1. u[x].par = s /\ u[x].pos = Rank(x) /\ Rank(x) \in 1 .. k BY <2>1, <1>4, <1>13
    <3>2. u[s].st = STATE_BOUND /\ u[s].socks = k /\ Stands(u, x) BY <2>1, <1>12, <1>14
    <3>3. ASSUME NEW d \in Slot, u[d].par = s, u[d].pos = Rank(x) PROVE d = x \/ u[d].left
      <4>1. CASE d \in N BY <4>1, <2>1, <3>3, <1>4, <1>13
      <4>2. CASE d \notin N
        <5>1. t[d].par = s BY <4>2, <3>3, <1>17
        <5>2. t[d].left BY <5>1, <1>3 DEF Children
        <5> QED BY <5>2, <4>2, <1>17
      <4> QED BY <4>1, <4>2
    <3> QED BY <3>1, <3>2, <3>3
  <2>2. CASE x \notin N
    <3>1. /\ Known(t, x) /\ u[x].par = t[x].par /\ u[x].pos = t[x].pos
          /\ t[x].par \in Slot /\ t[x].par # s /\ u[t[x].par] = t[t[x].par]
      BY <2>2, <1>15
    <3>2. /\ t[t[x].par].st = STATE_BOUND
          /\ t[x].pos \in 1 .. t[t[x].par].socks
          /\ Stands(t, x) \/ held[x] > 0
          /\ \A d \in Slot : t[d].par = t[x].par /\ t[d].pos = t[x].pos => d = x \/ t[d].left
      BY <3>1, <1>3 DEF Sound, Kept
    <3>3. ASSUME NEW d \in Slot, u[d].par = u[x].par, u[d].pos = u[x].pos PROVE d = x \/ u[d].left
      <4>1. d \notin N BY <3>1, <3>3, <1>13
      <4> QED BY <4>1, <3>1, <3>2, <3>3, <1>17
    <3> QED BY <3>1, <3>2, <3>3 DEF Stands
  <2> QED BY <2>1, <2>2
<1>19. Listeners(u, call)
  <2> SUFFICES ASSUME NEW x \in Slot, u[x].st = STATE_LISTEN, ~u[x].left
               PROVE  u[x].par # 0 /\ Stands(u, x)
    BY DEF Listeners
  <2>1. CASE x \in N BY <2>1, <1>14 DEF Known
  <2>2. CASE x \notin N
    <3>1. x # s /\ u[x] = t[x] BY <2>2, <1>11, <1>12
    <3>2. t[x].par # 0 /\ Stands(t, x) BY <3>1, <1>2, <1>3 DEF Sound, Listeners
    <3>3. Known(u, x) BY <3>1, <3>2 DEF Known
    <3> QED BY <2>2, <3>1, <3>2, <3>3, <1>15 DEF Stands
  <2> QED BY <2>1, <2>2
<1>20. Callers(u, held, call) BY <1>2, IdleCall
<1>21. Sound(u, held, call) BY <1>16, <1>18, <1>19, <1>20 DEF Sound
<1> QED BY <1>1, <1>2, <1>21 DEF IInv, u

-----------------------------------------------------------------------------
(* Every step of the program and of the stack.                              *)
LEMMA StepIInv == ASSUME IInv, [Next]_vars PROVE IInv'
<1>1. CASE AJK_socket BY <1>1, SocketStep
<1>2. CASE ConnectReturns BY <1>2, ConnectReturnsStep
<1>3. CASE ScanNext BY <1>3, ScanStep
<1>4. CASE Ended BY <1>4 DEF Ended, vars, IInv
<1>5. CASE NextChild BY <1>5, NextChildStep
<1>6. CASE SockAclose BY <1>6, SockAcloseStep
<1>7. CASE FlushSocket BY <1>7, FlushStep
<1>8. CASE SendFin BY <1>8, FinStep
<1>9. CASE Nukeit BY <1>9, NukeitStep
<1>10. ASSUME NEW s \in Slot,
              \/ AJK_connect(s) \/ AJK_bind(s, FALSE) \/ AJK_bind(s, TRUE)
              \/ AJK_accept(s) \/ AJK_sockclose(s)
              \/ \E backlog \in 1 .. MaxBacklog : AJK_listen(s, backlog)
              \/ Segment(s) \/ LastSegment(s) \/ Reset(s) \/ Expire(s) \/ Collect(s)
       PROVE  IInv'
  <2>1. CASE AJK_connect(s) BY <2>1, ConnectStep
  <2>2. CASE AJK_bind(s, FALSE) BY <2>2, BindStep
  <2>3. CASE AJK_bind(s, TRUE) BY <2>3, BindStep
  <2>4. CASE AJK_accept(s) BY <2>4, AcceptStep
  <2>5. CASE AJK_sockclose(s) BY <2>5, SockcloseStep
  <2>6. CASE \E backlog \in 1 .. MaxBacklog : AJK_listen(s, backlog) BY <2>6, ListenStep
  <2>7. CASE Segment(s) BY <2>7, SegmentStep
  <2>8. CASE LastSegment(s) BY <2>8, LastStep
  <2>9. CASE Reset(s) BY <2>9, ResetStep
  <2>10. CASE Expire(s) BY <2>10, ExpireStep
  <2>11. CASE Collect(s) BY <2>11, CollectStep
  <2> QED BY <1>10, <2>1, <2>2, <2>3, <2>4, <2>5, <2>6, <2>7, <2>8, <2>9, <2>10, <2>11
<1>11. CASE UNCHANGED vars BY <1>11 DEF vars, IInv
<1> QED BY <1>1, <1>2, <1>3, <1>4, <1>5, <1>6, <1>7, <1>8, <1>9, <1>10, <1>11 DEF Next

LEMMA Invariance == Spec => []IInv
<1>1. Init => IInv BY InitIInv
<1>2. IInv /\ [Next]_vars => IInv' BY StepIInv
<1> QED BY <1>1, <1>2, PTL DEF Spec

(* The table: queue, children and parents agree, and whatever answers SYNs  *)
(* can be accepted, is being closed or was left behind; however often a     *)
(* socket is listened on, in whatever order sockets are closed and whenever *)
(* slots are handed out (socket.c:768, tcp.c:68-75).                        *)
THEOREM TableAgrees == Spec => []TableSound
<1>1. IInv => TableSound
  <2> SUFFICES ASSUME IInv PROVE TableSound OBVIOUS
  <2>1. TypeOK BY DEF TypeOK, IInv, Sound, Typed, Records, Calls
  <2>2. ChildrenKnown
    <3>1. Kept(tab, held) BY DEF IInv, Sound
    <3> QED BY <3>1 DEF ChildrenKnown, Kept, Known, Stands, InPlace, Child
  <2>3. ListenersQueued
    <3>1. Listeners(tab, call) BY DEF IInv, Sound
    <3> QED BY <3>1 DEF ListenersQueued, Listeners, Stands, InPlace
  <2> QED BY <2>1, <2>2, <2>3 DEF TableSound
<1> QED BY <1>1, Invariance, PTL

(* nuke_tcp_socket writes a child's number into a queue, unless the child   *)
(* was left behind by its listener (tcp.c:71-75).                           *)
THEOREM OnlyTheLeftWrite == Spec => []NoWildWrite
<1>1. IInv => NoWildWrite BY DEF IInv, Sound, Typed, NoWildWrite
<1> QED BY <1>1, Invariance, PTL
=============================================================================
