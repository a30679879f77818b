-------------------------- MODULE Programs_proofs --------------------------
(***************************************************************************)
(* Proofs about the programs above the stack.  The web server's table of   *)
(* streams, for any number of streams, sockets, blocks and rounds, also    *)
(* when sockets listen again while streams hold them.  The FTP client, for *)
(* files of any size; of the server is asked that it begins a transfer     *)
(* with 150.                                                               *)
(***************************************************************************)
EXTENDS Httpd, Ftp, FiniteSetTheorems, SequenceTheorems, TLAPS

LEMMA Numbers == /\ MaxStreams \in Nat \ {0} /\ Limit \in Nat \ {0} /\ Blocks \in Nat
                 /\ Total \in 1 .. MaxStreams /\ IsFiniteSet(Children)
                 /\ -1 \notin Children
BY HttpdAssumption DEF Total

(* There are as many streams below Total as sockets: while one socket is in *)
(* the listener's queue, not all of them hold one.                          *)
LEMMA SomeFree ==
  ASSUME TypeOK, OneStreamEach, stray = {}, NEW c \in Children, child[c].queued
  PROVE  \E k \in 0 .. Total - 1 : stream[k] = -1
<1> USE Numbers
<1>1. SUFFICES ASSUME \A k \in 0 .. Total - 1 : stream[k] # -1 PROVE FALSE
  OBVIOUS
<1> DEFINE S == 0 .. Total - 1
           T == Children \ {c}
           f == [k \in S |-> stream[k]]
<1>2. S \subseteq Streams
  BY DEF Streams
<1>7. \A k \in Streams : stream[k] # -1 => Holders(stream[k]) = {k} /\ ~child[stream[k]].queued
  BY DEF OneStreamEach
<1>3. f \in [S -> T]
  <2>1. ASSUME NEW k \in S PROVE stream[k] \in T
    BY <1>1, <1>2, <1>7 DEF TypeOK
  <2> QED BY <2>1
<1>4. IsFiniteSet(S) /\ Cardinality(S) = Total
  BY FS_Interval
<1>5. IsFiniteSet(T) /\ Cardinality(T) = Total - 1
  BY FS_RemoveElement DEF Total
<1>6. PICK x \in S, y \in S : x # y /\ f[x] = f[y]
  <2> HIDE DEF f, S, T
  <2>1. Cardinality(T) < Cardinality(S)
    BY <1>4, <1>5
  <2> QED BY <1>3, <1>4, <1>5, <2>1, FS_PigeonHole
<1> QED BY <1>1, <1>2, <1>6, <1>7 DEF Holders

-----------------------------------------------------------------------------
(* The inductive invariant: a connection is accepted into a stream that is  *)
(* free or past the array, and a stream that has been inactive for too long *)
(* is being ended.                                                          *)
Places == /\ i \in Streams \/ pc \in {"accept", "undefined"}
          /\ pc = "accept" /\ i \in Streams => stream[i] = -1
          /\ pc = "visit" /\ active[i] = Limit => ptr[i] = "end"
          /\ pc = "header" => stream[i] # -1

IInv == StreamsSound /\ Places

LEMMA InitIInv == Init => IInv
<1> SUFFICES ASSUME Init PROVE IInv
  OBVIOUS
<1> USE Numbers
<1>1. Idle \in Sockets
  BY DEF Idle, Sockets
<1>2. TypeOK
  BY <1>1 DEF Init, TypeOK, Streams
<1>3. StreamFound /\ OneStreamEach /\ FilesTied /\ Places
  BY DEF Init, StreamFound, OneStreamEach, FilesTied, Places, Streams
<1> QED BY <1>2, <1>3 DEF IInv, StreamsSound

(* What the stack and the clients do to the sockets, the table does not     *)
(* see, as long as every socket of a stream that is queued again is a stray.*)
LEMMA Outside ==
  ASSUME IInv, child' \in [Children -> Sockets], UNCHANGED <<progVars, pc, i>>,
         stray \subseteq stray', stray' \subseteq Children,
         \A k \in Streams : stream[k] # -1 /\ child'[stream[k]].queued => stream[k] \in stray'
  PROVE  IInv'
<1>1. UNCHANGED <<stream, ptr, file, active, pc, i>>
  BY DEF progVars
<1>2. TypeOK'
  BY <1>1 DEF IInv, StreamsSound, TypeOK
<1>3. StreamFound' /\ FilesTied' /\ Places'
  BY <1>1 DEF IInv, StreamsSound, StreamFound, FilesTied, Places
<1>4. OneStreamEach'
  BY <1>1 DEF IInv, StreamsSound, OneStreamEach, Holders
<1> QED BY <1>2, <1>3, <1>4 DEF IInv, StreamsSound

LEMMA ClientStep == ASSUME IInv, Clients PROVE IInv'
<1>1. child \in [Children -> Sockets] /\ stray \subseteq Children
  BY DEF IInv, StreamsSound, TypeOK
<1>2. PICK c \in Children :
           \/ Collect(c) \/ GiveUp(c)
           \/ /\ \/ Connect(c) \/ Acknowledge(c) \/ Fin(c) \/ Reset(c)
                 \/ \E d \in Asked \cup {"part"} : Request(c, d)
              /\ UNCHANGED stray
  BY DEF Clients
<1>3. \A k \in Streams : stream[k] # -1 /\ stream[k] \notin stray =>
           stream[k] \in Children /\ ~child[stream[k]].queued
  BY DEF IInv, StreamsSound, TypeOK, OneStreamEach
<1>4. UNCHANGED <<progVars, pc, i>>
  BY DEF Clients
<1>5. CASE Collect(c) \/ GiveUp(c)
  <2>1. child' = [child EXCEPT ![c] = Idle] /\ stray' = (IF Holders(c) = {} THEN stray ELSE stray \cup {c})
    BY <1>5 DEF Collect, GiveUp, Reclaim
  <2>2. child' \in [Children -> Sockets]
    BY <1>1, <2>1 DEF Idle, Sockets
  <2>3. stray \subseteq stray' /\ stray' \subseteq Children
    BY <1>1, <2>1
  <2>4. ASSUME NEW k \in Streams, stream[k] # -1, child'[stream[k]].queued, stream[k] \notin stray
        PROVE  stream[k] \in stray'
    <3>1. stream[k] = c
      BY <1>1, <1>3, <2>1, <2>4
    <3>2. k \in Holders(c)
      BY <3>1 DEF Holders
    <3> QED BY <2>1, <3>1, <3>2
  <2> QED BY <1>4, <2>2, <2>3, <2>4, Outside
<1>6. ASSUME stray' = stray, NEW d \in Asked \cup {"part"},
             Connect(c) \/ Acknowledge(c) \/ Fin(c) \/ Reset(c) \/ Request(c, d)
      PROVE  IInv'
  <2>1. /\ child' \in [Children -> Sockets]
        /\ \A b \in Children : child'[b].queued = child[b].queued
    <3>1. d \in Requests \cup {"part"}
      BY HttpdAssumption DEF Requests
    <3>2. CASE Connect(c)
      BY <1>1, <3>2 DEF Connect, Sockets
    <3>3. CASE Acknowledge(c)
      BY <1>1, <3>3 DEF Acknowledge, Sockets
    <3>4. CASE Fin(c)
      BY <1>1, <3>4 DEF Fin, Sockets
    <3>5. CASE Reset(c)
      BY <1>1, <3>5 DEF Reset, Sockets
    <3>6. CASE Request(c, d)
      BY <1>1, <3>1, <3>6 DEF Request, Sockets
    <3> QED BY <1>6, <3>2, <3>3, <3>4, <3>5, <3>6
  <2>2. \A k \in Streams : stream[k] # -1 /\ child'[stream[k]].queued => stream[k] \in stray'
    BY <1>3, <1>6, <2>1
  <2> QED BY <1>1, <1>4, <1>6, <2>1, <2>2, Outside
<1> QED BY <1>2, <1>5, <1>6

-----------------------------------------------------------------------------
(* Accepting.                                                               *)
LEMMA AcceptReadyStep == ASSUME IInv, AcceptReady PROVE IInv'
<1> USE Numbers
<1>1. UNCHANGED <<child, stream, ptr, file, active, stray>> /\ pc = "loop" /\ i \in Streams
  BY DEF AcceptReady, progVars, IInv, Places
<1>2. CASE Acceptable = {}
  <2>1. pc' = "again" /\ UNCHANGED i
    BY <1>2 DEF AcceptReady
  <2> QED BY <1>1, <2>1 DEF IInv, StreamsSound, TypeOK, StreamFound, OneStreamEach, Holders, FilesTied, Places
<1>3. CASE Acceptable # {}
  <2>1. pc' = "accept" /\ i' \in 0 .. MaxStreams /\ FreeStream(i')
    BY <1>3 DEF AcceptReady
  <2>2. PICK c \in Children : child[c].queued
    BY <1>3 DEF Acceptable
  <2>3. ASSUME stray = {} PROVE i' < Total
    <3>1. PICK k \in 0 .. Total - 1 : stream[k] = -1
      BY <2>2, <2>3, SomeFree DEF IInv, StreamsSound
    <3>2. \A l \in 0 .. i' - 1 : stream[l] # -1
      BY <2>1 DEF FreeStream
    <3>3. k \in Nat /\ i' \in Nat /\ Total \in Nat /\ k < Total
      BY <2>1, <3>1
    <3>4. k < i' => k \in 0 .. i' - 1
      <4>1. \A a, b \in Nat : a < b => a \in 0 .. b - 1
        OBVIOUS
      <4> QED BY <3>3, <4>1
    <3>5. ~(k < i')
      BY <3>1, <3>2, <3>4
    <3> HIDE Numbers
    <3> QED BY <3>3, <3>5
  <2>4. TypeOK'
    BY <1>1, <2>1 DEF IInv, StreamsSound, TypeOK
  <2>5. StreamFound'
    BY <1>1, <2>1, <2>3 DEF StreamFound
  <2>6. OneStreamEach' /\ FilesTied' /\ Places'
    BY <1>1, <2>1 DEF IInv, StreamsSound, OneStreamEach, Holders, FilesTied, Places, FreeStream
  <2> QED BY <2>4, <2>5, <2>6 DEF IInv, StreamsSound
<1> QED BY <1>2, <1>3

LEMMA AcceptStep == ASSUME IInv, Accept PROVE IInv'
<1> USE Numbers
<1>1. /\ pc = "accept" /\ pc' = "again" /\ UNCHANGED <<file, active, i, stray>>
      /\ i \in Streams /\ ptr' = [ptr EXCEPT ![i] = "none"]
  BY DEF Accept
<1>2. /\ child \in [Children -> Sockets] /\ stream \in [Streams -> Children \cup {-1}]
      /\ ptr \in [Streams -> {"none", "some", "end"}]
      /\ stream[i] = -1 /\ file[i] = -1
  BY <1>1 DEF IInv, StreamsSound, TypeOK, FilesTied, Places
<1>3. \A k \in Streams : stream[k] # -1 /\ stream[k] \notin stray =>
           /\ stream[k] \in Children /\ ~child[stream[k]].queued
           /\ \A l \in Streams : stream[l] = stream[k] => l = k
  BY DEF IInv, StreamsSound, TypeOK, OneStreamEach, Holders
<1>4. CASE Acceptable = {}
  <2>1. UNCHANGED <<child, stream>>
    BY <1>4 DEF Accept
  <2>2. TypeOK'
    BY <1>1, <1>2, <2>1 DEF IInv, StreamsSound, TypeOK
  <2>3. StreamFound' /\ OneStreamEach' /\ Places'
    BY <1>1, <2>1 DEF IInv, StreamsSound, StreamFound, OneStreamEach, Holders, Places
  <2>4. FilesTied'
    BY <1>1, <1>2, <2>1 DEF IInv, StreamsSound, FilesTied
  <2> QED BY <2>2, <2>3, <2>4 DEF IInv, StreamsSound
<1>5. CASE Acceptable # {}
  <2>1. PICK c \in Acceptable : /\ stream' = [stream EXCEPT ![i] = c]
                                /\ child' = [child EXCEPT ![c].queued = FALSE]
    BY <1>5 DEF Accept
  <2>2. c \in Children /\ child[c].queued
    BY DEF Acceptable
  <2>3. /\ child' \in [Children -> Sockets] /\ ~child'[c].queued
        /\ \A b \in Children : b # c => child'[b] = child[b]
    <3> DEFINE r == [child[c] EXCEPT !.queued = FALSE]
    <3>1. child \in [Children -> Sockets] /\ child[c] \in Sockets
      BY <1>2, <2>2
    <3>2. r \in Sockets /\ ~r.queued
      BY <3>1 DEF Sockets
    <3>3. child' = [child EXCEPT ![c] = r]
      BY <2>1, <3>1
    <3> HIDE DEF r
    <3> QED BY <2>2, <3>1, <3>2, <3>3
  <2>4. stream' \in [Streams -> Children \cup {-1}]
    BY <1>2, <2>1, <2>2
  <2>5. \A k \in Streams : stream'[k] = IF k = i THEN c ELSE stream[k]
    BY <1>2, <2>1
  <2>6. TypeOK'
    BY <1>1, <1>2, <2>3, <2>4 DEF IInv, StreamsSound, TypeOK
  <2>7. StreamFound'
    BY <1>1 DEF StreamFound
  <2>8. c \notin stray => \A k \in Streams : stream[k] # c
    BY <1>3, <2>2, Numbers
  <2>9. OneStreamEach'
    <3> SUFFICES ASSUME NEW k \in Streams, stream'[k] # -1, stream'[k] \notin stray
                 PROVE  /\ ~child'[stream'[k]].queued
                        /\ \A l \in Streams : stream'[l] = stream'[k] => l = k
      BY <1>1 DEF OneStreamEach, Holders
    <3>1. CASE k = i
      BY <2>3, <2>5, <2>8, <3>1
    <3>2. CASE k # i
      <4>1. stream'[k] = stream[k]
        BY <2>5, <3>2
      <4>2. stream[k] # c
        BY <2>8, <4>1
      <4> QED BY <1>3, <2>3, <2>5, <4>1, <4>2
    <3> QED BY <3>1, <3>2
  <2>10. FilesTied'
    BY <1>1, <1>2, <2>5 DEF IInv, StreamsSound, FilesTied
  <2>11. Places'
    BY <1>1 DEF Places
  <2> QED BY <2>6, <2>7, <2>9, <2>10, <2>11 DEF IInv, StreamsSound
<1> QED BY <1>4, <1>5

LEMMA OverrunStep == ASSUME IInv, Overrun PROVE IInv'
<1>1. UNCHANGED <<child, stream, ptr, file, active, i, stray>> /\ pc' = "undefined"
  BY DEF Overrun, progVars
<1> QED BY <1>1 DEF IInv, StreamsSound, TypeOK, StreamFound, OneStreamEach, Holders, FilesTied, Places

LEMMA AgainStep == ASSUME IInv, AcceptAgain PROVE IInv'
<1>1. UNCHANGED <<child, stream, ptr, file, active, stray>> /\ i' = 0 /\ pc' \in {"tests", "loop"}
  BY DEF AcceptAgain, progVars
<1>2. 0 \in Streams /\ 0 \in 0 .. MaxStreams
  BY Numbers DEF Streams
<1>3. TypeOK'
  BY <1>1, <1>2 DEF IInv, StreamsSound, TypeOK
<1>4. StreamFound' /\ OneStreamEach' /\ FilesTied' /\ Places'
  BY <1>1, <1>2 DEF IInv, StreamsSound, StreamFound, OneStreamEach, Holders, FilesTied, Places
<1> QED BY <1>3, <1>4 DEF IInv, StreamsSound

-----------------------------------------------------------------------------
(* Visiting.  Where the loop goes next is always a stream.                  *)
LEMMA NextPlace ==
  ASSUME i \in Streams, NextStream \/ Blink
  PROVE  i' \in Streams /\ pc' \in {"tests", "loop"}
BY Numbers DEF NextStream, Blink, Streams

LEMMA InRange == \A k \in Streams : k \in 0 .. MaxStreams
BY Numbers DEF Streams

(* Where the loop goes through its streams, its index is one of them.       *)
Visiting == IInv /\ pc \notin {"accept", "undefined"}

(* A visit that leaves the sockets' places alone and keeps file and pointer *)
(* of the stream it visits together.                                        *)
LEMMA Visit ==
  ASSUME Visiting, i' \in Streams, pc' \in {"tests", "loop", "visit", "header"},
         pc' = "visit" => i' = i /\ (active'[i] = Limit => ptr'[i] = "end"),
         pc' = "header" => i' = i /\ stream[i] # -1,
         child' \in [Children -> Sockets],
         \A b \in Children : child'[b].queued = child[b].queued,
         stream' = stream, stray' = stray,
         ptr' \in [Streams -> {"none", "some", "end"}],
         file' \in [Streams -> -1 .. Blocks],
         active' \in [Streams -> 0 .. Limit],
         \A k \in Streams : k # i => ptr'[k] = ptr[k] /\ file'[k] = file[k],
         file'[i] # -1 => stream[i] # -1 /\ ptr'[i] # "end"
  PROVE  IInv'
<1>1. TypeOK'
  <2>1. i' \in 0 .. MaxStreams
    BY InRange
  <2> QED BY <2>1 DEF Visiting, IInv, StreamsSound, TypeOK
<1>2. StreamFound'
  BY DEF StreamFound
<1>3. OneStreamEach'
  BY DEF Visiting, IInv, StreamsSound, OneStreamEach, Holders, TypeOK
<1>4. FilesTied'
  BY DEF Visiting, IInv, StreamsSound, FilesTied
<1>5. Places'
  BY DEF Places
<1> QED BY <1>1, <1>2, <1>3, <1>4, <1>5 DEF Visiting, IInv, StreamsSound

(* What a visit may rely on.                                                *)
LEMMA Known ==
  ASSUME Visiting
  PROVE  /\ child \in [Children -> Sockets] /\ i \in Streams
         /\ stream \in [Streams -> Children \cup {-1}]
         /\ ptr \in [Streams -> {"none", "some", "end"}]
         /\ file \in [Streams -> -1 .. Blocks] /\ active \in [Streams -> 0 .. Limit]
         /\ file[i] # -1 => stream[i] # -1 /\ ptr[i] # "end"
         /\ pc = "visit" /\ active[i] = Limit => ptr[i] = "end"
         /\ pc = "header" => stream[i] # -1
BY DEF Visiting, IInv, StreamsSound, TypeOK, FilesTied, Places

LEMMA InactiveStep == ASSUME Visiting, Inactive PROVE IInv'
<1>1. pc' = "visit" /\ UNCHANGED <<child, stream, active, i, stray>>
  BY DEF Inactive
<1>2. CASE active[i] = Limit
  <2>1. ptr' = [ptr EXCEPT ![i] = "end"] /\ file' = [file EXCEPT ![i] = -1]
    BY <1>2 DEF Inactive
  <2>2. -1 \in -1 .. Blocks
    BY Numbers
  <2> QED BY <1>1, <2>1, <2>2, Known, Visit
<1>3. CASE active[i] # Limit
  <2>1. UNCHANGED <<ptr, file>>
    BY <1>3 DEF Inactive
  <2> QED BY <1>1, <1>3, <2>1, Known, Visit
<1> QED BY <1>2, <1>3

LEMMA NoStreamStep == ASSUME Visiting, NoStream PROVE IInv'
<1>1. UNCHANGED <<child, stream, ptr, file, active, stray>> /\ NextStream
  BY DEF NoStream, progVars
<1> QED BY <1>1, NextPlace, Known, Visit

(* The end of a stream: the socket goes back to the queue and its cell is   *)
(* given back in one go.                                                    *)
LEMMA DeathStep == ASSUME Visiting, Death PROVE IInv'
<1>1. /\ pc = "visit" /\ stream[i] # -1 /\ ptr[i] = "end" /\ UNCHANGED <<file, active>>
      /\ i' \in Streams /\ pc' \in {"tests", "loop"}
  BY Known, NextPlace DEF Death
<1>2. CASE Sockdepth(stream[i]) < 1
  <2>1. /\ child' = [child EXCEPT ![stream[i]] = Idle]
        /\ stream' = [stream EXCEPT ![i] = -1] /\ ptr' = [ptr EXCEPT ![i] = "none"]
        /\ stray' = (IF Holders(stream[i]) = {i} THEN stray \ {stream[i]} ELSE stray)
    BY <1>2 DEF Death
  <2>2. Idle \in Sockets
    BY DEF Idle, Sockets
  <2>3. child' \in [Children -> Sockets]
    BY <2>1, <2>2, Known
  <2>4. \A k \in Streams : stream'[k] = IF k = i THEN -1 ELSE stream[k]
    BY <2>1, Known
  <2>5. TypeOK'
    <3>1. i' \in 0 .. MaxStreams
      BY <1>1, InRange
    <3>2. stray' \subseteq Children
      BY <2>1 DEF Visiting, IInv, StreamsSound, TypeOK
    <3>3. stream' \in [Streams -> Children \cup {-1}]
      BY <2>1, Known
    <3>4. ptr' \in [Streams -> {"none", "some", "end"}]
      BY <2>1, Known
    <3> QED BY <1>1, <2>3, <3>1, <3>2, <3>3, <3>4 DEF Visiting, IInv, StreamsSound, TypeOK
  <2>6. StreamFound'
    BY <1>1 DEF StreamFound
  <2>7. OneStreamEach'
    <3> SUFFICES ASSUME NEW k \in Streams, stream'[k] # -1, stream'[k] \notin stray'
                 PROVE  /\ ~child'[stream'[k]].queued
                        /\ \A l \in Streams : stream'[l] = stream'[k] => l = k
      BY DEF OneStreamEach, Holders
    <3>1. k # i /\ stream'[k] = stream[k] /\ stream[k] \in Children
      BY <2>4, Known
    <3>2. stream[k] # stream[i]
      <4> SUFFICES ASSUME stream[k] = stream[i] PROVE FALSE
        OBVIOUS
      <4>1. k \in Holders(stream[i]) /\ Holders(stream[i]) # {i}
        BY <3>1 DEF Holders
      <4>2. stream[k] \notin stray
        BY <2>1, <3>1, <4>1
      <4> QED BY <3>1, <4>1, <4>2, Known DEF Visiting, IInv, StreamsSound, OneStreamEach, Holders
    <3>3. stream[k] \notin stray /\ child'[stream[k]] = child[stream[k]]
      BY <2>1, <3>1, <3>2, Known
    <3> QED BY <2>4, <3>1, <3>2, <3>3 DEF Visiting, IInv, StreamsSound, OneStreamEach, Holders
  <2>8. FilesTied'
    BY <1>1, <2>1, <2>4, Known DEF Visiting, IInv, StreamsSound, FilesTied
  <2> QED BY <1>1, <2>5, <2>6, <2>7, <2>8 DEF Visiting, IInv, StreamsSound, Places
<1>3. CASE ~(Sockdepth(stream[i]) < 1)
  <2>1. UNCHANGED <<child, stream, ptr, stray>>
    BY <1>3 DEF Death
  <2> QED BY <1>1, <2>1, Known, Visit
<1> QED BY <1>2, <1>3

LEMMA MoreErrorStep == ASSUME Visiting, MoreError PROVE IInv'
<1>1. /\ file[i] = -1 /\ Blink /\ UNCHANGED <<child, stream, file, stray>>
      /\ ptr' = [ptr EXCEPT ![i] = "end"] /\ active' = [active EXCEPT ![i] = 0]
  BY DEF MoreError, Reading
<1>2. 0 \in 0 .. Limit
  BY Numbers
<1> QED BY <1>1, <1>2, NextPlace, Known, Visit

LEMMA MoreNothingStep == ASSUME Visiting, MoreNothing PROVE IInv'
<1>1. /\ pc = "visit" /\ ptr[i] # "end" /\ UNCHANGED <<child, stream, ptr, file, stray>>
      /\ active' = [active EXCEPT ![i] = active[i] + 1]
      /\ NextStream \/ Blink
  BY DEF MoreNothing, Reading
<1>2. active[i] \in 0 .. Limit /\ active[i] # Limit
  BY <1>1, Known
<1>3. active[i] + 1 \in 0 .. Limit
  BY <1>2, Numbers
<1> QED BY <1>1, <1>3, NextPlace, Known, Visit

(* Data that is taken from a socket.                                        *)
LEMMA HeardStep ==
  ASSUME Visiting, stream[i] # -1, Heard
  PROVE  /\ child' \in [Children -> Sockets] /\ active' \in [Streams -> 0 .. Limit]
         /\ \A b \in Children : child'[b].queued = child[b].queued
<1>1. child' = [child EXCEPT ![stream[i]].data = "no"] /\ stream[i] \in Children
  BY Known DEF Heard
<1>2. active' \in [Streams -> 0 .. Limit]
  BY Known, Numbers DEF Heard
<1> QED BY <1>1, <1>2, Known DEF Sockets

LEMMA MorePartStep == ASSUME Visiting, MorePart \/ MoreOther PROVE IInv'
<1>1. /\ stream[i] # -1 /\ file[i] = -1 /\ Heard /\ (NextStream \/ Blink)
      /\ ptr' = [ptr EXCEPT ![i] = "some"] /\ UNCHANGED <<stream, file, stray>>
  BY DEF MorePart, MoreOther, Reading
<1>2. ptr' \in [Streams -> {"none", "some", "end"}] /\ \A k \in Streams : k # i => ptr'[k] = ptr[k]
  BY <1>1, Known
<1> QED BY <1>1, <1>2, HeardStep, NextPlace, Known, Visit

LEMMA MoreRequestStep == ASSUME Visiting, MoreRequest PROVE IInv'
<1>1. /\ stream[i] # -1 /\ Heard /\ pc' = "header" /\ UNCHANGED <<stream, i, stray>>
      /\ \E d \in {"get", "short"} :
            /\ file' = [file EXCEPT ![i] = IF d = "get" THEN Blocks ELSE -1]
            /\ ptr' = [ptr EXCEPT ![i] = IF d = "get" THEN "some" ELSE "end"]
  BY DEF MoreRequest, Reading
<1>2. PICK b \in {Blocks, -1}, p \in {"some", "end"} :
            /\ file' = [file EXCEPT ![i] = b] /\ ptr' = [ptr EXCEPT ![i] = p]
            /\ b # -1 => p # "end"
  <2>1. Blocks # -1
    BY Numbers
  <2> QED BY <1>1, <2>1
<1>3. b \in -1 .. Blocks
  BY <1>2, Numbers
<1>4. /\ file' \in [Streams -> -1 .. Blocks] /\ ptr' \in [Streams -> {"none", "some", "end"}]
      /\ file'[i] # -1 => ptr'[i] # "end"
      /\ \A k \in Streams : k # i => ptr'[k] = ptr[k] /\ file'[k] = file[k]
  BY <1>2, <1>3, Known
<1> QED BY <1>1, <1>4, HeardStep, Known, Visit

(* Sending changes no more of a socket than what it has to send.            *)
LEMMA SentStep ==
  ASSUME Visiting, stream[i] # -1, Sent(stream[i])
  PROVE  /\ child' \in [Children -> Sockets]
         /\ \A b \in Children : child'[b].queued = child[b].queued
<1>1. stream[i] \in Children
  BY Known
<1>2. child' = child \/ child' = [child EXCEPT ![stream[i]].out = 1]
  BY DEF Sent
<1> QED BY <1>1, <1>2, Known DEF Sockets

LEMMA SendHeaderStep == ASSUME Visiting, SendHeader PROVE IInv'
<1>1. /\ pc = "header" /\ Sent(stream[i]) /\ NextStream
      /\ UNCHANGED <<stream, ptr, file, active, stray>>
  BY DEF SendHeader, progVars
<1> QED BY <1>1, SentStep, NextPlace, Known, Visit

LEMMA SendFileStep == ASSUME Visiting, SendFile PROVE IInv'
<1>1. /\ stream[i] # -1 /\ file[i] > 0 /\ ptr[i] # "end" /\ stream' = stream /\ stray' = stray
      /\ active' = [active EXCEPT ![i] = 0] /\ Sent(stream[i]) /\ NextStream
  BY DEF SendFile
<1>2. active' \in [Streams -> 0 .. Limit]
  BY <1>1, Known, Numbers
<1>3. /\ file' \in [Streams -> -1 .. Blocks] /\ ptr' \in [Streams -> {"none", "some", "end"}]
      /\ file'[i] # -1 => ptr'[i] # "end"
      /\ \A k \in Streams : k # i => ptr'[k] = ptr[k] /\ file'[k] = file[k]
  <2>1. file[i] \in -1 .. Blocks
    BY Known
  <2>2. CASE child[stream[i]].st = "established"
    <3>1. file' = [file EXCEPT ![i] = file[i] - 1] /\ ptr' = ptr
      BY <2>2 DEF SendFile
    <3>2. file[i] - 1 \in -1 .. Blocks
      BY <1>1, <2>1, Numbers
    <3> QED BY <1>1, <3>1, <3>2, Known
  <2>3. CASE child[stream[i]].st # "established"
    <3>1. file' = [file EXCEPT ![i] = -1] /\ ptr' = [ptr EXCEPT ![i] = "end"]
      BY <2>3 DEF SendFile
    <3>2. -1 \in -1 .. Blocks
      BY Numbers
    <3> QED BY <3>1, <3>2, Known
  <2> QED BY <2>2, <2>3
<1> QED BY <1>1, <1>2, <1>3, SentStep, NextPlace, Known, Visit

LEMMA EndOfFileStep == ASSUME Visiting, EndOfFile PROVE IInv'
<1>1. /\ file' = [file EXCEPT ![i] = -1] /\ ptr' = [ptr EXCEPT ![i] = "end"]
      /\ NextStream /\ UNCHANGED <<child, stream, active, stray>>
  BY DEF EndOfFile
<1>2. -1 \in -1 .. Blocks
  BY Numbers
<1> QED BY <1>1, <1>2, NextPlace, Known, Visit

LEMMA StepIInv == IInv /\ [Next]_vars => IInv'
<1> SUFFICES ASSUME IInv, [Next]_vars PROVE IInv'
  OBVIOUS
<1>1. CASE AcceptReady \/ Accept \/ Overrun \/ AcceptAgain
  BY <1>1, AcceptReadyStep, AcceptStep, OverrunStep, AgainStep
<1>2. CASE Tests
  <2>1. pc \in {"tests", "visit", "header"}
    BY <1>2 DEF Tests, Inactive, NoStream, Death, MoreError, MoreNothing, MorePart, MoreOther,
       MoreRequest, SendHeader, SendFile, EndOfFile, Reading
  <2>2. Visiting
    BY <2>1 DEF Visiting
  <2> QED BY <1>2, <2>2, InactiveStep, NoStreamStep, DeathStep, MoreErrorStep, MoreNothingStep,
     MorePartStep, MoreRequestStep, SendHeaderStep, SendFileStep, EndOfFileStep DEF Tests
<1>3. CASE Clients
  BY <1>3, ClientStep
<1>4. CASE UNCHANGED vars
  BY <1>4, Outside DEF vars, IInv, StreamsSound, TypeOK, OneStreamEach
<1> QED BY <1>1, <1>2, <1>3, <1>4 DEF Next, Server

(* Whatever the clients do, and also while sockets listen again behind the  *)
(* back of their streams: every other socket is in one place, in a stream   *)
(* or in the queue; no file stays open for a stream that has ended; and as  *)
(* long as there is no such stray every connection finds a stream           *)
(* (httpd.c:207-240, 700-712).                                              *)
THEOREM TableSound == Spec => []StreamsSound
<1>1. IInv => StreamsSound
  BY DEF IInv
<1> QED BY <1>1, InitIInv, StepIInv, PTL DEF Spec

-----------------------------------------------------------------------------
(* The FTP client.  What it has not acted on yet are the lines in its       *)
(* hands, in its buffer and under way, in this order; whatever is read and  *)
(* cut, they stay the same lines.                                           *)

Commands == DOMAIN Codes
Lines == [code : Nat \ {0}, more : BOOLEAN, of : Commands \cup {"connect", "bye"}]
Untaken == ready \o (lines \o wire)
(* What ends the answer to a command; with 421 the server only leaves.      *)
Ends(l) == ~l.more /\ l.code \notin Begins /\ l.code # 421

ClientPlaces == {"wait", "user", "password", "account", "prompt", "main", "spin", "quit", "typed",
                 "passive", "opened", "begin", "xfer", "in", "out", "back", "list", "done"}
Returns == {"main", "typed", "passive", "begin", "list", "quit"}
Links == {"none", "wait", "open", "fin", "reset", "shut", "full"}

LineTypes ==
  /\ wire \in Seq(Lines) /\ lines \in Seq(Lines)
  /\ ready = <<>> \/ \E l \in Lines : ready = <<l>>
  /\ up \in BOOLEAN /\ part \in BOOLEAN
ClientTypes ==
  /\ at \in ClientPlaces /\ ret \in Returns /\ servstate \in {-1} \cup (Nat \ {0})
  /\ asked = <<>> \/ (asked = <<last>> /\ last \in Commands)
  /\ todo \in 0 .. Size /\ moved \in 0 .. Size /\ left \in 0 .. Size
  /\ job \in DOMAIN Transfer /\ serving \in Transfers \cup {"no", "quit"}
  /\ data \in [st : Links, q : {0, 1}]
FtpTypes == LineTypes /\ ClientTypes

(* What the program has not taken yet belongs to the last command, and      *)
(* after the end of an answer nothing but a good-bye follows.               *)
Tame(u, cmds, srv, cmd) ==
  /\ \A k \in 1 .. Len(u) : u[k].of = cmd \/ u[k].code = 421
  /\ \A j, k \in 1 .. Len(u) : j < k /\ Ends(u[j]) => u[k].code = 421
  /\ \A k \in 1 .. Len(u) : Ends(u[k]) => cmds = <<>> /\ srv \notin Transfers
  /\ \A j, k \in 1 .. Len(u) : u[j].code \in Begins /\ u[k].code \in Begins => j = k
Offers(u) == \E k \in 1 .. Len(u) : u[k].code \in Begins
Farewell(u) == \A k \in 1 .. Len(u) : u[k].code = 421

Owed ==
  /\ Tame(Untaken, asked, serving, last)
  /\ Offers(Untaken) => asked = <<>> /\ at = "wait" /\ ret = "begin"
  /\ asked # <<>> => at = "wait" /\ serving \notin Transfers
  /\ asked # <<>> /\ last \in Transfers => ret = "begin"
  /\ serving \in Transfers => serving = last

(* Where the client is about to send a command, nothing is owed to it.      *)
Quiet == asked = <<>> /\ serving \notin Transfers /\ Farewell(Untaken)
QuietPlaces == {"user", "password", "account", "prompt", "quit", "typed", "passive", "opened",
                "list", "spin"}
CanCommand == \/ at \in QuietPlaces
              \/ at \in {"main", "begin", "back"} /\ servstate > 0 /\ servstate \notin Begins

Acting ==
  /\ at = "wait" => servstate = -1
  /\ at \in {"xfer", "in", "out"} => servstate = 150
  /\ at \in {"prompt", "begin"} => servstate > 0
  /\ at = "quit" => ret = "quit"
  /\ at \in {"main", "back", "list", "passive"} => servstate \notin Begins
  /\ servstate > 0 => answers = last
  /\ CanCommand => Quiet

(* The data connection is open only while a transfer is asked for or under  *)
(* way.                                                                     *)
AwaitsBegin == at = "wait" /\ ret = "begin"
Transferring == at \in {"opened", "begin", "xfer", "in", "out"} \/ AwaitsBegin
Connection ==
  /\ ~Transferring => data.st \notin {"open", "fin", "reset"}
  /\ Transferring /\ at # "opened" => last = Transfer[job]
  /\ Transferring /\ job # "put" => data.st \in {"open", "fin", "reset"}
  /\ at = "in" => job # "put"
  /\ at = "out" => job = "put"
  /\ at = "opened" \/ (AwaitsBegin /\ asked # <<>>) => data.st = "open" /\ data.q = 0
  /\ data.st \in {"none", "wait", "reset", "full"} => data.q = 0

(* Of a file that is fetched every block is on the disk, under way or still *)
(* at the server.                                                           *)
Begun == (AwaitsBegin /\ Offers(Untaken)) \/ (at = "begin" /\ servstate = 150)
Whole == job # "put" /\ data.st \in {"open", "fin"} =>
           /\ Begun => data.q + left = Size /\ (data.st = "fin" => left = 0)
           /\ at \in {"xfer", "in"} => /\ moved + data.q + left = Size
                                       /\ data.st = "fin" => left = 0

ClientInv == FtpTypes /\ (at # "done" => Owed /\ Acting /\ Connection /\ Whole)

LEMMA FtpNumbers == /\ Size \in Nat /\ 150 \notin {421, 226, 227} /\ 226 \notin Begins /\ 421 \notin Begins
                    /\ \A n \in Begins : n # 227
BY FtpAssumption

LEMMA OneBegin ==
  ASSUME 125 \notin Begins
  PROVE  Begins = {150}
<1>1. \A n \in Begins : n = 150
  BY FtpAssumption
<1>2. Begins # {}
  BY FtpAssumption
<1> QED BY <1>1, <1>2

(* What the answers to a command can be.                                    *)
LEMMA AnswerCodes ==
  ASSUME NEW cmd \in Commands, NEW n \in Codes[cmd]
  PROVE  /\ n \in Nat \ {0} /\ n # 421
         /\ n \in Begins => cmd \in Transfers
         /\ n = 227 => cmd = "PASV"
<1>1. Begins \subseteq {125, 150}
  BY FtpAssumption
<1>2. cmd \in {"USER", "PASS", "ACCT", "SYST", "CWD", "QUIT", "TYPE", "PASV", "RETR", "STOR", "LIST", "NLST"}
  BY DEF Commands, Codes
<1>3. CASE cmd \in Transfers
  <2>1. n \in Begins \cup {550}
    BY <1>2, <1>3 DEF Codes, Transfers
  <2> QED BY <1>1, <1>3, <2>1
<1>4. CASE cmd \notin Transfers
  <2>1. CASE cmd = "USER"
    BY <1>1, <2>1 DEF Codes
  <2>2. CASE cmd = "PASS"
    BY <1>1, <2>2 DEF Codes
  <2>3. CASE cmd = "ACCT"
    BY <1>1, <2>3 DEF Codes
  <2>4. CASE cmd = "SYST"
    BY <1>1, <2>4 DEF Codes
  <2>5. CASE cmd = "CWD"
    BY <1>1, <2>5 DEF Codes
  <2>6. CASE cmd = "QUIT"
    BY <1>1, <2>6 DEF Codes
  <2>7. CASE cmd = "TYPE"
    BY <1>1, <2>7 DEF Codes
  <2>8. CASE cmd = "PASV"
    BY <1>1, <2>8 DEF Codes
  <2> QED BY <1>2, <1>4, <2>1, <2>2, <2>3, <2>4, <2>5, <2>6, <2>7, <2>8 DEF Transfers
<1> QED BY <1>3, <1>4

LEMMA UntakenType == ASSUME LineTypes PROVE Untaken \in Seq(Lines) /\ ready \in Seq(Lines)
<1>1. ready \in Seq(Lines)
  <2>1. \A l \in Lines : <<l>> \in Seq(Lines)
    OBVIOUS
  <2>2. <<>> \in Seq(Lines)
    OBVIOUS
  <2> QED BY <2>1, <2>2 DEF LineTypes
<1>2. lines \o wire \in Seq(Lines)
  BY ConcatProperties DEF LineTypes
<1> QED BY <1>1, <1>2, ConcatProperties DEF Untaken

LEMMA OneFirst ==
  ASSUME NEW S, NEW s \in Seq(S), s # <<>>
  PROVE  <<Head(s)>> \o Tail(s) = s /\ Head(s) \in S /\ Tail(s) \in Seq(S)
<1> DEFINE t == <<Head(s)>> \o Tail(s)
<1>1. /\ Head(s) \in S /\ Tail(s) \in Seq(S) /\ Len(Tail(s)) = Len(s) - 1
      /\ \A k \in 1 .. Len(Tail(s)) : Tail(s)[k] = s[k + 1]
      /\ Len(s) \in Nat \ {0} /\ Head(s) = s[1]
  BY HeadTailProperties
<1>2. <<Head(s)>> \in Seq(S) /\ Len(<<Head(s)>>) = 1 /\ <<Head(s)>>[1] = s[1]
  BY <1>1
<1>3. /\ t \in Seq(S) /\ Len(t) = Len(s)
      /\ \A k \in 1 .. Len(s) : t[k] = IF k <= 1 THEN <<Head(s)>>[k] ELSE Tail(s)[k - 1]
  BY <1>1, <1>2, ConcatProperties
<1> HIDE DEF t
<1>4. \A k \in 1 .. Len(s) : t[k] = s[k]
  BY <1>1, <1>2, <1>3
<1>5. t = s
  BY <1>3, <1>4, SeqEqual
<1> QED BY <1>1, <1>5 DEF t

LEMMA LinesAssociate ==
  \A a, b, c \in Seq(Lines) : (a \o b) \o c = a \o (b \o c)
BY ConcatAssociative

(* Reading and cutting leave the lines as they are.                         *)
LEMMA ReadKeeps ==
  ASSUME LineTypes, NEW from, DoioRead(from)
  PROVE  LineTypes' /\ Untaken' = Untaken /\ UNCHANGED <<up, asked, prog, xfer, serving>>
<1>1. PICK n \in 0 .. Len(wire) :
        /\ wire' = SubSeq(wire, n + 1, Len(wire))
        /\ part' \in (IF n < Len(wire) THEN {TRUE, n = 0 /\ part} ELSE {n = 0 /\ part})
        /\ Cut(lines \o SubSeq(wire, 1, n))
  BY DEF DoioRead
<1> DEFINE got == SubSeq(wire, 1, n)
           rest == SubSeq(wire, n + 1, Len(wire))
           ls == lines \o got
<1>2. wire \in Seq(Lines) /\ lines \in Seq(Lines) /\ ready \in Seq(Lines) /\ n \in Nat
  BY UntakenType DEF LineTypes
<1>3. got \in Seq(Lines) /\ rest \in Seq(Lines) /\ got \o rest = wire
  <2>1. got \o rest = SubSeq(wire, 1, Len(wire))
    <3>1. 1 \in 1 .. Len(wire) + 1 /\ n \in 1 - 1 .. Len(wire) /\ Len(wire) \in n .. Len(wire)
      BY <1>2
    <3> QED BY <1>2, <3>1, ConcatAdjacentSubSeq
  <2>2. SubSeq(wire, 1, Len(wire)) = wire
    BY <1>2, SubSeqFull
  <2>3. \A k \in 1 .. n : wire[k] \in Lines
    BY <1>2
  <2>4. \A k \in n + 1 .. Len(wire) : wire[k] \in Lines
    BY <1>2
  <2>5. n + 1 \in Int /\ Len(wire) \in Int /\ 1 \in Int /\ n \in Int
    BY <1>2
  <2>6. got \in Seq(Lines)
    BY <2>3, <2>5, SubSeqProperties
  <2>7. rest \in Seq(Lines)
    BY <2>4, <2>5, SubSeqProperties
  <2> QED BY <2>1, <2>2, <2>6, <2>7
<1> HIDE DEF got, rest
<1>4. ls \in Seq(Lines) /\ ls \o rest = lines \o wire
  <2>1. (lines \o got) \o rest = lines \o (got \o rest)
    <3>1. lines \in Seq(Lines) /\ got \in Seq(Lines) /\ rest \in Seq(Lines)
      BY <1>2, <1>3
    <3> QED BY ONLY <3>1, LinesAssociate
  <2>2. lines \o got \in Seq(Lines)
    BY <1>2, <1>3, ConcatProperties
  <2> QED BY <1>3, <2>1, <2>2
<1>5. part' \in BOOLEAN /\ UNCHANGED <<up, asked, prog, xfer, serving>>
  BY <1>1 DEF DoioRead, LineTypes
<1>6. wire' = rest /\ Cut(ls)
  BY <1>1 DEF got, rest
<1> HIDE DEF ls
<1>7. CASE ls # <<>> /\ ready = <<>>
  <2>1. ready' = <<Head(ls)>> /\ lines' = Tail(ls)
    BY <1>6, <1>7 DEF Cut
  <2>2. <<Head(ls)>> \o Tail(ls) = ls /\ Head(ls) \in Lines /\ Tail(ls) \in Seq(Lines)
    BY <1>4, <1>7, OneFirst
  <2>3. Untaken' = ls \o rest
    <3>1. <<Head(ls)>> \in Seq(Lines)
      BY <2>2
    <3>2. (<<Head(ls)>> \o Tail(ls)) \o rest = <<Head(ls)>> \o (Tail(ls) \o rest)
      BY <1>3, <2>2, <3>1, LinesAssociate
    <3> QED BY <1>6, <2>1, <2>2, <3>2 DEF Untaken
  <2>4. Untaken = lines \o wire
    <3>1. lines \o wire \in Seq(Lines)
      BY <1>2, ConcatProperties
    <3> QED BY <1>7, <3>1, ConcatEmptySeq DEF Untaken
  <2> QED BY <1>3, <1>4, <1>5, <1>6, <2>1, <2>2, <2>3, <2>4 DEF LineTypes
<1>8. CASE ~(ls # <<>> /\ ready = <<>>)
  <2>1. ready' = ready /\ lines' = ls
    BY <1>6, <1>8 DEF Cut
  <2>2. Untaken' = Untaken
    BY <1>4, <1>6, <2>1 DEF Untaken
  <2> QED BY <1>3, <1>4, <1>5, <1>6, <2>1, <2>2 DEF LineTypes
<1> QED BY <1>7, <1>8

(* The line that is ready is the first.                                     *)
LEMMA TakeFirst ==
  ASSUME LineTypes, ready # <<>>, ready' = <<>>, UNCHANGED <<lines, wire, up, part>>
  PROVE  /\ LineTypes' /\ ready[1] \in Lines
         /\ Untaken' \in Seq(Lines) /\ Untaken \in Seq(Lines)
         /\ Len(Untaken) \in Nat \ {0} /\ Untaken[1] = ready[1]
         /\ \A k \in 1 .. Len(Untaken') : k + 1 \in 1 .. Len(Untaken) /\ Untaken'[k] = Untaken[k + 1]
<1> DEFINE s == lines \o wire
<1>1. PICK l \in Lines : ready = <<l>>
  BY DEF LineTypes
<1>2. s \in Seq(Lines)
  BY ConcatProperties DEF LineTypes
<1>3. <<l>> \in Seq(Lines) /\ Len(<<l>>) = 1 /\ <<l>>[1] = l
  OBVIOUS
<1>4. Untaken = <<l>> \o s /\ Untaken' = s
  <2>1. Untaken' = <<>> \o s
    BY DEF Untaken
  <2>2. <<>> \o s = s
    BY <1>2, ConcatEmptySeq
  <2> QED BY <1>1, <2>1, <2>2 DEF Untaken
<1> HIDE DEF s
<1>5. /\ <<l>> \o s \in Seq(Lines) /\ Len(<<l>> \o s) = 1 + Len(s)
      /\ \A k \in 1 .. 1 + Len(s) : (<<l>> \o s)[k] = IF k <= 1 THEN <<l>>[k] ELSE s[k - 1]
  BY <1>2, <1>3, ConcatProperties
<1>6. /\ Len(s) \in Nat /\ (<<l>> \o s)[1] = l
      /\ \A k \in 1 .. Len(s) : k + 1 \in 1 .. 1 + Len(s) /\ (<<l>> \o s)[k + 1] = s[k]
  BY <1>2, <1>3, <1>5
<1>7. LineTypes'
  BY DEF LineTypes
<1> HIDE DEF Untaken
<1> QED BY <1>1, <1>2, <1>3, <1>4, <1>5, <1>6, <1>7

(* A line that is sent comes last.                                          *)
LEMMA PutLine ==
  \A a, b, c \in Seq(Lines), l \in Lines :
    a \o (b \o Append(c, l)) = Append(a \o (b \o c), l) /\ Append(c, l) \in Seq(Lines)
<1> SUFFICES ASSUME NEW a \in Seq(Lines), NEW b \in Seq(Lines), NEW c \in Seq(Lines), NEW l \in Lines
             PROVE  /\ a \o (b \o Append(c, l)) = Append(a \o (b \o c), l)
                    /\ Append(c, l) \in Seq(Lines)
  OBVIOUS
<1>1. <<l>> \in Seq(Lines) /\ b \o c \in Seq(Lines)
  BY ConcatProperties
<1>2. a \o (b \o c) \in Seq(Lines)
  BY <1>1, ConcatProperties
<1>3. Append(c, l) = c \o <<l>> /\ Append(a \o (b \o c), l) = (a \o (b \o c)) \o <<l>>
  BY <1>2, AppendIsConcat
<1>4. (a \o (b \o c)) \o <<l>> = a \o ((b \o c) \o <<l>>)
  BY <1>1, ConcatAssociative
<1>5. (b \o c) \o <<l>> = b \o (c \o <<l>>)
  BY <1>1, ConcatAssociative
<1> QED BY <1>3, <1>4, <1>5, AppendProperties

(* When the connection breaks, what was read stays.                         *)
LEMMA LoseWire ==
  ASSUME NEW a \in Seq(Lines), NEW b \in Seq(Lines), NEW c \in Seq(Lines)
  PROVE  LET u == a \o (b \o c)
             v == a \o (b \o <<>>)
         IN  /\ u \in Seq(Lines) /\ v \in Seq(Lines)
             /\ \A k \in 1 .. Len(v) : k \in 1 .. Len(u) /\ v[k] = u[k]
<1>1. b \o <<>> = b
  BY ConcatEmptySeq
<1> DEFINE ab == a \o b
<1>2. /\ ab \in Seq(Lines) /\ ab \o c = a \o (b \o c)
  BY ConcatProperties, ConcatAssociative
<1> HIDE DEF ab
<1>3. /\ ab \o c \in Seq(Lines) /\ Len(ab \o c) = Len(ab) + Len(c)
      /\ \A k \in 1 .. Len(ab) + Len(c) : (ab \o c)[k] = IF k <= Len(ab) THEN ab[k] ELSE c[k - Len(ab)]
  BY <1>2, ConcatProperties
<1>4. Len(ab) \in Nat /\ Len(c) \in Nat
  BY <1>2
<1>5. \A k \in 1 .. Len(ab) : k \in 1 .. Len(ab \o c) /\ ab[k] = (ab \o c)[k]
  BY <1>3, <1>4
<1> QED BY <1>1, <1>2, <1>3, <1>5 DEF ab

-----------------------------------------------------------------------------
(* What is owed, as lines are taken, lost and sent.                         *)

LEMMA TameFewer ==
  ASSUME NEW u \in Seq(Lines), NEW v \in Seq(Lines), NEW d \in {0, 1},
         \A k \in 1 .. Len(v) : k + d \in 1 .. Len(u) /\ v[k] = u[k + d],
         NEW cmds, NEW srv, NEW cmd, Tame(u, cmds, srv, cmd)
  PROVE  Tame(v, cmds, srv, cmd) /\ (Offers(v) => Offers(u)) /\ (Farewell(u) => Farewell(v))
<1>0. /\ \A k \in 1 .. Len(u) : u[k].of = cmd \/ u[k].code = 421
      /\ \A j, k \in 1 .. Len(u) : j < k /\ Ends(u[j]) => u[k].code = 421
      /\ \A k \in 1 .. Len(u) : Ends(u[k]) => cmds = <<>> /\ srv \notin Transfers
      /\ \A j, k \in 1 .. Len(u) : u[j].code \in Begins /\ u[k].code \in Begins => j = k
  BY DEF Tame
<1>1. /\ \A k \in 1 .. Len(v) : v[k].of = cmd \/ v[k].code = 421
      /\ \A k \in 1 .. Len(v) : Ends(v[k]) => cmds = <<>> /\ srv \notin Transfers
  <2>1. ASSUME NEW k \in 1 .. Len(v)
        PROVE  /\ v[k].of = cmd \/ v[k].code = 421
               /\ Ends(v[k]) => cmds = <<>> /\ srv \notin Transfers
    <3> DEFINE m == k + d
    <3>1. m \in 1 .. Len(u) /\ v[k] = u[m]
      OBVIOUS
    <3> HIDE DEF m
    <3> QED BY <1>0, <3>1
  <2> QED BY <2>1
<1>2. ASSUME NEW j \in 1 .. Len(v), NEW k \in 1 .. Len(v), j < k, Ends(v[j])
      PROVE  v[k].code = 421
  <2> DEFINE g == j + d
             h == k + d
  <2>1. g < h /\ g \in 1 .. Len(u) /\ h \in 1 .. Len(u) /\ v[j] = u[g] /\ v[k] = u[h]
    BY <1>2
  <2> HIDE DEF g, h
  <2> QED BY <1>0, <1>2, <2>1
<1>3. ASSUME NEW j \in 1 .. Len(v), NEW k \in 1 .. Len(v), v[j].code \in Begins, v[k].code \in Begins
      PROVE  j = k
  <2> DEFINE g == j + d
             h == k + d
  <2>1. g \in 1 .. Len(u) /\ h \in 1 .. Len(u) /\ v[j] = u[g] /\ v[k] = u[h] /\ (g = h => j = k)
    OBVIOUS
  <2> HIDE DEF g, h
  <2> QED BY <1>0, <1>3, <2>1
<1>4. Offers(v) => Offers(u)
  BY DEF Offers
<1>5. Farewell(u) => Farewell(v)
  BY DEF Farewell
<1>6. Tame(v, cmds, srv, cmd)
  BY <1>1, <1>2, <1>3 DEF Tame
<1> QED BY <1>4, <1>5, <1>6

(* A last line may be put behind lines that do not end an answer, and a     *)
(* good-bye behind any.                                                     *)
LEMMA TameLast ==
  ASSUME NEW u \in Seq(Lines), NEW l \in Lines,
         NEW cmds, NEW srv, NEW cmd, NEW c, NEW s, Tame(u, cmds, srv, cmd),
         l.of = cmd \/ l.code = 421,
         \/ l.code = 421 /\ c = cmds /\ s = srv
         \/ \A k \in 1 .. Len(u) : ~Ends(u[k]),
         Ends(l) => c = <<>> /\ s \notin Transfers,
         l.code \in Begins => ~Offers(u)
  PROVE  Tame(Append(u, l), c, s, cmd) /\ (Offers(Append(u, l)) <=> Offers(u) \/ l.code \in Begins)
<1> DEFINE v == Append(u, l)
           n == Len(u)
<1>1. /\ n \in Nat /\ Len(v) = n + 1 /\ v[n + 1] = l
      /\ \A k \in 1 .. n : v[k] = u[k]
  BY AppendProperties
<1>2. \A k : k \in 1 .. n + 1 <=> k \in 1 .. n \/ k = n + 1
  BY <1>1
<1> HIDE DEF v
<1>3. \A k \in 1 .. n : k # n + 1 /\ k < n + 1 /\ ~(n + 1 < k)
  BY <1>1
<1> HIDE DEF n
<1>4. /\ \A k \in 1 .. n : u[k].of = cmd \/ u[k].code = 421
      /\ \A j, k \in 1 .. n : j < k /\ Ends(u[j]) => u[k].code = 421
      /\ \A k \in 1 .. n : Ends(u[k]) => cmds = <<>> /\ srv \notin Transfers
      /\ \A j, k \in 1 .. n : u[j].code \in Begins /\ u[k].code \in Begins => j = k
      /\ Offers(u) <=> \E k \in 1 .. n : u[k].code \in Begins
      /\ \A k \in 1 .. n : Ends(u[k]) => l.code = 421 /\ c = cmds /\ s = srv
  BY DEF Tame, n, Offers
<1>5. \A k \in 1 .. n + 1 : v[k].of = cmd \/ v[k].code = 421
  BY <1>1, <1>2, <1>4
<1>6. \A k \in 1 .. n + 1 : Ends(v[k]) => c = <<>> /\ s \notin Transfers
  BY <1>1, <1>2, <1>4
<1>7. \A j, k \in 1 .. n + 1 : v[j].code \in Begins /\ v[k].code \in Begins => j = k
  BY <1>1, <1>2, <1>4
<1>8. ~(n + 1 < n + 1)
  BY <1>1
<1>9. \A j, k \in 1 .. n + 1 : j < k /\ Ends(v[j]) => v[k].code = 421
  BY <1>1, <1>2, <1>3, <1>4, <1>8
<1>10. Offers(v) <=> Offers(u) \/ l.code \in Begins
  BY <1>1, <1>2, <1>4 DEF Offers
<1>11. Tame(v, c, s, cmd)
  BY <1>1, <1>5, <1>6, <1>7, <1>9 DEF Tame
<1> QED BY <1>10, <1>11 DEF v

(* Nothing but a good-bye: nothing is owed for any command.                 *)
LEMMA FarewellTame ==
  ASSUME NEW u \in Seq(Lines), Farewell(u), NEW cmds, NEW srv, NEW cmd
  PROVE  Tame(u, cmds, srv, cmd) /\ ~Offers(u)
<1>1. \A k \in 1 .. Len(u) : u[k].code = 421 /\ ~Ends(u[k]) /\ u[k].code \notin Begins
  BY FtpNumbers DEF Farewell, Ends
<1> QED BY <1>1 DEF Tame, Offers

LEMMA SameLines ==
  ASSUME LineTypes, UNCHANGED <<up, wire, reader>>
  PROVE  LineTypes' /\ Untaken' = Untaken /\ Untaken \in Seq(Lines)
BY UntakenType DEF LineTypes, Untaken, reader

(* A command: the program is gone, or exactly its answer is owed.           *)
LEMMA CommandOwed ==
  ASSUME FtpTypes, Quiet, NEW cmd \in Commands, NEW to \in Returns, Command(cmd, to),
         cmd \in Transfers => to = "begin",
         UNCHANGED <<up, wire, reader, answers, serving>>
  PROVE  /\ LineTypes' /\ at' \in {"wait", "done"} /\ ret' \in Returns
         /\ servstate' \in {-1} \cup (Nat \ {0})
         /\ asked' = <<>> \/ (asked' = <<last'>> /\ last' \in Commands)
         /\ at' # "done" => /\ Owed' /\ Acting' /\ ~Offers(Untaken')
                            /\ ret' = to /\ last' = cmd /\ asked' # <<>>
<1>1. LineTypes' /\ Untaken' = Untaken /\ Untaken \in Seq(Lines)
  BY SameLines DEF FtpTypes
<1>2. asked = <<>> /\ serving \notin Transfers /\ Farewell(Untaken)
  BY DEF Quiet
<1>3. CASE up
  <2>1. asked' = <<cmd>> /\ last' = cmd /\ at' = "wait" /\ ret' = to /\ servstate' = -1
    BY <1>2, <1>3 DEF Command
  <2>2. Tame(Untaken', asked', serving', last') /\ ~Offers(Untaken')
    BY <1>1, <1>2, FarewellTame
  <2>3. Owed'
    BY <1>2, <2>1, <2>2 DEF Owed
  <2>4. Acting'
    BY <2>1 DEF Acting, CanCommand, QuietPlaces
  <2> QED BY <1>1, <2>1, <2>2, <2>3, <2>4
<1>4. CASE ~up
  BY <1>1, <1>2, <1>4 DEF Command, FtpTypes, ClientTypes
<1> QED BY <1>3, <1>4

(* A command outside a transfer.                                            *)
LEMMA PlainCommand ==
  ASSUME ClientInv, at # "done", ~Transferring, CanCommand,
         NEW cmd \in Commands, NEW to \in Returns, Command(cmd, to),
         cmd \notin Transfers, to # "begin",
         UNCHANGED <<up, wire, reader, answers, serving, data>>,
         moved' \in 0 .. Size, left' \in 0 .. Size, todo' \in 0 .. Size, job' \in DOMAIN Transfer
  PROVE  ClientInv'
<1>1. FtpTypes /\ Quiet /\ Connection
  BY DEF ClientInv, Acting
<1>2. /\ LineTypes' /\ at' \in {"wait", "done"} /\ ret' \in Returns
      /\ servstate' \in {-1} \cup (Nat \ {0})
      /\ asked' = <<>> \/ (asked' = <<last'>> /\ last' \in Commands)
      /\ at' # "done" => /\ Owed' /\ Acting' /\ ~Offers(Untaken')
                         /\ ret' = to /\ last' = cmd /\ asked' # <<>>
  BY <1>1, CommandOwed
<1>3. FtpTypes'
  BY <1>1, <1>2 DEF FtpTypes, ClientTypes, ClientPlaces
<1>4. ASSUME at' # "done" PROVE Connection' /\ Whole'
  <2>1. at' = "wait" /\ ret' = to /\ data.st \notin {"open", "fin", "reset"}
        /\ (data.st \in {"none", "wait", "reset", "full"} => data.q = 0)
    BY <1>1, <1>2, <1>4 DEF Connection
  <2>2. ~Transferring' /\ ~AwaitsBegin'
    BY <2>1 DEF Transferring, AwaitsBegin
  <2> QED BY <2>1, <2>2 DEF Connection, Whole, Begun
<1> QED BY <1>2, <1>3, <1>4 DEF ClientInv

(* The program moves on and leaves what is owed.                            *)
LEMMA MovesOn ==
  ASSUME ClientInv, at \notin {"wait", "done"},
         UNCHANGED <<up, wire, reader, asked, serving, last, answers>>
  PROVE  /\ LineTypes' /\ Owed' /\ ~Offers(Untaken) /\ Untaken' = Untaken
         /\ Quiet => Quiet'
<1>1. LineTypes' /\ Untaken' = Untaken
  BY SameLines DEF ClientInv, FtpTypes
<1>2. Owed
  BY DEF ClientInv
<1>3. ~Offers(Untaken) /\ asked = <<>>
  BY <1>2 DEF Owed
<1> QED BY <1>1, <1>2, <1>3 DEF Owed, Quiet

LEMMA KnownCommands ==
  /\ {"SYST", "USER", "PASS", "ACCT", "CWD", "QUIT", "TYPE", "PASV"} \subseteq Commands \ Transfers
  /\ Transfers \subseteq Commands
  /\ DOMAIN Transfer = {"get", "many", "put", "dir", "names"}
  /\ \A j \in DOMAIN Transfer : Transfer[j] \in Transfers /\ (Transfer[j] = "STOR" <=> j = "put")
BY DEF Commands, Codes, Transfers, Transfer

-----------------------------------------------------------------------------
(* The steps of the client.                                                 *)

LEMMA FtpStart == ASSUME FtpInit PROVE ClientInv
<1>1. /\ up \in BOOLEAN /\ wire = (IF up THEN <<Line(220, FALSE, "connect")>> ELSE <<>>)
      /\ asked = <<>> /\ lines = <<>> /\ part = FALSE /\ ready = <<>>
      /\ at = "main" /\ ret = "main" /\ servstate = -1
      /\ last = "connect" /\ answers = "connect" /\ job = "get" /\ todo = 0
      /\ moved = 0 /\ data.st = "none" /\ data.q = 0 /\ serving = "no" /\ left = 0
      /\ data \in [st : Links, q : {0, 1}]
  BY DEF FtpInit, Nothing, Links
<1> DEFINE l == Line(220, FALSE, "connect")
<1>2. l \in Lines /\ l.of = "connect" /\ l.code = 220
  BY DEF Line, Lines
<1>3. wire = <<>> \/ wire = <<l>>
  BY <1>1
<1> HIDE DEF l
<1>4. wire \in Seq(Lines) /\ Len(wire) \in {0, 1} /\ \A k \in 1 .. Len(wire) : k = 1 /\ wire[k] = l
  <2>1. CASE wire = <<>>
    BY <2>1
  <2>2. CASE wire = <<l>>
    <3>1. Len(<<l>>) = 1 /\ <<l>>[1] = l /\ <<l>> \in Seq(Lines)
      BY <1>2
    <3>2. \A k \in 1 .. 1 : k = 1
      OBVIOUS
    <3> QED BY <2>2, <3>1, <3>2
  <2> QED BY <1>3, <2>1, <2>2
<1>5. Untaken = wire
  <2>1. <<>> \o wire = wire
    BY <1>4, ConcatEmptySeq
  <2> QED BY <1>1, <2>1 DEF Untaken
<1>6. LineTypes
  <2>1. <<>> \in Seq(Lines)
    OBVIOUS
  <2> QED BY <1>1, <1>4, <2>1 DEF LineTypes
<1>7. ClientTypes
  BY <1>1, KnownCommands, FtpNumbers DEF ClientTypes, ClientPlaces, Returns
<1>8. Tame(Untaken, asked, serving, last) /\ ~Offers(Untaken)
  <2>1. \A k \in 1 .. Len(wire) : /\ wire[k].of = last /\ wire[k].code \notin Begins
                                  /\ \A j \in 1 .. Len(wire) : ~(j < k) /\ j = k
    <3>1. \A k \in 1 .. Len(wire) : k = 1 /\ wire[k] = l
      BY <1>4
    <3>2. ~(1 < 1) /\ l.of = last /\ l.code \notin Begins
      BY <1>1, <1>2, FtpAssumption
    <3> QED BY <3>1, <3>2
  <2>2. asked = <<>> /\ serving \notin Transfers
    BY <1>1 DEF Transfers
  <2> QED BY <1>5, <2>1, <2>2 DEF Tame, Offers
<1>9. Owed
  BY <1>1, <1>8 DEF Owed, Transfers
<1>10. Acting
  BY <1>1, FtpAssumption DEF Acting, CanCommand, QuietPlaces
<1>11. ~Transferring /\ ~AwaitsBegin
  BY <1>1 DEF Transferring, AwaitsBegin
<1>12. Connection /\ Whole
  BY <1>1, <1>11 DEF Connection, Whole
<1> QED BY <1>6, <1>7, <1>9, <1>10, <1>12 DEF ClientInv, FtpTypes

(* Reading changes nothing that matters.                                    *)
LEMMA DoioReadStep ==
  ASSUME ClientInv, NEW from, DoioRead(from)
  PROVE  ClientInv'
<1>1. LineTypes' /\ Untaken' = Untaken /\ UNCHANGED <<up, asked, prog, xfer, serving>>
  BY ReadKeeps DEF ClientInv, FtpTypes
<1>2. UNCHANGED <<asked, at, ret, servstate, last, answers, job, todo, moved, data, left, serving>>
  BY <1>1 DEF prog, xfer
<1>3. FtpTypes'
  BY <1>1, <1>2 DEF ClientInv, FtpTypes, ClientTypes
<1>4. ASSUME at # "done" PROVE Owed' /\ Acting' /\ Connection' /\ Whole'
  <2>1. Owed /\ Acting /\ Connection /\ Whole
    BY <1>4 DEF ClientInv
  <2>2. Owed' /\ Acting'
    BY <1>1, <1>2, <2>1 DEF Owed, Acting, CanCommand, Quiet
  <2>3. (Transferring' <=> Transferring) /\ (AwaitsBegin' <=> AwaitsBegin)
    BY <1>2 DEF Transferring, AwaitsBegin
  <2>4. Connection'
    BY <1>2, <2>1, <2>3 DEF Connection
  <2>5. Begun' <=> Begun
    BY <1>1, <1>2, <2>3 DEF Begun
  <2> QED BY <1>2, <2>1, <2>2, <2>4, <2>5 DEF Whole
<1> QED BY <1>2, <1>3, <1>4 DEF ClientInv

LEMMA DoioExitStep ==
  ASSUME ClientInv, NEW from, DoioExit(from)
  PROVE  ClientInv'
<1>1. /\ at' = "done"
      /\ UNCHANGED <<up, wire, reader, asked, ret, servstate, last, answers, job, todo, moved, data, left, serving>>
  BY DEF DoioExit, ctl, xfer
<1>2. LineTypes'
  BY <1>1, SameLines DEF ClientInv, FtpTypes
<1>3. ClientTypes'
  BY <1>1 DEF ClientInv, FtpTypes, ClientTypes, ClientPlaces
<1> QED BY <1>1, <1>2, <1>3 DEF ClientInv, FtpTypes

(* waitio takes the first line; when it ends an answer nothing is owed.     *)
LEMMA WaitioStep ==
  ASSUME 125 \notin Begins, ClientInv, Waitio
  PROVE  ClientInv'
<1> DEFINE l == ready[1]
<1>1. /\ at = "wait" /\ ready # <<>> /\ ready' = <<>>
      /\ UNCHANGED <<up, wire, lines, part>>
      /\ UNCHANGED <<asked, ret, last, job, todo, moved, data, left, serving>>
  BY DEF Waitio, ctl, xfer
<1>2. FtpTypes /\ Owed /\ Acting /\ Connection /\ Whole
  BY <1>1 DEF ClientInv
<1>3. /\ LineTypes' /\ l \in Lines
      /\ Untaken' \in Seq(Lines) /\ Untaken \in Seq(Lines)
      /\ Len(Untaken) \in Nat \ {0} /\ Untaken[1] = l
      /\ \A k \in 1 .. Len(Untaken') : k + 1 \in 1 .. Len(Untaken) /\ Untaken'[k] = Untaken[k + 1]
  BY <1>1, <1>2, TakeFirst DEF FtpTypes
<1>4. Tame(Untaken', asked, serving, last) /\ (Offers(Untaken') => Offers(Untaken))
  BY <1>2, <1>3, TameFewer DEF Owed
<1>5. /\ l.more => UNCHANGED <<at, servstate, answers>>
      /\ ~l.more => /\ servstate' = l.code /\ answers' = l.of
                    /\ at' = IF l.code \in {221, 421, 120} THEN "done" ELSE ret
  BY DEF Waitio
<1>6. 1 \in 1 .. Len(Untaken)
  BY <1>3
<1> HIDE DEF l
<1>7. CASE l.more
  <2>1. UNCHANGED <<at, servstate, answers>>
    BY <1>5, <1>7
  <2>2. ClientTypes'
    BY <1>1, <1>2, <2>1 DEF FtpTypes, ClientTypes
  <2>3. Owed'
    BY <1>1, <1>2, <1>4, <2>1 DEF Owed
  <2>4. Acting'
    BY <1>1, <1>2, <2>1 DEF Acting, CanCommand, QuietPlaces
  <2>5. (Transferring' <=> Transferring) /\ (AwaitsBegin' <=> AwaitsBegin)
    BY <1>1, <2>1 DEF Transferring, AwaitsBegin
  <2>6. Connection'
    BY <1>1, <1>2, <2>1, <2>5 DEF Connection
  <2>7. Begun' => Begun
    BY <1>1, <1>4, <2>1, <2>5 DEF Begun
  <2>8. Whole'
    BY <1>1, <1>2, <2>1, <2>7 DEF Whole
  <2> QED BY <1>3, <2>2, <2>3, <2>4, <2>6, <2>8 DEF ClientInv, FtpTypes
<1>8. CASE ~l.more
  <2>1. servstate' = l.code /\ answers' = l.of /\ l.code \in Nat \ {0}
        /\ at' = IF l.code \in {221, 421, 120} THEN "done" ELSE ret
    BY <1>3, <1>5, <1>8 DEF Lines
  <2>2. ClientTypes'
    BY <1>1, <1>2, <2>1 DEF FtpTypes, ClientTypes, ClientPlaces, Returns
  <2>3. ASSUME at' # "done" PROVE Owed' /\ Acting' /\ Connection' /\ Whole'
    <3>1. at' = ret /\ l.code # 421 /\ l.of = last /\ ret \in Returns
      BY <1>2, <1>3, <1>6, <2>1, <2>3 DEF Owed, Tame, FtpTypes, ClientTypes
    <3>2. CASE l.code \in Begins
      <4>1. l.code = 150
        BY <3>2, OneBegin
      <4>2. Offers(Untaken)
        BY <1>3, <1>6, <3>2 DEF Offers
      <4>3. asked = <<>> /\ ret = "begin" /\ at' = "begin" /\ servstate' = 150
        BY <1>2, <2>1, <3>1, <4>1, <4>2 DEF Owed
      <4>4. ~Offers(Untaken')
        <5>1. ASSUME NEW k \in 1 .. Len(Untaken'), Untaken'[k].code \in Begins PROVE FALSE
          <6>1. k + 1 \in 1 .. Len(Untaken) /\ Untaken[k + 1].code \in Begins /\ k + 1 # 1
            BY <1>3, <5>1
          <6> QED BY <1>2, <1>3, <1>6, <3>2, <6>1 DEF Owed, Tame
        <5> QED BY <5>1 DEF Offers
      <4>5. Owed'
        BY <1>1, <1>2, <1>4, <4>3, <4>4 DEF Owed
      <4>6. Acting'
        BY <1>1, <2>1, <3>1, <3>2, <4>3 DEF Acting, CanCommand, QuietPlaces
      <4>7. AwaitsBegin /\ Transferring /\ Transferring' /\ ~AwaitsBegin' /\ Begun
        BY <1>1, <4>2, <4>3 DEF Transferring, AwaitsBegin, Begun
      <4>8. Connection'
        BY <1>1, <1>2, <4>3, <4>7 DEF Connection
      <4>9. Whole'
        BY <1>1, <1>2, <4>3, <4>7 DEF Whole
      <4> QED BY <4>5, <4>6, <4>8, <4>9
    <3>3. CASE l.code \notin Begins
      <4>1. Ends(Untaken[1])
        BY <1>3, <1>8, <3>1, <3>3 DEF Ends
      <4>2. asked = <<>> /\ serving \notin Transfers
        BY <1>2, <1>6, <4>1 DEF Owed, Tame
      <4>3. Farewell(Untaken')
        <5>1. ASSUME NEW k \in 1 .. Len(Untaken') PROVE Untaken'[k].code = 421
          <6>1. k + 1 \in 1 .. Len(Untaken) /\ Untaken'[k] = Untaken[k + 1] /\ 1 < k + 1
            BY <1>3
          <6> QED BY <1>2, <1>6, <4>1, <6>1 DEF Owed, Tame
        <5> QED BY <5>1 DEF Farewell
      <4>4. Quiet' /\ ~Offers(Untaken')
        BY <1>1, <1>3, <4>2, <4>3, FarewellTame DEF Quiet
      <4>5. Owed'
        BY <1>1, <1>2, <1>4, <4>2, <4>4 DEF Owed
      <4>6. Acting'
        BY <1>1, <2>1, <3>1, <3>3, <4>4 DEF Acting, Returns
      <4>7. (Transferring' => AwaitsBegin /\ at' = "begin") /\ (AwaitsBegin => Transferring')
            /\ ~AwaitsBegin'
        BY <1>1, <3>1 DEF Transferring, AwaitsBegin, Returns
      <4>8. Connection'
        <5>1. AwaitsBegin => Transferring
          BY DEF Transferring
        <5>2. Transferring => AwaitsBegin
          BY <1>1 DEF Transferring
        <5> QED BY <1>1, <1>2, <3>1, <4>7, <5>1, <5>2 DEF Connection, Returns
      <4>9. ~Begun' /\ at' \notin {"xfer", "in"}
        <5>1. 150 \in Begins
          BY OneBegin
        <5> QED BY <2>1, <3>1, <3>3, <4>7, <5>1 DEF Begun, Returns
      <4> QED BY <4>5, <4>6, <4>8, <4>9 DEF Whole
    <3> QED BY <3>2, <3>3
  <2> QED BY <1>3, <2>2, <2>3 DEF ClientInv, FtpTypes
<1> QED BY <1>7, <1>8

(* Steps outside a transfer that send nothing.                              *)
LEMMA OutsideStep ==
  ASSUME ClientInv, at \notin {"wait", "done"}, ~Transferring, ~Transferring',
         UNCHANGED <<up, wire, reader, asked, serving, last, answers, data>>,
         at' \in ClientPlaces, ret' \in Returns, servstate' \in {-1} \cup (Nat \ {0}),
         moved' \in 0 .. Size, left' \in 0 .. Size, todo' \in 0 .. Size, job' \in DOMAIN Transfer,
         at' = "wait" => servstate' = -1, at' # "quit", at' = "prompt" => servstate' > 0,
         at' \in {"main", "back", "list", "passive"} => servstate' \notin Begins,
         servstate' > 0 => answers = last,
         CanCommand' => Quiet
  PROVE  ClientInv'
<1>1. LineTypes' /\ Owed' /\ (Quiet => Quiet')
  BY MovesOn
<1>2. FtpTypes'
  BY <1>1 DEF ClientInv, FtpTypes, ClientTypes
<1>3. at' \notin {"xfer", "in", "out", "begin", "opened"}
  BY DEF Transferring
<1>4. Acting'
  BY <1>1, <1>3 DEF Acting
<1>5. Connection /\ ~AwaitsBegin'
  BY DEF ClientInv, Transferring
<1>6. Connection'
  BY <1>3, <1>5 DEF Connection
<1>7. Whole'
  BY <1>3, <1>5 DEF Whole, Begun
<1> QED BY <1>1, <1>2, <1>4, <1>6, <1>7 DEF ClientInv

LEMMA MainStep == ASSUME ClientInv, Main PROVE ClientInv'
<1>1. /\ at = "main"
      /\ UNCHANGED <<up, wire, reader, answers, job, todo, moved, data, left, serving>>
  BY DEF Main, xfer
<1>2. /\ FtpTypes /\ Acting /\ ~Transferring /\ servstate \notin Begins
      /\ servstate \in {-1} \cup (Nat \ {0}) /\ ret \in Returns
      /\ moved \in 0 .. Size /\ left \in 0 .. Size /\ todo \in 0 .. Size /\ job \in DOMAIN Transfer
  BY <1>1 DEF ClientInv, Acting, Transferring, AwaitsBegin, FtpTypes, ClientTypes
<1>3. servstate > 0 => CanCommand /\ Quiet /\ answers = last
  BY <1>1, <1>2 DEF Acting, CanCommand
<1>4. CASE servstate < 0
  <2>1. at' = "wait" /\ ret' = "main" /\ UNCHANGED <<asked, last, servstate>> /\ servstate = -1
    BY <1>2, <1>4 DEF Main
  <2>2. ~Transferring' /\ ~CanCommand'
    BY <2>1 DEF Transferring, AwaitsBegin, CanCommand, QuietPlaces
  <2>3. at' \in ClientPlaces /\ ret' \in Returns
    BY <2>1 DEF ClientPlaces, Returns
  <2> QED BY <1>1, <1>2, <2>1, <2>2, <2>3, OutsideStep
<1>5. ASSUME ~(servstate < 0), Command("SYST", "main") PROVE ClientInv'
  <2>1. servstate > 0
    BY <1>2, <1>5
  <2>2. "main" \in Returns /\ "SYST" \in Commands /\ "SYST" \notin Transfers
    BY KnownCommands DEF Returns
  <2> QED BY <1>1, <1>2, <1>3, <1>5, <2>1, <2>2, PlainCommand
<1>6. ASSUME ~(servstate < 0), NEW what \in {"user", "password", "account", "prompt", "spin"}, Ask(what)
      PROVE  ClientInv'
  <2>1. servstate > 0 /\ at' = what /\ UNCHANGED <<asked, last, ret, servstate>>
    BY <1>2, <1>6 DEF Ask
  <2>2. at' \in ClientPlaces /\ ~Transferring' /\ at' \notin {"main", "back", "wait", "list", "passive"}
    BY <2>1 DEF Transferring, AwaitsBegin, ClientPlaces
  <2> QED BY <1>1, <1>2, <1>3, <2>1, <2>2, OutsideStep
<1>7. servstate < 0 \/ Command("SYST", "main")
      \/ \E what \in {"user", "password", "account", "prompt", "spin"} : Ask(what)
  BY DEF Main
<1> QED BY <1>4, <1>5, <1>6, <1>7

(* A place at which the program sends a command outside a transfer.         *)
LEMMA Ready ==
  ASSUME ClientInv, at \in QuietPlaces
  PROVE  /\ CanCommand /\ Quiet /\ at # "done" /\ at # "wait"
         /\ at # "opened" => ~Transferring
         /\ ret \in Returns /\ servstate \in {-1} \cup (Nat \ {0})
         /\ moved \in 0 .. Size /\ left \in 0 .. Size /\ todo \in 0 .. Size
         /\ job \in DOMAIN Transfer /\ data \in [st : Links, q : {0, 1}]
         /\ servstate > 0 => answers = last
BY DEF ClientInv, Acting, CanCommand, QuietPlaces, Transferring, AwaitsBegin, FtpTypes, ClientTypes

LEMMA TypedStep == ASSUME ClientInv, Typed PROVE ClientInv'
<1>1. /\ at \in {"user", "password", "account"}
      /\ UNCHANGED <<up, wire, reader, answers, job, todo, moved, data, left, serving>>
      /\ \E cmd \in {"USER", "PASS", "ACCT"} : Command(cmd, "main")
  BY DEF Typed, xfer
<1>2. at \in QuietPlaces /\ at # "opened" /\ "main" \in Returns
      /\ {"USER", "PASS", "ACCT"} \subseteq Commands \ Transfers
  BY <1>1, KnownCommands DEF QuietPlaces, Returns
<1> QED BY <1>1, <1>2, Ready, PlainCommand

LEMMA PasvStep == ASSUME ClientInv, Pasv PROVE ClientInv'
<1>1. /\ at = "typed" /\ Command("PASV", "passive")
      /\ UNCHANGED <<up, wire, reader, answers, job, todo, moved, data, left, serving>>
  BY DEF Pasv, xfer
<1>2. at \in QuietPlaces /\ at # "opened" /\ "passive" \in Returns
      /\ "PASV" \in Commands /\ "PASV" \notin Transfers
  BY <1>1, KnownCommands DEF QuietPlaces, Returns
<1> QED BY <1>1, <1>2, Ready, PlainCommand

LEMMA ParseStep == ASSUME ClientInv, Parse PROVE ClientInv'
<1>1. /\ at = "prompt" /\ moved' = 0
      /\ UNCHANGED <<up, wire, reader, answers, todo, data, left, serving>>
  BY DEF Parse
<1>2. /\ at \in QuietPlaces /\ at # "opened" /\ {"main", "quit", "typed"} \subseteq Returns
      /\ {"CWD", "QUIT", "TYPE"} \subseteq Commands \ Transfers
  BY <1>1, KnownCommands DEF QuietPlaces, Returns
<1>3. moved' \in 0 .. Size
  BY <1>1, FtpNumbers
<1>4. CASE \E cmd \in {"CWD", "QUIT", "TYPE"}, to \in {"main", "quit", "typed"} : Command(cmd, to)
  <2>1. job' \in DOMAIN Transfer
    BY <1>2, Ready, KnownCommands DEF Parse
  <2> QED BY <1>1, <1>2, <1>3, <1>4, <2>1, Ready, PlainCommand
<1>5. CASE at' = "main" /\ servstate' = 200 /\ UNCHANGED <<asked, last, ret, job>>
  <2>1. ~Transferring' /\ at' \in ClientPlaces /\ 200 \notin Begins
    BY <1>5, FtpAssumption DEF Transferring, AwaitsBegin, ClientPlaces
  <2>2. answers = last
    BY <1>1 DEF ClientInv, Acting
  <2> QED BY <1>1, <1>2, <1>3, <1>5, <2>1, <2>2, Ready, OutsideStep
<1> QED BY <1>4, <1>5 DEF Parse

LEMMA QuitStep == ASSUME ClientInv, Quit PROVE ClientInv'
<1>1. /\ at = "quit" /\ at' = "wait" /\ servstate' = -1
      /\ UNCHANGED <<up, wire, reader, asked, ret, last, answers, job, todo, moved, data, left, serving>>
  BY DEF Quit, ctl, xfer
<1>2. at \in QuietPlaces /\ at # "opened" /\ ret = "quit"
  BY <1>1 DEF QuietPlaces, ClientInv, Acting
<1>3. at' \in ClientPlaces /\ ~Transferring' /\ ~CanCommand'
  BY <1>1, <1>2 DEF ClientPlaces, Transferring, AwaitsBegin, CanCommand, QuietPlaces
<1> QED BY <1>1, <1>2, <1>3, Ready, OutsideStep

LEMMA OpenStep == ASSUME ClientInv, Open PROVE ClientInv'
<1>1. /\ at = "passive"
      /\ UNCHANGED <<up, wire, reader, asked, ret, servstate, last, answers, job, todo, moved, left, serving>>
      /\ \/ at' = "back" /\ UNCHANGED data
         \/ servstate = 227 /\ data.st = "wait" /\ data' = [data EXCEPT !.st = "open"] /\ at' = "opened"
  BY DEF Open, ctl
<1>2. at \in QuietPlaces /\ at # "opened" /\ servstate \notin Begins
  BY <1>1 DEF QuietPlaces, ClientInv, Acting
<1>3. CASE at' = "back" /\ UNCHANGED data
  <2>1. at' \in ClientPlaces /\ ~Transferring'
    BY <1>1, <1>3 DEF ClientPlaces, Transferring, AwaitsBegin
  <2> QED BY <1>1, <1>2, <1>3, <2>1, Ready, OutsideStep
<1>4. CASE data.st = "wait" /\ data' = [data EXCEPT !.st = "open"] /\ at' = "opened"
  <2>1. LineTypes' /\ Owed' /\ Quiet'
    BY <1>1, <1>2, Ready, MovesOn
  <2>2. FtpTypes /\ Connection /\ Acting
    BY <1>1 DEF ClientInv
  <2>3. data' \in [st : Links, q : {0, 1}] /\ data'.st = "open" /\ data'.q = 0
    BY <1>2, <1>4, <2>2, Ready DEF Connection, Links
  <2>4. FtpTypes'
    BY <1>1, <1>4, <2>1, <2>2, <2>3 DEF FtpTypes, ClientTypes, ClientPlaces
  <2>5. Acting'
    BY <1>1, <1>4, <2>1, <2>2 DEF Acting
  <2>6. Connection' /\ Whole'
    BY <1>4, <2>3 DEF Connection, Whole, Begun, Transferring, AwaitsBegin
  <2> QED BY <2>1, <2>4, <2>5, <2>6 DEF ClientInv
<1> QED BY <1>1, <1>3, <1>4

LEMMA RetrieveStep == ASSUME ClientInv, Retrieve PROVE ClientInv'
<1> DEFINE cmd == Transfer[job]
<1>1. /\ at = "opened" /\ Command(cmd, "begin")
      /\ UNCHANGED <<up, wire, reader, answers, job, todo, moved, data, left, serving>>
  BY DEF Retrieve, xfer
<1>2. at \in QuietPlaces /\ FtpTypes /\ Connection
  BY <1>1 DEF QuietPlaces, ClientInv
<1>3. cmd \in Transfers /\ cmd \in Commands /\ "begin" \in Returns
  BY <1>2, KnownCommands, Ready DEF Returns
<1> HIDE DEF cmd
<1>4. /\ LineTypes' /\ at' \in {"wait", "done"} /\ ret' \in Returns
      /\ servstate' \in {-1} \cup (Nat \ {0})
      /\ asked' = <<>> \/ (asked' = <<last'>> /\ last' \in Commands)
      /\ at' # "done" => /\ Owed' /\ Acting' /\ ~Offers(Untaken')
                         /\ ret' = "begin" /\ last' = cmd /\ asked' # <<>>
  BY <1>1, <1>2, <1>3, Ready, CommandOwed
<1>5. FtpTypes'
  BY <1>1, <1>2, <1>4, Ready DEF FtpTypes, ClientTypes, ClientPlaces
<1>6. ASSUME at' # "done" PROVE Connection' /\ Whole'
  <2>1. at' = "wait" /\ ret' = "begin" /\ last' = cmd /\ ~Offers(Untaken')
    BY <1>4, <1>6
  <2>2. data.st = "open" /\ data.q = 0
    BY <1>1, <1>2 DEF Connection
  <2>3. Transferring' /\ AwaitsBegin'
    BY <2>1 DEF Transferring, AwaitsBegin
  <2>4. Connection'
    BY <1>1, <2>1, <2>2, <2>3 DEF Connection, cmd
  <2>5. Whole'
    BY <2>1 DEF Whole, Begun
  <2> QED BY <2>4, <2>5
<1> QED BY <1>4, <1>5, <1>6 DEF ClientInv

(* A transfer that ends, or does not take place, closes its connection.     *)
LEMMA TransferOver ==
  ASSUME ClientInv, at \in {"begin", "xfer", "in", "out"}, at' \in {"back", "done"},
         UNCHANGED <<up, wire, reader, asked, ret, last, answers, job, todo, serving>>,
         moved' \in 0 .. Size, left' \in 0 .. Size,
         Sockclose \/ data' = [st |-> "full", q |-> 0],
         servstate' = -1 \/ (at = "begin" /\ servstate' = servstate /\ servstate \notin Begins)
  PROVE  ClientInv'
<1>1. LineTypes' /\ Owed' /\ (Quiet => Quiet')
  BY MovesOn
<1>2. FtpTypes /\ Acting
  BY DEF ClientInv
<1>3. /\ data' \in [st : Links, q : {0, 1}] /\ data'.st \in {"shut", "full"}
      /\ data'.st = "full" => data'.q = 0
  <2>1. data \in [st : Links, q : {0, 1}]
    BY <1>2 DEF FtpTypes, ClientTypes
  <2> QED BY <2>1 DEF Sockclose, Links
<1>4. FtpTypes'
  BY <1>1, <1>2, <1>3 DEF FtpTypes, ClientTypes, ClientPlaces
<1>5. ASSUME at' = "back" PROVE Acting'
  <2>1. CASE servstate' = -1
    BY <1>5, <2>1, FtpAssumption DEF Acting, CanCommand, QuietPlaces
  <2>2. CASE at = "begin" /\ servstate' = servstate /\ servstate \notin Begins
    BY <1>1, <1>2, <1>5, <2>2 DEF Acting, CanCommand
  <2> QED BY <2>1, <2>2
<1>6. ASSUME at' = "back" PROVE Connection' /\ Whole'
  <2>1. ~Transferring' /\ ~AwaitsBegin'
    BY <1>6 DEF Transferring, AwaitsBegin
  <2> QED BY <1>3, <1>6, <2>1 DEF Connection, Whole, Begun
<1> QED BY <1>1, <1>4, <1>5, <1>6 DEF ClientInv

LEMMA Known2 ==
  ASSUME ClientInv
  PROVE  /\ moved \in 0 .. Size /\ left \in 0 .. Size /\ Size \in Nat
         /\ data \in [st : Links, q : {0, 1}] /\ data.q \in {0, 1}
         /\ at # "done" => Owed /\ Acting /\ Connection /\ Whole
BY FtpNumbers DEF ClientInv, FtpTypes, ClientTypes

LEMMA RefusedStep == ASSUME 125 \notin Begins, ClientInv, Refused PROVE ClientInv'
<1>1. /\ at = "begin" /\ servstate # 150 /\ at' = "back" /\ Sockclose
      /\ UNCHANGED <<up, wire, reader, asked, ret, servstate, last, answers, job, todo, moved, left, serving>>
  BY DEF Refused, ctl
<1>2. servstate \notin Begins
  BY <1>1, OneBegin
<1> QED BY <1>1, <1>2, Known2, TransferOver

(* A step inside a transfer that keeps its number and its connection.       *)
LEMMA InsideStep ==
  ASSUME 125 \notin Begins, ClientInv, at \in {"begin", "xfer", "in", "out"}, at' \in {"xfer", "in", "out"},
         UNCHANGED <<up, wire, reader, asked, ret, servstate, last, answers, job, todo, serving>>,
         servstate = 150, moved' \in 0 .. Size, left' \in 0 .. Size,
         data' \in [st : Links, q : {0, 1}],
         at' = "in" => job # "put", at' = "out" => job = "put",
         job # "put" => data'.st = data.st,
         data'.st \in {"none", "wait", "reset", "full"} => data'.q = 0,
         job # "put" /\ data.st \in {"open", "fin"} =>
           moved' + data'.q + left' = Size /\ (data.st = "fin" => left' = 0)
  PROVE  ClientInv'
<1>1. LineTypes' /\ Owed'
  BY MovesOn
<1>2. FtpTypes /\ Acting /\ Connection
  BY DEF ClientInv
<1>3. FtpTypes'
  BY <1>1, <1>2 DEF FtpTypes, ClientTypes, ClientPlaces
<1>4. Acting'
  BY <1>2, FtpAssumption DEF Acting, CanCommand, QuietPlaces
<1>5. Transferring /\ Transferring' /\ ~AwaitsBegin' /\ at # "opened" /\ at' # "opened" /\ ~Begun'
  BY DEF Transferring, AwaitsBegin, Begun
<1>6. Connection'
  BY <1>2, <1>5 DEF Connection
<1>7. Whole'
  BY <1>5 DEF Whole
<1> QED BY <1>1, <1>3, <1>4, <1>6, <1>7 DEF ClientInv

LEMMA BeginStep == ASSUME 125 \notin Begins, ClientInv, Begin PROVE ClientInv'
<1>1. /\ at = "begin" /\ servstate = 150 /\ moved' = 0
      /\ left' = (IF job = "put" THEN Size ELSE left)
      /\ UNCHANGED <<up, wire, reader, asked, ret, last, answers, job, todo, serving>>
      /\ \/ at' = "xfer" /\ UNCHANGED <<data, servstate>>
         \/ at' \in {"back", "done"} /\ Sockclose /\ servstate' = -1
  BY DEF Begin, ctl
<1>2. moved' \in 0 .. Size /\ left' \in 0 .. Size
  BY <1>1, Known2
<1>3. CASE at' = "xfer" /\ UNCHANGED <<data, servstate>>
  <2>1. Connection /\ Whole /\ Begun
    BY <1>1, Known2 DEF Begun
  <2>2. job # "put" /\ data.st \in {"open", "fin"} =>
           moved' + data'.q + left' = Size /\ (data.st = "fin" => left' = 0)
    BY <1>1, <1>3, <2>1, Known2 DEF Whole
  <2> QED BY <1>1, <1>2, <1>3, <2>1, <2>2, Known2, InsideStep DEF Connection
<1>4. CASE at' \in {"back", "done"} /\ Sockclose /\ servstate' = -1
  BY <1>1, <1>2, <1>4, TransferOver
<1> QED BY <1>1, <1>3, <1>4

LEMMA DataStep == ASSUME 125 \notin Begins, ClientInv, Data PROVE ClientInv'
<1>1. /\ at = "xfer" /\ at' = (IF job = "put" THEN "out" ELSE "in")
      /\ UNCHANGED <<up, wire, reader, asked, ret, servstate, last, answers, job, todo, moved, data, left, serving>>
  BY DEF Data, ctl, xfer
<1>2. Acting /\ Connection /\ Whole
  BY <1>1, Known2
<1>3. servstate = 150
  BY <1>1, <1>2 DEF Acting
<1>4. job # "put" /\ data.st \in {"open", "fin"} =>
         moved' + data'.q + left' = Size /\ (data.st = "fin" => left' = 0)
  BY <1>1, <1>2 DEF Whole
<1> QED BY <1>1, <1>2, <1>3, <1>4, Known2, InsideStep DEF Connection

LEMMA InReadStep == ASSUME 125 \notin Begins, ClientInv, InRead PROVE ClientInv'
<1>1. /\ at = "in" /\ data.q > 0 /\ data' = [data EXCEPT !.q = @ - 1] /\ moved' = moved + 1
      /\ UNCHANGED <<up, wire, reader, asked, at, ret, servstate, last, answers, job, todo, left, serving>>
  BY DEF InRead, ctl, prog
<1>2. Acting /\ Connection /\ Whole
  BY <1>1, Known2
<1>3. servstate = 150 /\ job # "put" /\ data.st \in {"open", "fin"} /\ data.q = 1
  <2>1. Transferring
    BY <1>1 DEF Transferring
  <2> QED BY <1>1, <1>2, <2>1, Known2 DEF Acting, Connection
<1>4. data' \in [st : Links, q : {0, 1}] /\ data'.st = data.st /\ data'.q = 0
  BY <1>1, <1>3, Known2
<1>5. /\ moved + 1 + left = Size /\ (data.st = "fin" => left = 0)
  BY <1>1, <1>2, <1>3, Known2 DEF Whole
<1>6. moved' \in 0 .. Size /\ left' \in 0 .. Size /\ moved' + data'.q + left' = Size
  BY <1>1, <1>4, <1>5, Known2
<1> QED BY <1>1, <1>3, <1>4, <1>5, <1>6, InsideStep

LEMMA InEndStep == ASSUME ClientInv, InEnd \/ InFull \/ OutEnd PROVE ClientInv'
<1>1. /\ at \in {"in", "out"} /\ at' = "back" /\ servstate' = -1
      /\ Sockclose \/ data' = [st |-> "full", q |-> 0]
      /\ UNCHANGED <<up, wire, reader, asked, ret, last, answers, job, todo, moved, left, serving>>
  BY DEF InEnd, InFull, OutEnd, TransferEnds, ctl
<1> QED BY <1>1, Known2, TransferOver

LEMMA OutWriteStep == ASSUME 125 \notin Begins, ClientInv, OutWrite PROVE ClientInv'
<1>1. /\ at = "out" /\ left > 0 /\ left' = left - 1
      /\ UNCHANGED <<up, wire, reader, asked, ret, servstate, last, answers, job, todo, moved, serving>>
      /\ \/ data.st = "open" /\ data' = [data EXCEPT !.q = 1] /\ at' = "out"
         \/ Sockclose /\ at' = "xfer"
  BY DEF OutWrite, ctl
<1>2. Acting /\ Connection
  BY <1>1, Known2
<1>3. servstate = 150 /\ job = "put"
  BY <1>1, <1>2 DEF Acting, Connection
<1>4. left' \in 0 .. Size
  BY <1>1, Known2
<1>5. /\ data' \in [st : Links, q : {0, 1}] /\ data'.st \in {"open", "shut"}
  BY <1>1, Known2 DEF Sockclose, Links
<1> QED BY <1>1, <1>3, <1>4, <1>5, Known2, InsideStep

LEMMA ListedStep == ASSUME ClientInv, Listed PROVE ClientInv'
<1>1. /\ at = "back"
      /\ IF servstate < 0 THEN at' = "wait" /\ ret' = "list" ELSE at' = "list" /\ UNCHANGED ret
      /\ UNCHANGED <<up, wire, reader, asked, servstate, last, answers, job, todo, moved, data, left, serving>>
  BY DEF Listed, ctl, xfer
<1>2. /\ ret \in Returns /\ servstate \in {-1} \cup (Nat \ {0}) /\ todo \in 0 .. Size
      /\ job \in DOMAIN Transfer
  BY DEF ClientInv, FtpTypes, ClientTypes
<1>3. Acting
  BY <1>1, Known2
<1>4. servstate > 0 => Quiet
  BY <1>1, <1>3 DEF Acting, CanCommand
<1>5. at' \in ClientPlaces /\ ret' \in Returns /\ ~Transferring /\ ~Transferring'
  BY <1>1, <1>2 DEF ClientPlaces, Returns, Transferring, AwaitsBegin
<1>6. servstate \notin Begins /\ (servstate > 0 => answers = last)
  BY <1>1, <1>3 DEF Acting
<1>7. servstate < 0 => ~CanCommand' /\ servstate = -1
  BY <1>1, <1>2 DEF CanCommand, QuietPlaces
<1> QED BY <1>1, <1>2, <1>4, <1>5, <1>6, <1>7, Known2, OutsideStep

LEMMA FetchStep == ASSUME ClientInv, Fetch PROVE ClientInv'
<1> DEFINE n == IF job = "names" THEN moved ELSE todo
<1>1. /\ at = "list"
      /\ IF n > 0 THEN todo' = n - 1 /\ job' = "many" /\ Command("TYPE", "typed")
         ELSE todo' = 0 /\ job' = "get" /\ at' = "main" /\ UNCHANGED <<asked, last, ret, servstate>>
      /\ UNCHANGED <<up, wire, reader, answers, moved, data, left, serving>>
  BY DEF Fetch, xfer
<1>2. n \in 0 .. Size
  BY Known2 DEF ClientInv, FtpTypes, ClientTypes
<1> HIDE DEF n
<1>3. /\ at \in QuietPlaces /\ at # "opened" /\ {"main", "typed"} \subseteq Returns
      /\ "TYPE" \in Commands /\ "TYPE" \notin Transfers /\ {"many", "get"} \subseteq DOMAIN Transfer
  BY <1>1, KnownCommands DEF QuietPlaces, Returns
<1>4. CASE n > 0
  <2>1. todo' \in 0 .. Size /\ job' \in DOMAIN Transfer
    BY <1>1, <1>2, <1>3, <1>4, FtpNumbers
  <2> QED BY <1>1, <1>3, <1>4, <2>1, Ready, PlainCommand
<1>5. CASE ~(n > 0)
  <2>1. todo' \in 0 .. Size /\ job' \in DOMAIN Transfer
    BY <1>1, <1>3, <1>5, FtpNumbers
  <2>2. at' \in ClientPlaces /\ ~Transferring'
    BY <1>1, <1>5 DEF ClientPlaces, Transferring, AwaitsBegin
  <2>3. servstate \notin Begins
    BY <1>1 DEF ClientInv, Acting
  <2> QED BY <1>1, <1>3, <1>5, <2>1, <2>2, <2>3, Ready, OutsideStep
<1> QED BY <1>4, <1>5

LEMMA SingleStep == ASSUME ClientInv, Single PROVE ClientInv'
<1>1. /\ at = "back" /\ at' = "main"
      /\ UNCHANGED <<up, wire, reader, asked, ret, servstate, last, answers, job, todo, moved, data, left, serving>>
  BY DEF Single, ctl, xfer
<1>2. /\ ret \in Returns /\ servstate \in {-1} \cup (Nat \ {0}) /\ todo \in 0 .. Size
      /\ job \in DOMAIN Transfer
  BY DEF ClientInv, FtpTypes, ClientTypes
<1>3. Acting
  BY <1>1, Known2
<1>4. at' \in ClientPlaces /\ ~Transferring /\ ~Transferring'
  BY <1>1 DEF ClientPlaces, Transferring, AwaitsBegin
<1>5. CanCommand' => Quiet
  BY <1>1, <1>3 DEF Acting, CanCommand, QuietPlaces
<1>6. servstate \notin Begins /\ (servstate > 0 => answers = last)
  BY <1>1, <1>3 DEF Acting
<1> QED BY <1>1, <1>2, <1>4, <1>5, <1>6, Known2, OutsideStep

-----------------------------------------------------------------------------
(* The steps of the server and the network.                                 *)

LEMMA SentOne ==
  ASSUME LineTypes, NEW a \in Lines, wire' = Append(wire, a), UNCHANGED <<up, reader>>
  PROVE  LineTypes' /\ Untaken' = Append(Untaken, a) /\ Untaken \in Seq(Lines)
<1>1. wire \in Seq(Lines) /\ lines \in Seq(Lines) /\ ready \in Seq(Lines) /\ Untaken \in Seq(Lines)
  BY UntakenType DEF LineTypes
<1>2. /\ ready \o (lines \o Append(wire, a)) = Append(ready \o (lines \o wire), a)
      /\ Append(wire, a) \in Seq(Lines)
  <2>1. wire \in Seq(Lines) /\ lines \in Seq(Lines) /\ ready \in Seq(Lines) /\ a \in Lines
    BY <1>1
  <2> QED BY ONLY <2>1, PutLine
<1>3. UNCHANGED <<lines, part, ready>>
  BY DEF reader
<1> QED BY <1>1, <1>2, <1>3 DEF LineTypes, Untaken

LEMMA SentTwo ==
  ASSUME LineTypes, NEW a \in Lines, NEW b \in Lines, wire' = Append(Append(wire, a), b),
         UNCHANGED <<up, reader>>
  PROVE  LineTypes' /\ Untaken' = Append(Append(Untaken, a), b) /\ Untaken \in Seq(Lines)
<1>1. wire \in Seq(Lines) /\ lines \in Seq(Lines) /\ ready \in Seq(Lines) /\ Untaken \in Seq(Lines)
  BY UntakenType DEF LineTypes
<1> DEFINE w == Append(wire, a)
<1>2. ready \o (lines \o w) = Append(ready \o (lines \o wire), a) /\ w \in Seq(Lines)
  <2>1. wire \in Seq(Lines) /\ lines \in Seq(Lines) /\ ready \in Seq(Lines) /\ a \in Lines
    BY <1>1
  <2> QED BY ONLY <2>1, PutLine
<1>3. wire' = Append(w, b)
  OBVIOUS
<1> HIDE DEF w
<1>4. /\ ready \o (lines \o Append(w, b)) = Append(ready \o (lines \o w), b)
      /\ Append(w, b) \in Seq(Lines)
  <2>1. w \in Seq(Lines) /\ lines \in Seq(Lines) /\ ready \in Seq(Lines) /\ b \in Lines
    BY <1>1, <1>2
  <2> QED BY ONLY <2>1, PutLine
<1>5. UNCHANGED <<lines, part, ready>>
  BY DEF reader
<1>6. Untaken' = Append(Append(Untaken, a), b)
  BY <1>2, <1>3, <1>4, <1>5 DEF Untaken
<1> QED BY <1>1, <1>3, <1>4, <1>5, <1>6 DEF LineTypes

(* The lines of an answer end it, or begin a transfer.                      *)
LEMMA AnswerOwed ==
  ASSUME FtpTypes, at # "done" => Owed, asked # <<>>, NEW n \in Codes[last], NEW long,
         long => last = "PASS", UNCHANGED <<up, reader, last>>, asked' = <<>>,
         wire' = wire \o (IF long THEN <<Line(n, TRUE, last)>> ELSE <<>>) \o <<Line(n, FALSE, last)>>,
         n \notin Begins => serving' \notin Transfers
  PROVE  /\ LineTypes'
         /\ at # "done" => /\ Tame(Untaken', asked', serving', last')
                           /\ Offers(Untaken') <=> n \in Begins
<1> DEFINE a == Line(n, TRUE, last)
           b == Line(n, FALSE, last)
<1>1. LineTypes /\ last \in Commands /\ wire \in Seq(Lines)
  BY DEF FtpTypes, ClientTypes, LineTypes
<1>2. n \in Nat \ {0} /\ n # 421 /\ (n \in Begins => last \in Transfers)
  BY <1>1, AnswerCodes
<1>3. /\ a \in Lines /\ a.of = last /\ a.code = n /\ a.more
      /\ b \in Lines /\ b.of = last /\ b.code = n
  BY <1>1, <1>2 DEF Line, Lines
<1>4. wire' = IF long THEN Append(Append(wire, a), b) ELSE Append(wire, b)
  <2>1. wire \o <<a>> = Append(wire, a) /\ Append(wire, a) \in Seq(Lines)
    BY <1>1, <1>3, AppendIsConcat, AppendProperties
  <2>2. Append(wire, a) \o <<b>> = Append(Append(wire, a), b)
    BY <1>3, <2>1, AppendIsConcat
  <2>3. wire \o <<>> = wire /\ wire \o <<b>> = Append(wire, b)
    BY <1>1, <1>3, ConcatEmptySeq, AppendIsConcat
  <2> QED BY <2>1, <2>2, <2>3
<1> HIDE DEF a, b
<1>5. ~Ends(a) /\ (n \in Begins => ~Ends(b))
  BY <1>3 DEF Ends
<1>6. ASSUME at # "done"
      PROVE  /\ Tame(Untaken, asked, serving, last) /\ ~Offers(Untaken)
             /\ \A k \in 1 .. Len(Untaken) : ~Ends(Untaken[k])
  BY <1>6 DEF Owed, Tame
<1>7. CASE ~long
  <2>1. LineTypes' /\ Untaken' = Append(Untaken, b) /\ Untaken \in Seq(Lines)
    BY <1>1, <1>3, <1>4, <1>7, SentOne
  <2>2. ASSUME at # "done"
        PROVE  /\ Tame(Append(Untaken, b), asked', serving', last)
               /\ Offers(Append(Untaken, b)) <=> Offers(Untaken) \/ b.code \in Begins
    BY <1>3, <1>5, <1>6, <2>1, <2>2, TameLast
  <2> QED BY <1>3, <1>6, <2>1, <2>2
<1>8. CASE long
  <2> DEFINE u == Append(Untaken, a)
  <2>1. LineTypes' /\ Untaken' = Append(u, b) /\ Untaken \in Seq(Lines) /\ u \in Seq(Lines)
    <3>1. LineTypes' /\ Untaken' = Append(u, b) /\ Untaken \in Seq(Lines)
      BY <1>1, <1>3, <1>4, <1>8, SentTwo
    <3> QED BY <1>3, <3>1, AppendProperties
  <2>2. n \notin Begins
    BY <1>2, <1>8 DEF Transfers
  <2>3. ASSUME at # "done"
        PROVE  Tame(u, asked, serving, last) /\ ~Offers(u) /\ \A k \in 1 .. Len(u) : ~Ends(u[k])
    <3>1. Tame(u, asked, serving, last) /\ (Offers(u) <=> Offers(Untaken) \/ a.code \in Begins)
      BY <1>3, <1>5, <1>6, <2>1, <2>2, <2>3, TameLast
    <3>2. /\ Len(u) = Len(Untaken) + 1 /\ u[Len(Untaken) + 1] = a /\ Len(Untaken) \in Nat
          /\ \A k \in 1 .. Len(Untaken) : u[k] = Untaken[k]
      BY <1>3, <2>1, AppendProperties
    <3> HIDE DEF u
    <3>3. \A k \in 1 .. Len(u) : k \in 1 .. Len(Untaken) \/ k = Len(Untaken) + 1
      BY <3>2
    <3>4. \A k \in 1 .. Len(u) : ~Ends(u[k])
      BY <1>5, <1>6, <2>3, <3>2, <3>3
    <3> QED BY <1>3, <1>6, <2>2, <2>3, <3>1, <3>4
  <2> HIDE DEF u
  <2>4. ASSUME at # "done"
        PROVE  Tame(Append(u, b), asked', serving', last) /\ (Offers(Append(u, b)) <=> Offers(u) \/ b.code \in Begins)
    BY <1>3, <1>5, <2>1, <2>2, <2>3, <2>4, TameLast
  <2> QED BY <1>3, <2>1, <2>3, <2>4
<1> QED BY <1>7, <1>8

LEMMA AnswerStep == ASSUME ClientInv, Answer PROVE ClientInv'
<1>1. /\ up /\ asked # <<>> /\ serving = "no" /\ asked' = Tail(asked)
      /\ UNCHANGED <<up, reader, at, ret, servstate, last, answers, job, todo, moved>>
  BY DEF Answer, prog
<1>2. FtpTypes /\ asked = <<last>> /\ last \in Commands
  BY <1>1 DEF ClientInv, FtpTypes, ClientTypes
<1>3. Head(asked) = last /\ asked' = <<>>
  BY <1>1, <1>2
<1>4. PICK n \in Codes[last], long \in (IF last = "PASS" THEN BOOLEAN ELSE {FALSE}) :
        /\ wire' = wire \o (IF long THEN <<Line(n, TRUE, last)>> ELSE <<>>) \o <<Line(n, FALSE, last)>>
        /\ data' = (IF n = 227 THEN [Nothing EXCEPT !.st = "wait"] ELSE data)
        /\ IF n \in Begins THEN serving' = last /\ left' = Size
           ELSE serving' = (IF last = "QUIT" THEN "quit" ELSE "no") /\ UNCHANGED left
  BY <1>3 DEF Answer
<1>5. n \notin Begins => serving' \notin Transfers
  BY <1>4 DEF Transfers
<1>6. /\ n \in Nat \ {0} /\ n # 421 /\ (n # 227 \/ last = "PASV")
      /\ n \in Begins => last \in Transfers /\ n # 227
  BY <1>2, AnswerCodes, FtpNumbers
<1>7. at # "done" => Owed /\ Acting /\ Connection /\ Whole
  BY DEF ClientInv
<1>8. /\ LineTypes'
      /\ at # "done" => /\ Tame(Untaken', asked', serving', last')
                        /\ Offers(Untaken') <=> n \in Begins
  BY <1>1, <1>2, <1>3, <1>4, <1>5, <1>7, AnswerOwed
<1>9. data' \in [st : Links, q : {0, 1}] /\ (n = 227 => data'.st = "wait" /\ data'.q = 0)
  BY <1>2, <1>4 DEF FtpTypes, ClientTypes, Nothing, Links
<1>10. ClientTypes'
  <2>1. serving' \in Transfers \cup {"no", "quit"} /\ left' \in 0 .. Size
    BY <1>2, <1>4, <1>6, FtpNumbers DEF FtpTypes, ClientTypes
  <2> QED BY <1>1, <1>2, <1>3, <1>9, <2>1 DEF FtpTypes, ClientTypes
<1>11. ASSUME at # "done" PROVE Owed' /\ Acting' /\ Connection' /\ Whole'
  <2>1. at = "wait" /\ (last \in Transfers => ret = "begin")
    BY <1>1, <1>7, <1>11 DEF Owed
  <2>2. Owed'
    BY <1>1, <1>3, <1>4, <1>5, <1>6, <1>8, <1>11, <2>1 DEF Owed
  <2>3. Acting'
    BY <1>1, <1>7, <1>11, <2>1 DEF Acting, CanCommand, QuietPlaces
  <2>4. (Transferring' <=> Transferring) /\ (AwaitsBegin' <=> AwaitsBegin) /\ (Transferring <=> AwaitsBegin)
    BY <1>1, <2>1 DEF Transferring, AwaitsBegin
  <2>5. AwaitsBegin => n # 227 /\ data' = data /\ data.st = "open" /\ data.q = 0
    <3>1. ASSUME AwaitsBegin PROVE last \in Transfers
      <4>1. last = Transfer[job] /\ job \in DOMAIN Transfer
        BY <1>2, <1>7, <1>11, <2>1, <2>4, <3>1 DEF Connection, FtpTypes, ClientTypes
      <4> QED BY <4>1, KnownCommands
    <3>2. "PASV" \notin Transfers
      BY DEF Transfers
    <3> QED BY <1>1, <1>4, <1>6, <1>7, <1>11, <3>1, <3>2 DEF Connection
  <2>6. Connection'
    <3>1. CASE AwaitsBegin
      BY <1>1, <1>3, <1>7, <1>11, <2>1, <2>4, <2>5, <3>1 DEF Connection
    <3>2. CASE ~AwaitsBegin
      <4>1. data'.st \notin {"open", "fin", "reset"} /\ (data'.st \in {"none", "wait", "reset", "full"} => data'.q = 0)
        BY <1>4, <1>7, <1>9, <1>11, <2>4, <3>2 DEF Connection
      <4> QED BY <1>1, <2>1, <2>4, <3>2, <4>1 DEF Connection
    <3> QED BY <3>1, <3>2
  <2>7. Whole'
    <3>1. ASSUME Begun' PROVE data'.q + left' = Size /\ data'.st # "fin"
      <4>1. AwaitsBegin /\ n \in Begins
        BY <1>1, <1>8, <1>11, <2>1, <2>4, <3>1 DEF Begun
      <4> QED BY <1>4, <2>5, <4>1, FtpNumbers
    <3> QED BY <1>1, <2>1, <3>1 DEF Whole
  <2> QED BY <2>2, <2>3, <2>6, <2>7
<1> QED BY <1>1, <1>8, <1>10, <1>11 DEF ClientInv, FtpTypes

(* The server reads or writes a block, or breaks off.                       *)
LEMMA ServeStep == ASSUME ClientInv, Serve \/ Break PROVE ClientInv'
<1>1. /\ UNCHANGED <<up, wire, asked, reader, at, ret, servstate, last, answers, job, todo, moved, serving>>
      /\ serving \in Transfers
      /\ \/ /\ serving # "STOR" /\ data.st = "open"
            /\ \/ left = 0 /\ data' = [data EXCEPT !.st = "fin"] /\ left' = left
               \/ left # 0 /\ data.q = 0 /\ data' = [data EXCEPT !.q = 1] /\ left' = left - 1
         \/ serving = "STOR" /\ data.q > 0 /\ data' = [data EXCEPT !.q = 0] /\ left' = left
         \/ data.st = "open" /\ data' = [st |-> "reset", q |-> 0] /\ left' = left
  BY DEF Serve, Break, ctl, prog, Transfers
<1>2. FtpTypes /\ left \in 0 .. Size /\ data \in [st : Links, q : {0, 1}] /\ Size \in Nat
  BY FtpNumbers DEF ClientInv, FtpTypes, ClientTypes
<1>3. LineTypes' /\ Untaken' = Untaken
  BY <1>1, <1>2, SameLines DEF FtpTypes
<1>4. left' \in 0 .. Size
  BY <1>1, <1>2
<1>5. /\ data' \in [st : Links, q : {0, 1}]
      /\ data'.st # data.st => data.st = "open" /\ data'.st \in {"fin", "reset"}
      /\ data'.st = "reset" /\ data.st = "open" => data'.q = 0
      /\ data'.st \notin {"open", "fin", "reset"} => data'.q = data.q \/ data'.q = 0
      /\ data'.st = data.st /\ data.st = "reset" => data'.q = data.q \/ data'.q = 0
  BY <1>1, <1>2 DEF Links
<1>6. FtpTypes'
  BY <1>1, <1>2, <1>3, <1>4, <1>5 DEF FtpTypes, ClientTypes
<1>7. ASSUME at # "done" PROVE Owed' /\ Acting' /\ Connection' /\ Whole'
  <2>1. Owed /\ Acting /\ Connection /\ Whole
    BY <1>7 DEF ClientInv
  <2>2. Owed' /\ Acting'
    BY <1>1, <1>3, <2>1 DEF Owed, Acting, CanCommand, Quiet
  <2>3. (Transferring' <=> Transferring) /\ (AwaitsBegin' <=> AwaitsBegin) /\ (Begun' <=> Begun)
    BY <1>1, <1>3 DEF Transferring, AwaitsBegin, Begun
  <2>4. at # "opened" /\ asked = <<>>
    <3>1. asked = <<>>
      BY <1>1, <2>1 DEF Owed
    <3>2. at # "opened"
      BY <1>1, <2>1 DEF Acting, CanCommand, QuietPlaces, Quiet
    <3> QED BY <3>1, <3>2
  <2>5. Connection'
    <3>1. ~Transferring' => data'.st \notin {"open", "fin", "reset"}
      BY <1>5, <2>1, <2>3 DEF Connection
    <3>2. Transferring' /\ at' # "opened" => last' = Transfer[job']
      BY <1>1, <2>1, <2>3 DEF Connection
    <3>3. Transferring' /\ job' # "put" => data'.st \in {"open", "fin", "reset"}
      BY <1>1, <1>5, <2>1, <2>3 DEF Connection
    <3>4. data'.st \in {"none", "wait", "reset", "full"} => data'.q = 0
      BY <1>1, <1>2, <1>5, <2>1 DEF Connection
    <3> QED BY <1>1, <2>1, <2>4, <3>1, <3>2, <3>3, <3>4 DEF Connection
  <2>6. Whole'
    <3> SUFFICES ASSUME job # "put", data'.st \in {"open", "fin"}, Begun \/ at \in {"xfer", "in"}
                 PROVE  /\ Begun => data'.q + left' = Size /\ (data'.st = "fin" => left' = 0)
                        /\ at \in {"xfer", "in"} => /\ moved + data'.q + left' = Size
                                                    /\ data'.st = "fin" => left' = 0
      BY <1>1, <2>3 DEF Whole
    <3>1. serving # "STOR"
      <4>1. Transferring /\ at # "opened"
        BY <2>4 DEF Begun, Transferring
      <4>2. serving = Transfer[job] /\ job \in DOMAIN Transfer
        BY <1>1, <1>2, <2>1, <4>1 DEF Owed, Connection, FtpTypes, ClientTypes
      <4> QED BY <4>2, KnownCommands
    <3>2. /\ data.st = "open"
          /\ \/ left = 0 /\ data'.q = data.q /\ left' = left
             \/ left # 0 /\ data.q = 0 /\ data'.q = 1 /\ left' = left - 1 /\ data'.st = "open"
      BY <1>1, <1>2, <3>1
    <3>3. moved \in 0 .. Size /\ data.q \in {0, 1}
      BY <1>2 DEF FtpTypes, ClientTypes
    <3>4. /\ Begun => data.q + left = Size
          /\ at \in {"xfer", "in"} => moved + data.q + left = Size
      BY <2>1, <3>2 DEF Whole
    <3> QED BY <1>2, <3>2, <3>3, <3>4
  <2> QED BY <2>2, <2>5, <2>6
<1> QED BY <1>1, <1>6, <1>7 DEF ClientInv

LEMMA FinalStep == ASSUME ClientInv, Final PROVE ClientInv'
<1> DEFINE l == Line(226, FALSE, serving)
<1>1. /\ up /\ serving \in Transfers /\ serving' = "no" /\ wire' = Append(wire, l)
      /\ UNCHANGED <<up, asked, reader, at, ret, servstate, last, answers, job, todo, moved, data, left>>
  BY DEF Final, prog, xfer
<1>2. FtpTypes
  BY DEF ClientInv
<1>3. l \in Lines /\ l.of = serving /\ l.code = 226
  BY <1>1, KnownCommands DEF Line, Lines
<1> HIDE DEF l
<1>4. LineTypes' /\ Untaken' = Append(Untaken, l) /\ Untaken \in Seq(Lines)
  BY <1>1, <1>2, <1>3, SentOne DEF FtpTypes
<1>5. "no" \notin Transfers /\ 226 \notin Begins
  BY FtpNumbers DEF Transfers
<1>6. FtpTypes'
  BY <1>1, <1>2, <1>4 DEF FtpTypes, ClientTypes
<1>7. ASSUME at # "done" PROVE Owed' /\ Acting' /\ Connection' /\ Whole'
  <2>1. Owed /\ Acting /\ Connection /\ Whole
    BY <1>7 DEF ClientInv
  <2>2. /\ asked = <<>> /\ serving = last /\ Tame(Untaken, asked, serving, last)
        /\ \A k \in 1 .. Len(Untaken) : ~Ends(Untaken[k])
    BY <1>1, <2>1 DEF Owed, Tame
  <2>3. Tame(Untaken', asked', serving', last') /\ (Offers(Untaken') <=> Offers(Untaken))
    <3>1. /\ Tame(Append(Untaken, l), <<>>, "no", last)
          /\ Offers(Append(Untaken, l)) <=> Offers(Untaken) \/ l.code \in Begins
      <4>1. Untaken \in Seq(Lines) /\ l \in Lines /\ l.of = last
        BY <1>3, <1>4, <2>2
      <4>2. /\ Tame(Untaken, asked, serving, last) /\ "no" \notin Transfers /\ l.code \notin Begins
            /\ \A k \in 1 .. Len(Untaken) : ~Ends(Untaken[k])
        BY <1>3, <1>5, <2>2
      <4> QED BY ONLY <4>1, <4>2, TameLast
    <3>2. asked' = <<>> /\ serving' = "no" /\ last' = last /\ Untaken' = Append(Untaken, l)
      BY <1>1, <1>4, <2>2
    <3> QED BY <1>3, <1>5, <3>1, <3>2
  <2>4. Owed'
    BY <1>1, <1>5, <2>1, <2>2, <2>3 DEF Owed
  <2>5. Acting'
    <3>1. ~CanCommand /\ (CanCommand' <=> CanCommand)
      BY <1>1, <2>1 DEF Acting, Quiet, CanCommand
    <3> QED BY <1>1, <2>1, <3>1 DEF Acting
  <2>6. (Transferring' <=> Transferring) /\ (AwaitsBegin' <=> AwaitsBegin)
    BY <1>1 DEF Transferring, AwaitsBegin
  <2>7. Begun' <=> Begun
    BY <1>1, <2>3, <2>6 DEF Begun
  <2>8. Connection' /\ Whole'
    BY <1>1, <2>1, <2>6, <2>7 DEF Connection, Whole
  <2> QED BY <2>4, <2>5, <2>8
<1> QED BY <1>1, <1>6, <1>7 DEF ClientInv, FtpTypes

(* The server leaves; what was under way may be lost.                       *)
LEMMA LeaveStep == ASSUME ClientInv, Leave PROVE ClientInv'
<1> DEFINE l == Line(421, FALSE, "bye")
<1>1. /\ up' = FALSE /\ wire' \in {<<>>, wire, Append(wire, l)}
      /\ UNCHANGED <<asked, reader, at, ret, servstate, last, answers, job, todo, moved, data, left, serving>>
  BY DEF Leave, prog, xfer
<1>2. FtpTypes /\ LineTypes
  BY DEF ClientInv, FtpTypes
<1>3. l \in Lines /\ l.code = 421 /\ ~Ends(l) /\ 421 \notin Begins
  BY FtpNumbers DEF Line, Lines, Ends
<1> HIDE DEF l
<1>4. wire \in Seq(Lines) /\ lines \in Seq(Lines) /\ ready \in Seq(Lines) /\ Untaken \in Seq(Lines)
      /\ UNCHANGED <<lines, part, ready>>
  BY <1>1, <1>2, UntakenType DEF LineTypes, reader
<1>5. /\ LineTypes' /\ Untaken' \in Seq(Lines)
      /\ \/ \A k \in 1 .. Len(Untaken') : k + 0 \in 1 .. Len(Untaken) /\ Untaken'[k] = Untaken[k + 0]
         \/ Untaken' = Append(Untaken, l)
  <2>1. CASE wire' = <<>>
    <3>1. LineTypes'
      <4>1. <<>> \in Seq(Lines)
        OBVIOUS
      <4> QED BY <1>1, <1>2, <1>4, <2>1, <4>1 DEF LineTypes
    <3>2. Untaken' = ready \o (lines \o <<>>) /\ Untaken = ready \o (lines \o wire)
      BY <1>4, <2>1 DEF Untaken
    <3>3. /\ ready \o (lines \o <<>>) \in Seq(Lines)
          /\ \A k \in 1 .. Len(ready \o (lines \o <<>>)) :
               /\ k \in 1 .. Len(ready \o (lines \o wire))
               /\ (ready \o (lines \o <<>>))[k] = (ready \o (lines \o wire))[k]
      BY <1>4, LoseWire
    <3>4. /\ Untaken' \in Seq(Lines)
          /\ \A k \in 1 .. Len(Untaken') : k \in 1 .. Len(Untaken) /\ Untaken'[k] = Untaken[k]
      BY <3>2, <3>3
    <3>5. \A k \in 1 .. Len(Untaken') : k + 0 = k
      OBVIOUS
    <3> QED BY <3>1, <3>4, <3>5
  <2>2. CASE wire' = wire
    <3>1. LineTypes' /\ Untaken' = Untaken
      BY <1>1, <1>2, <1>4, <2>2 DEF LineTypes, Untaken
    <3>2. \A k \in 1 .. Len(Untaken) : k + 0 = k
      OBVIOUS
    <3> QED BY <1>4, <3>1, <3>2
  <2>3. CASE wire' = Append(wire, l)
    <3>1. /\ ready \o (lines \o Append(wire, l)) = Append(ready \o (lines \o wire), l)
          /\ Append(wire, l) \in Seq(Lines)
      <4>1. wire \in Seq(Lines) /\ lines \in Seq(Lines) /\ ready \in Seq(Lines) /\ l \in Lines
        BY <1>3, <1>4
      <4> QED BY ONLY <4>1, PutLine
    <3>2. Untaken' = Append(Untaken, l) /\ LineTypes'
      BY <1>1, <1>2, <1>4, <2>3, <3>1 DEF Untaken, LineTypes
    <3>3. Append(Untaken, l) \in Seq(Lines)
      BY <1>3, <1>4, AppendProperties
    <3> QED BY <3>2, <3>3
  <2> QED BY <1>1, <2>1, <2>2, <2>3
<1>6. FtpTypes'
  BY <1>1, <1>2, <1>5 DEF FtpTypes, ClientTypes
<1>7. ASSUME NEW cmds, NEW srv, NEW cmd, Tame(Untaken, cmds, srv, cmd)
      PROVE  /\ Tame(Untaken', cmds, srv, cmd) /\ (Offers(Untaken') => Offers(Untaken))
             /\ Farewell(Untaken) => Farewell(Untaken')
  <2>1. CASE \A k \in 1 .. Len(Untaken') : k + 0 \in 1 .. Len(Untaken) /\ Untaken'[k] = Untaken[k + 0]
    <3>1. 0 \in {0, 1}
      OBVIOUS
    <3> QED BY <1>4, <1>5, <1>7, <2>1, <3>1, TameFewer
  <2>2. CASE Untaken' = Append(Untaken, l)
    <3>1. /\ Tame(Append(Untaken, l), cmds, srv, cmd)
          /\ Offers(Append(Untaken, l)) <=> Offers(Untaken) \/ l.code \in Begins
      <4>1. Untaken \in Seq(Lines) /\ l \in Lines /\ l.code = 421 /\ l.code \notin Begins /\ ~Ends(l)
        BY <1>3, <1>4
      <4> QED BY ONLY <1>7, <4>1, TameLast
    <3>2. Farewell(Untaken) => Farewell(Append(Untaken, l))
      <4>1. /\ Len(Append(Untaken, l)) = Len(Untaken) + 1 /\ Append(Untaken, l)[Len(Untaken) + 1] = l
            /\ \A k \in 1 .. Len(Untaken) : Append(Untaken, l)[k] = Untaken[k]
            /\ Len(Untaken) \in Nat
        BY <1>3, <1>4, AppendProperties
      <4>2. \A k \in 1 .. Len(Untaken) + 1 : k \in 1 .. Len(Untaken) \/ k = Len(Untaken) + 1
        BY <4>1
      <4> QED BY <1>3, <4>1, <4>2 DEF Farewell
    <3> QED BY <1>3, <2>2, <3>1, <3>2
  <2> QED BY <1>5, <2>1, <2>2
<1>8. ASSUME at # "done" PROVE Owed' /\ Acting' /\ Connection' /\ Whole'
  <2>1. Owed /\ Acting /\ Connection /\ Whole
    BY <1>8 DEF ClientInv
  <2>2. /\ Tame(Untaken', asked, serving, last) /\ (Offers(Untaken') => Offers(Untaken))
        /\ Farewell(Untaken) => Farewell(Untaken')
    BY <1>7, <2>1 DEF Owed
  <2>3. Owed'
    BY <1>1, <2>1, <2>2 DEF Owed
  <2>4. Acting'
    BY <1>1, <2>1, <2>2 DEF Acting, CanCommand, Quiet
  <2>5. (Transferring' <=> Transferring) /\ (AwaitsBegin' <=> AwaitsBegin)
    BY <1>1 DEF Transferring, AwaitsBegin
  <2>6. Begun' => Begun
    BY <1>1, <2>2, <2>5 DEF Begun
  <2>7. Connection' /\ Whole'
    BY <1>1, <2>1, <2>5, <2>6 DEF Connection, Whole
  <2> QED BY <2>3, <2>4, <2>7
<1> QED BY <1>1, <1>6, <1>8 DEF ClientInv

(* Nothing that the client sees.                                            *)
LEMMA UnseenStep == ASSUME ClientInv, Closes \/ UNCHANGED ftpVars PROVE ClientInv'
<1>1. /\ up' \in BOOLEAN
      /\ UNCHANGED <<wire, asked, reader, at, ret, servstate, last, answers, job, todo, moved, data, left, serving>>
  BY DEF Closes, ftpVars, ctl, prog, xfer, ClientInv, FtpTypes, LineTypes
<1>2. Untaken' = Untaken /\ UNCHANGED <<lines, part, ready>>
  BY <1>1 DEF Untaken, reader
<1>3. FtpTypes'
  BY <1>1, <1>2 DEF ClientInv, FtpTypes, LineTypes, ClientTypes
<1>4. (Transferring' <=> Transferring) /\ (AwaitsBegin' <=> AwaitsBegin) /\ (Begun' <=> Begun)
  BY <1>1, <1>2 DEF Transferring, AwaitsBegin, Begun
<1>5. Owed /\ Acting => Owed' /\ Acting'
  BY <1>1, <1>2 DEF Owed, Acting, CanCommand, Quiet
<1>6. Connection /\ Whole => Connection' /\ Whole'
  BY <1>1, <1>4 DEF Connection, Whole
<1> QED BY <1>1, <1>3, <1>5, <1>6 DEF ClientInv

LEMMA FtpInvariance == ASSUME 125 \notin Begins PROVE FtpSpec => []ClientInv
<1>1. FtpInit => ClientInv
  BY FtpStart
<1>2. ClientInv /\ [FtpNext]_ftpVars => ClientInv'
  <2> SUFFICES ASSUME ClientInv, [FtpNext]_ftpVars PROVE ClientInv'
    OBVIOUS
  <2>1. CASE Client
    BY <2>1, DoioExitStep, DoioReadStep, WaitioStep, MainStep, QuitStep, PasvStep, OpenStep,
       RetrieveStep, RefusedStep, BeginStep, DataStep, InReadStep, InEndStep, OutWriteStep,
       ListedStep, FetchStep, SingleStep DEF Client
  <2>2. CASE User
    BY <2>2, TypedStep, ParseStep DEF User
  <2>3. CASE FtpServer \/ Break \/ Leave
    BY <2>3, AnswerStep, ServeStep, FinalStep, LeaveStep, UnseenStep DEF FtpServer
  <2>4. CASE Ended \/ UNCHANGED ftpVars
    BY <2>4, UnseenStep DEF Ended
  <2> QED BY <2>1, <2>2, <2>3, <2>4 DEF FtpNext
<1> QED BY <1>1, <1>2, PTL DEF FtpSpec

(* FtpSound, for files and lists of any length: the client's state is well  *)
(* typed and no data connection is left open when the user is asked again   *)
(* (ftp.c:595-640).                                                         *)
THEOREM ClientIsSound ==
  ASSUME 125 \notin Begins
  PROVE  FtpSpec => []FtpSound
<1>1. ClientInv => FtpSound
  <2> SUFFICES ASSUME ClientInv PROVE FtpSound
    OBVIOUS
  <2>1. FtpTypeOK
    <3>1. \A s \in Seq(Lines) : \A k \in DOMAIN s : s[k].code \in Int /\ s[k].more \in BOOLEAN
      <4> SUFFICES ASSUME NEW s \in Seq(Lines), NEW k \in DOMAIN s
                   PROVE  s[k].code \in Int /\ s[k].more \in BOOLEAN
        OBVIOUS
      <4>1. s[k] \in Lines
        BY ElementOfSeq
      <4>2. \A l \in Lines : l.code \in Int /\ l.more \in BOOLEAN
        BY DEF Lines
      <4> QED BY <4>1, <4>2
    <3>2. wire \in Seq(Lines) /\ lines \in Seq(Lines) /\ ready \in Seq(Lines)
      BY UntakenType DEF ClientInv, FtpTypes, LineTypes
    <3>3. \A q \in {wire, lines, ready} : \A k \in DOMAIN q : q[k].code \in Int /\ q[k].more \in BOOLEAN
      BY <3>1, <3>2
    <3>4. Len(ready) \in {0, 1} /\ Len(asked) \in {0, 1}
      BY DEF ClientInv, FtpTypes, LineTypes, ClientTypes
    <3>5. at \in Polling \cup {"main", "spin", "quit", "typed", "passive", "opened", "begin", "xfer",
                               "in", "out", "back", "list", "done"}
      BY DEF ClientInv, FtpTypes, ClientTypes, ClientPlaces, Polling, Asking
    <3> QED BY <3>3, <3>4, <3>5 DEF FtpTypeOK, ClientInv, FtpTypes, LineTypes, ClientTypes, Links
  <2>2. DataClosed
    <3> SUFFICES ASSUME at \in Asking PROVE data.st \notin {"open", "fin", "reset"}
      BY DEF DataClosed
    <3>1. ~Transferring /\ at # "done"
      BY DEF Asking, Transferring, AwaitsBegin
    <3> QED BY <3>1 DEF ClientInv, Connection
  <2> QED BY <2>1, <2>2 DEF FtpSound
<1> QED BY <1>1, FtpInvariance, PTL

(* InStep, for files and lists of any length: with a server that begins its *)
(* transfers with 150 the client never acts on the answer to an earlier     *)
(* command (ftp.c:595).                                                     *)
THEOREM ClientInStep ==
  ASSUME 125 \notin Begins
  PROVE  FtpSpec => []InStep
<1>1. ClientInv => InStep
  BY DEF ClientInv, Acting, InStep
<1> QED BY <1>1, FtpInvariance, PTL

(* FileWhole, for files of any length: a transfer that ends without an      *)
(* error has put every block on the disk (ftp.c:328).                       *)
THEOREM FetchedWhole ==
  ASSUME 125 \notin Begins
  PROVE  FtpSpec => FileWhole
<1>1. ClientInv /\ [FtpNext]_ftpVars =>
        [at = "in" /\ at' = "back" /\ data.st # "reset" /\ data'.st # "full" => moved = Size]_ftpVars
  <2> SUFFICES ASSUME ClientInv, FtpNext, at = "in", at' = "back", data.st # "reset", data'.st # "full"
               PROVE  moved = Size
    BY DEF ftpVars
  <2>1. InEnd
    <3>1. ASSUME InFull PROVE FALSE
      BY <3>1 DEF InFull
    <3>2. ASSUME FtpServer \/ Break \/ Leave PROVE at' = at
      BY <3>2 DEF FtpServer, Answer, Serve, Final, Closes, Break, Leave, prog
    <3>3. \A p \in Polling \cup {"xfer"} : ~DoioExit(p) /\ ~DoioRead(p)
      BY DEF DoioExit, DoioRead, Polling, Asking
    <3>4. ~InRead
      BY DEF InRead, prog
    <3> QED BY <3>1, <3>2, <3>3, <3>4
         DEF FtpNext, Client, User, Waitio, Main, Quit, Pasv, Open, Retrieve, Refused, Begin, Data,
             OutWrite, OutEnd, Listed, Fetch, Single, Typed, Parse, Ended
  <2>2. data.q = 0 /\ data.st = "fin" /\ job # "put"
    BY <2>1 DEF InEnd, ClientInv, Connection
  <2>3. moved + data.q + left = Size /\ left = 0 /\ moved \in 0 .. Size
    BY <2>2, Known2 DEF Whole
  <2> QED BY <2>2, <2>3
<1> QED BY <1>1, FtpInvariance, PTL DEF FtpSpec, FileWhole
=============================================================================
