-------------------------------- MODULE Httpd --------------------------------
(***************************************************************************)
(* The web server: one loop that accepts connections into a table of       *)
(* streams and visits each stream in turn, to read its request, to send a  *)
(* piece of its file or to close it.  What the visited connection and the  *)
(* other clients do goes on inside every call of the stack.  The sockets   *)
(* are children of one listening socket, as in SocketTable; a request      *)
(* comes in one or two parts.                                              *)
(***************************************************************************)
EXTENDS Integers, FiniteSets

CONSTANTS MaxStreams,  \* MAXSTREAMS
          Children,    \* the sockets AJK_listen got, as many as `total`
          Limit,       \* rounds without data, 5000 in the code
          Blocks,      \* pieces of a file
          Asked        \* what the clients ask for, of Requests

ASSUME HttpdAssumption ==
    /\ MaxStreams \in Nat \ {0} /\ Children \subseteq Nat \ {0} /\ IsFiniteSet(Children)
    /\ Cardinality(Children) \in 1 .. MaxStreams
    /\ Limit \in Nat \ {0} /\ Blocks \in Nat
    /\ Asked \subseteq {"get", "short", "other"}

VARIABLES child,    \* the sockets: [st, queued, data, out]
          stream,   \* per stream: its socket or -1
          ptr,      \* "none", "some" of a request read, or "end" (-1)
          file,     \* fds: blocks to go of the open file, or -1
          active,   \* rounds without data
          pc, i,    \* where the loop is, and its index
          stray     \* a ghost: sockets that listened again behind a stream's back

progVars == <<stream, ptr, file, active>>
vars == <<child, progVars, pc, i, stray>>

Total == Cardinality(Children)
Streams == 0 .. MaxStreams - 1
(* "short": what is answered without a file kept open, HEAD, 404 and 400.   *)
Requests == {"get", "short", "other"}

Sockets == [st : {"listen", "established", "closing", "closed"}, queued : BOOLEAN,
            data : {"no", "part"} \cup Requests, out : {0, 1}]
Idle == [st |-> "listen", queued |-> TRUE, data |-> "no", out |-> 0]

Init == /\ child = [c \in Children |-> Idle]
        /\ stream = [k \in Streams |-> -1] /\ ptr = [k \in Streams |-> "none"]
        /\ file = [k \in Streams |-> -1]
        /\ active = [k \in Streams |-> 0]
        /\ pc = "loop" /\ i = 0 /\ stray = {}

Acceptable == {c \in Children : child[c].st = "established" /\ child[c].queued}

(* What the calls of the stack say of a socket.                             *)
Sockdepth(c) == IF child[c].st \in {"established", "closing"} THEN child[c].out ELSE -1
Sockread(c) == CASE child[c].data # "no" -> child[c].data
                 [] child[c].data = "no" /\ child[c].st = "established" -> "nothing"
                 [] OTHER -> "error"

-----------------------------------------------------------------------------
Holders(c) == {k \in Streams : stream[k] = c}

(* The first stream that holds no socket; past the array if there is none.  *)
FreeStream(k) == /\ k \in Streams => stream[k] = -1
                 /\ \A l \in 0 .. k - 1 : stream[l] # -1

(* AJK_acceptready.                                                         *)
AcceptReady ==
    /\ pc = "loop"
    /\ IF Acceptable # {} THEN pc' = "accept" /\ (\E k \in 0 .. MaxStreams : FreeStream(k) /\ i' = k)
       ELSE pc' = "again" /\ UNCHANGED i
    /\ UNCHANGED <<child, progVars, stray>>

(* AJK_accept may come too late.                                            *)
Accept ==
    /\ pc = "accept" /\ i \in Streams /\ pc' = "again"
    /\ ptr' = [ptr EXCEPT ![i] = "none"]
    /\ IF Acceptable = {} THEN UNCHANGED <<child, stream>>
       ELSE \E c \in Acceptable :
              /\ stream' = [stream EXCEPT ![i] = c]
              /\ child' = [child EXCEPT ![c].queued = FALSE]
    /\ UNCHANGED <<file, active, i, stray>>

(* Writes past ptr[] and stream[]: what the program does then is undefined, *)
(* and not followed.                                                        *)
Overrun == /\ pc = "accept" /\ i = MaxStreams /\ pc' = "undefined"
           /\ UNCHANGED <<child, progVars, i, stray>>

(* Only when nothing else is to be accepted the streams are visited.        *)
AcceptAgain ==
    /\ pc = "again" /\ i' = 0
    /\ pc' = (IF Acceptable = {} THEN "tests" ELSE "loop")
    /\ UNCHANGED <<child, progVars, stray>>

-----------------------------------------------------------------------------
NextStream == IF i + 1 < Total THEN pc' = "tests" /\ i' = i + 1 ELSE pc' = "loop" /\ i' = 0
Blink == pc' = "loop" /\ i' = 0

(* tests: too many rounds without data.                                     *)
Inactive ==
    /\ pc = "tests" /\ pc' = "visit"
    /\ IF active[i] = Limit
       THEN ptr' = [ptr EXCEPT ![i] = "end"] /\ file' = [file EXCEPT ![i] = -1]
       ELSE UNCHANGED <<ptr, file>>
    /\ UNCHANGED <<child, stream, active, i, stray>>

NoStream == /\ pc = "visit" /\ stream[i] = -1 /\ NextStream
            /\ UNCHANGED <<child, progVars, stray>>

(* slip: the stream's cell is not given back *)
DeathHolds ==
    /\ pc = "visit" /\ stream[i] # -1 /\ ptr[i] = "end" /\ Blink
    /\ IF Sockdepth(stream[i]) < 1
       THEN child' = [child EXCEPT ![stream[i]] = Idle] /\ ptr' = [ptr EXCEPT ![i] = "none"]
       ELSE UNCHANGED <<child, ptr>>
    /\ UNCHANGED <<stream, file, active, stray>>
(* death: closed when nothing is left to send, or nobody to send it to; the *)
(* child listens again.  Either way the round ends.                         *)
Death ==
    /\ pc = "visit" /\ stream[i] # -1 /\ ptr[i] = "end" /\ Blink
    /\ IF Sockdepth(stream[i]) < 1
       THEN /\ child' = [child EXCEPT ![stream[i]] = Idle]
            /\ stream' = [stream EXCEPT ![i] = -1] /\ ptr' = [ptr EXCEPT ![i] = "none"]
            /\ stray' = (IF Holders(stream[i]) = {i} THEN stray \ {stream[i]} ELSE stray)
       ELSE UNCHANGED <<child, stream, ptr, stray>>
    /\ UNCHANGED <<file, active>>

Reading(d) == /\ pc = "visit" /\ stream[i] # -1 /\ ptr[i] # "end" /\ file[i] = -1
              /\ Sockread(stream[i]) = d

(* more: the connection is gone.                                            *)
MoreError == /\ Reading("error") /\ Blink
             /\ ptr' = [ptr EXCEPT ![i] = "end"] /\ active' = [active EXCEPT ![i] = 0]
             /\ UNCHANGED <<child, stream, file, stray>>

(* slip: a round without data counts only once a request has begun *)
MoreNothingPatient ==
    /\ Reading("nothing")
    /\ active' = [active EXCEPT ![i] = IF ptr[i] = "some" THEN @ + 1 ELSE 0]
    /\ IF ptr[i] = "some" THEN Blink ELSE NextStream
    /\ UNCHANGED <<child, stream, ptr, file, stray>>
(* more: nothing came.  With part of a request there the round ends.        *)
MoreNothing ==
    /\ Reading("nothing")
    /\ active' = [active EXCEPT ![i] = @ + 1]
    /\ IF ptr[i] = "some" THEN Blink ELSE NextStream
    /\ UNCHANGED <<child, stream, ptr, file, stray>>

(* Data, whatever it is.                                                    *)
Heard == /\ child' = [child EXCEPT ![stream[i]].data = "no"]
         /\ active' = [active EXCEPT ![i] = 0]

(* more, testend: the request has not ended yet.                            *)
MorePart == /\ Reading("part") /\ Heard /\ Blink
            /\ ptr' = [ptr EXCEPT ![i] = "some"]
            /\ UNCHANGED <<stream, file, stray>>

(* A method that is not known: the answer is made up but never sent.        *)
MoreOther == /\ Reading("other") /\ Heard /\ NextStream
             /\ ptr' = [ptr EXCEPT ![i] = "some"]
             /\ UNCHANGED <<stream, file, stray>>

(* process_HEAD: the file is opened and the header sent, or an error.       *)
MoreRequest ==
    /\ \E d \in {"get", "short"} :
         /\ Reading(d)
         /\ file' = [file EXCEPT ![i] = IF d = "get" THEN Blocks ELSE -1]
         /\ ptr' = [ptr EXCEPT ![i] = IF d = "get" THEN "some" ELSE "end"]
    /\ Heard /\ pc' = "header" /\ UNCHANGED <<stream, i, stray>>

(* senddata waits for room as long as the connection stands.                *)
Room(c) == child[c].st # "established" \/ child[c].out = 0
Sent(c) == child' = (IF child[c].st = "established" THEN [child EXCEPT ![c].out = 1] ELSE child)

(* Whether the header could be sent is not looked at.                       *)
SendHeader == /\ pc = "header" /\ Room(stream[i])
              /\ Sent(stream[i]) /\ NextStream /\ UNCHANGED <<progVars, stray>>

(* The next block of the file; at its end, or when the connection is gone,  *)
(* the file is closed and the stream ends.                                  *)
SendFile ==
    /\ pc = "visit" /\ stream[i] # -1 /\ file[i] > 0 /\ ptr[i] # "end" /\ Room(stream[i])
    /\ active' = [active EXCEPT ![i] = 0]
    /\ Sent(stream[i]) /\ NextStream
    /\ IF child[stream[i]].st = "established"
       THEN file' = [file EXCEPT ![i] = @ - 1] /\ UNCHANGED ptr
       ELSE file' = [file EXCEPT ![i] = -1] /\ ptr' = [ptr EXCEPT ![i] = "end"]
    /\ UNCHANGED <<stream, stray>>
EndOfFile ==
    /\ pc = "visit" /\ stream[i] # -1 /\ file[i] = 0 /\ ptr[i] # "end"
    /\ file' = [file EXCEPT ![i] = -1] /\ ptr' = [ptr EXCEPT ![i] = "end"]
    /\ NextStream /\ UNCHANGED <<child, stream, active, stray>>

Tests == \/ Inactive \/ NoStream \/ Death \/ MoreError \/ MoreNothing \/ MorePart \/ MoreOther
         \/ MoreRequest \/ SendHeader \/ SendFile \/ EndOfFile
Server == AcceptReady \/ Accept \/ Overrun \/ AcceptAgain \/ Tests

-----------------------------------------------------------------------------
(* The clients, through the stack.                                          *)
Connect(c) == child[c].st = "listen" /\ child' = [child EXCEPT ![c].st = "established"]
Request(c, d) == /\ child[c].st = "established" /\ child[c].data \in {"no", "part"}
                 /\ child' = [child EXCEPT ![c].data = d]
Acknowledge(c) == child[c].out = 1 /\ child' = [child EXCEPT ![c].out = 0]
Silent == \A c \in Children : ~Connect(c) /\ \A d \in Asked \cup {"part"} : ~Request(c, d)
Fin(c) == child[c].st = "established" /\ child' = [child EXCEPT ![c].st = "closing"]
Reset(c) == /\ child[c].st \in {"established", "closing"}
            /\ child' = [child EXCEPT ![c].st = "closed", ![c].out = 0]
(* nuke: the child listens again, also while a stream still holds it.       *)
Reclaim(c) == /\ child' = [child EXCEPT ![c] = Idle]
              /\ stray' = (IF Holders(c) = {} THEN stray ELSE stray \cup {c})
(* check_sockets collects a child whose connection was reset, and one whose *)
(* bytes nobody acknowledges.                                               *)
Collect(c) == child[c].st = "closed" /\ Reclaim(c)
GiveUp(c) == child[c].out = 1 /\ Reclaim(c)

Clients == /\ \E c \in Children :
                \/ Collect(c) \/ GiveUp(c)
                \/ /\ \/ Connect(c) \/ Acknowledge(c) \/ Fin(c) \/ Reset(c)
                      \/ \E d \in Asked \cup {"part"} : Request(c, d)
                   /\ UNCHANGED stray
           /\ UNCHANGED <<progVars, pc, i>>

Next == Server \/ Clients

Spec == Init /\ [][Next]_vars

(* What was sent is acknowledged, refused or given up by the stack's timer. *)
Settle(c) == /\ \/ Acknowledge(c) /\ UNCHANGED stray
                \/ Reset(c) /\ UNCHANGED stray
                \/ GiveUp(c)
             /\ child[c].out = 1 /\ UNCHANGED <<progVars, pc, i>>

(* The loop never ends, and every piece that was sent is settled.           *)
FairSpec == Spec /\ WF_vars(Server) /\ \A c \in Children : WF_vars(Settle(c))

-----------------------------------------------------------------------------
TypeOK ==
    /\ child \in [Children -> Sockets] /\ stray \subseteq Children
    /\ stream \in [Streams -> Children \cup {-1}] /\ ptr \in [Streams -> {"none", "some", "end"}]
    /\ file \in [Streams -> -1 .. Blocks] /\ active \in [Streams -> 0 .. Limit]
    /\ pc \in {"loop", "accept", "again", "tests", "visit", "header", "undefined"}
    /\ i \in 0 .. MaxStreams

(* A connection that is ready finds a stream, within the array and among    *)
(* those tests() visits, unless a socket of some stream has listened again. *)
StreamFound == pc = "accept" /\ stray = {} => i < Total

(* No other socket is in two streams, nor in a stream and in the listener's *)
(* queue: one stray socket does not spoil the streams of the others.        *)
OneStreamEach ==
    \A k \in Streams : stream[k] # -1 /\ stream[k] \notin stray =>
        /\ ~child[stream[k]].queued
        /\ Holders(stream[k]) = {k}

(* A file is open only for a stream that goes on: none is left open behind. *)
FilesTied == \A k \in Streams : file[k] # -1 => stream[k] # -1 /\ ptr[k] # "end"

(* The table of streams agrees with the sockets, the queue and the files    *)
(* (httpd.c:207-240, 700-712).                                              *)
StreamsSound == TypeOK /\ StreamFound /\ OneStreamEach /\ FilesTied

(* Once the clients have fallen silent no stream keeps its socket for ever, *)
(* whatever was left undone, also two streams that hold one socket: each is *)
(* closed by its client, by the end of its file or by the inactivity count  *)
(* (httpd.c:575).                                                           *)
StreamsEnd == <>[][Silent]_vars /\ [](pc # "undefined") =>
                  \A k \in 0 .. Total - 1 : []<>(stream[k] = -1)

(* A socket that was accepted is out of the ring (socket.c:934), and so a   *)
(* connection that waits finds one of MAXSTREAMS streams (httpd.c:748).  It *)
(* does not hold (README, section 5), and no run checks it.                 *)
StreamForAll == Acceptable # {} => \E k \in Streams : stream[k] = -1
=============================================================================
