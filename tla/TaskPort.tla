------------------------------- MODULE TaskPort -------------------------------
(***************************************************************************)
(* The stack as a task of its own (XMEM_MULTIPLE_APP).  Every call of a    *)
(* program is packed into a message, sent through the one mailbox to       *)
(* IP_task, executed there and answered through the one mailbox back.      *)
(* start_system starts IP_task while the programs already run; each waits  *)
(* for network_booted before its first call, and no call looks at it.      *)
(* memory_send copies its message and waits for an empty box, memory_recv  *)
(* waits for a full one and hands over the copy.                           *)
(***************************************************************************)
EXTENDS Integers, FiniteSets

CONSTANTS Apps,    \* tasks that may use the network
          Ops      \* calls, among them "resolve", whose reply has blocks in it

ASSUME TaskAssumption == /\ Apps # {} /\ IsFiniteSet(Apps)
                         /\ "resolve" \in Ops /\ "none" \notin Ops

VARIABLES users,   \* the tasks that do use it
          booted,  \* network_booted
          to, from,   \* to_ipstack_task, from_ipstack_task
          pc, want,   \* of each program: where it is, the call it makes
          got,     \* and the reply its last call returned with
          ip, cur, \* IP_task: where it is, the request or reply in its hands
          heap     \* blocks that are allocated

appVars == <<pc, want, got>>
vars == <<users, booted, to, from, appVars, ip, cur, heap>>

Nothing == [by |-> "nobody", op |-> "none", turn |-> 0]
Requests == [by : Apps, op : Ops, turn : {0, 1}]

(* The boxes hold whatever was in memory until memory_init: empty, at best. *)
Init == /\ users \in (SUBSET Apps \ {{}}) /\ booted = FALSE
        /\ to = Nothing /\ from = Nothing
        /\ pc = [t \in Apps |-> "boot"] /\ want = [t \in Apps |-> Nothing]
        /\ got = [t \in Apps |-> Nothing]
        /\ ip = "off" /\ cur = Nothing /\ heap = {}

(* The loop in front of every program that waits for the network.           *)
AwaitNetwork(t) ==
    /\ pc[t] = "boot" /\ booted /\ pc' = [pc EXCEPT ![t] = "idle"]
    /\ UNCHANGED <<users, booted, to, from, want, got, ip, cur, heap>>

(* A call: the message is allocated and filled in.                          *)
Call(t, op) ==
    /\ t \in users /\ pc[t] = "idle"
    /\ pc' = [pc EXCEPT ![t] = "send"] /\ heap' = heap \cup {<<"message", t>>}
    /\ want' = [want EXCEPT ![t] = [by |-> t, op |-> op, turn |-> 1 - @.turn]]
    /\ got' = [got EXCEPT ![t] = Nothing]
    /\ UNCHANGED <<users, booted, to, from, ip, cur>>

(* memory_send, and free of what was sent.                                  *)
MemorySend(t) ==
    /\ pc[t] = "send" /\ to = Nothing
    /\ to' = want[t] /\ pc' = [pc EXCEPT ![t] = "recv"]
    /\ heap' = (heap \ {<<"message", t>>}) \cup {<<"copy", "to">>}
    /\ UNCHANGED <<users, booted, from, want, got, ip, cur>>

(* slip: the reply is read, but not taken out of the box *)
MemoryRecvPeek(t) ==
    /\ pc[t] = "recv" /\ from # Nothing
    /\ got' = [got EXCEPT ![t] = from] /\ pc' = [pc EXCEPT ![t] = "idle"]
    /\ UNCHANGED <<users, booted, to, from, want, ip, cur, heap>>
(* memory_recv: whoever asks first gets the reply, and frees it.            *)
MemoryRecv(t) ==
    /\ pc[t] = "recv" /\ from # Nothing
    /\ from' = Nothing /\ got' = [got EXCEPT ![t] = from]
    /\ pc' = [pc EXCEPT ![t] = "idle"] /\ heap' = heap \ {<<"copy", "from">>}
    /\ UNCHANGED <<users, booted, to, want, ip, cur>>

(* start_system starts IP_task.                                             *)
StartTask == /\ ip = "off" /\ ip' = "init"
             /\ UNCHANGED <<users, booted, to, from, appVars, cur, heap>>

(* slip: the network is reported up before the boxes are set up *)
IpInitLate ==
    /\ ip \in {"init", "begin"}
    /\ IF ip = "init" THEN booted' = TRUE /\ ip' = "begin" /\ UNCHANGED <<to, from>>
       ELSE to' = Nothing /\ from' = Nothing /\ ip' = "loop" /\ UNCHANGED booted
    /\ UNCHANGED <<users, appVars, cur, heap>>
(* memory_init of both boxes, then TCPIPBegin.                              *)
IpInit ==
    /\ ip \in {"init", "begin"}
    /\ IF ip = "init" THEN to' = Nothing /\ from' = Nothing /\ ip' = "begin" /\ UNCHANGED booted
       ELSE booted' = TRUE /\ ip' = "loop" /\ UNCHANGED <<to, from>>
    /\ UNCHANGED <<users, appVars, cur, heap>>

(* memory_ready, memory_recv.                                               *)
IpTake == /\ ip = "loop" /\ to # Nothing
          /\ cur' = to /\ to' = Nothing /\ ip' = "serve"
          /\ heap' = (heap \ {<<"copy", "to">>}) \cup {<<"copy", "cur">>}
          /\ UNCHANGED <<users, booted, from, appVars>>

(* The call is executed.  Most replies are allocated after it, those with   *)
(* data in them before it, that of a name found once its length is known.   *)
IpServe(found) ==
    /\ ip = "serve" /\ (found => cur.op = "resolve") /\ ip' = "free"
    /\ heap' = heap \cup (IF found THEN {<<"nip">>, <<"reply">>} ELSE {})
    /\ UNCHANGED <<users, booted, to, from, appVars, cur>>

(* The lookup's own blocks and the message are freed.                       *)
IpFree == /\ ip = "free" /\ ip' = "reply"
          /\ heap' = (heap \ {<<"nip">>, <<"copy", "cur">>}) \cup {<<"reply">>}
          /\ UNCHANGED <<users, booted, to, from, appVars, cur>>

(* slip: the reply is thrown away when nobody has taken the last one *)
IpReplyDrops == /\ ip = "reply" /\ ip' = "loop" /\ cur' = Nothing
                /\ from' = (IF from = Nothing THEN cur ELSE from)
                /\ heap' = (heap \ {<<"reply">>}) \cup {<<"copy", "from">>}
                /\ UNCHANGED <<users, booted, to, appVars>>
(* The reply waits for an empty box; meanwhile the network is not polled.   *)
IpReply == /\ ip = "reply" /\ from = Nothing
           /\ from' = cur /\ cur' = Nothing /\ ip' = "loop"
           /\ heap' = (heap \ {<<"reply">>}) \cup {<<"copy", "from">>}
           /\ UNCHANGED <<users, booted, to, appVars>>

IpTask == IpInit \/ IpTake \/ (\E found \in BOOLEAN : IpServe(found)) \/ IpFree \/ IpReply

Next == \/ StartTask \/ IpTask
        \/ \E t \in Apps : \/ AwaitNetwork(t) \/ MemorySend(t) \/ MemoryRecv(t)
                         \/ \E op \in Ops : Call(t, op)

Spec == Init /\ [][Next]_vars

(* Every task gets its turn, and every call of the stack itself returns.    *)
FairSpec == Spec /\ WF_vars(IpTask)
                 /\ \A t \in Apps : SF_vars(MemorySend(t)) /\ SF_vars(MemoryRecv(t))
-----------------------------------------------------------------------------
InHand == {r \in {<<"to", to>>, <<"cur", cur>>, <<"from", from>>} : r[2] # Nothing}
Waiting == {t \in Apps : pc[t] = "recv"}
Calling(t) == pc[t] \in {"send", "recv"}

TypeOK == /\ users \subseteq Apps /\ booted \in BOOLEAN
          /\ {to, from, cur} \subseteq Requests \cup {Nothing}
          /\ pc \in [Apps -> {"boot", "idle", "send", "recv"}]
          /\ {want, got} \subseteq [Apps -> Requests \cup {Nothing}]
          /\ ip \in {"off", "init", "begin", "loop", "serve", "free", "reply"}
          /\ (ip \in {"serve", "free", "reply"}) = (cur # Nothing)

(* As many requests and replies are under way as programs wait for one: no  *)
(* box is written over, also not by its own setting up (ajkstack.cpp:504).  *)
NothingLost == Cardinality(InHand) = Cardinality(Waiting)

(* Nothing stays allocated once no call is being made (ajkstack.cpp:582).   *)
NothingLeaks == (\A t \in Apps : ~Calling(t)) => heap = {}

(* Messages are neither lost nor left behind.                               *)
MessagesSound == TypeOK /\ NothingLost /\ NothingLeaks

(* The only task that uses the network gets the reply to what it asked; no  *)
(* reply says whose it is.                                                  *)
OwnReply == Cardinality(users) = 1 =>
              \A t \in users : got[t] # Nothing => got[t] = want[t]

(* Every call returns, whoever else makes calls.                            *)
CallsReturn == \A t \in Apps : Calling(t) ~> ~Calling(t)
=============================================================================
