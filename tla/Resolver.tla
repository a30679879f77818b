------------------------------- MODULE Resolver -------------------------------
(***************************************************************************)
(* gethostandip and findhost: one question at a time over a datagram       *)
(* socket that is always bound to port 8192, with retries, and with memory *)
(* that every way out has to give back.  The socket is read once and       *)
(* closed, so it is a plain queue here; UdpQueue has its ring.             *)
(***************************************************************************)
EXTENDS Integers, Sequences, FiniteSets

CONSTANTS Names,      \* what may be asked for, by name or (reversed) by number
          MaxTries,   \* findhost sends a question this often, 29 in the code
          MaxNet      \* messages under way

NULL == "NULL"

ASSUME ResolverAssumption ==
    /\ MaxTries \in Nat \ {0} /\ MaxNet \in Nat \ {0}
    /\ NULL \notin Names

VARIABLES pc,         \* where findhost is
          asked,      \* the name it is asked for
          reverse,    \* a PTR question, whose text gethostandip allocates
          try,        \* noreply
          heap,       \* blocks allocated and not freed
          inbox,      \* the resolver's socket: "closed" or the answers that wait
          net,        \* questions and answers under way
          found,      \* what gethostandip returned last: a name, or NULL
          late        \* a ghost: messages were still under way when the socket was opened

vars == <<pc, asked, reverse, try, heap, inbox, net, found, late>>
(* slip: what waits is not thrown away *)
CloseKeeps(i) == [i EXCEPT !.open = FALSE]
(* AJK_sockclose: what waits in the ring is forgotten.                      *)
Close(i) == [open |-> FALSE, queue |-> <<>>]

(* Four mallocs in a row.                                                   *)
Blocks == <<"workspace", "result", "hostip", "hostname">>
Held(k) == {Blocks[i] : i \in 1 .. k}
Owned == {"result", "hostip", "hostname"}

Init == /\ pc = "idle" /\ asked = NULL /\ reverse = FALSE /\ try = 0
        /\ heap = {} /\ inbox = [open |-> FALSE, queue |-> <<>>] /\ net = {}
        /\ found = NULL /\ late = FALSE

(* slip: error_cleanup jumps past hostname *)
FreedFromShort(label) ==
    CASE label = "error_cleanup" -> {"hostip", "result", "workspace"}
      [] label = "oom2" -> {"hostip", "result", "workspace"}
      [] label = "oom1" -> {"result", "workspace"}
      [] label = "success" -> {"workspace"}
      [] label = "no_workspace" -> {}
(* The labels at the end of findhost, each falling through to the next.     *)
FreedFrom(label) ==
    CASE label = "error_cleanup" -> {"hostname", "hostip", "result", "workspace"}
      [] label = "oom2" -> {"hostip", "result", "workspace"}
      [] label = "oom1" -> {"result", "workspace"}
      [] label = "success" -> {"workspace"}
      [] label = "no_workspace" -> {}

(* findhost ends at a label, gethostandip frees its text and returns.       *)
Return(h, label, answer) ==
    /\ heap' = h \ (FreedFrom(label) \cup {"query"})
    /\ found' = answer /\ pc' = "idle"

(* The program asks; it frees what it got before (the caller must).         *)
GetHostAndIp(n, r) ==
    /\ pc = "idle"
    /\ asked' = n /\ reverse' = r /\ found' = NULL /\ try' = 1
    /\ \/ r /\ heap' = {} /\ UNCHANGED pc                  \* no text
       \/ heap' = (IF r THEN {"query"} ELSE {}) /\ pc' = "alloc"
    /\ UNCHANGED <<inbox, net, late>>

(* k of the four mallocs succeed.                                           *)
Allocate(k) ==
    /\ pc = "alloc"
    /\ LET h == heap \cup Held(k) IN
       IF k = 4 THEN heap' = h /\ pc' = "socket" /\ UNCHANGED found
       ELSE Return(h, <<"no_workspace", "success", "oom1", "oom2">>[k + 1], NULL)
    /\ UNCHANGED <<asked, reverse, try, inbox, net, late>>

(* No slot is free, or the ring cannot be allocated, or all goes well.      *)
OpenSocket(ok) ==
    /\ pc = "socket"
    /\ IF ok THEN /\ inbox' = [inbox EXCEPT !.open = TRUE] /\ late' = (net # {})
                  /\ pc' = "send" /\ UNCHANGED <<heap, found>>
       ELSE Return(heap, "error_cleanup", NULL) /\ UNCHANGED <<inbox, late>>
    /\ UNCHANGED <<asked, reverse, try, net>>

(* A question that cannot be sent ends the lookup.                          *)
SendQuery(ok) ==
    /\ pc = "send"
    /\ IF ok THEN /\ Cardinality(net) < MaxNet
                  /\ net' = net \cup {[to |-> "server", name |-> asked, kind |-> "query"]}
                  /\ pc' = "wait" /\ UNCHANGED <<heap, found, inbox>>
       ELSE Return(heap, "error_cleanup", NULL) /\ inbox' = Close(inbox) /\ UNCHANGED net
    /\ UNCHANGED <<asked, reverse, try, late>>

(* slip: an unanswered question is not counted *)
TimeoutForever ==
    /\ pc = "wait" /\ inbox.queue = <<>>
    /\ pc' = "send"
    /\ UNCHANGED <<try, heap, found, inbox, asked, reverse, net, late>>
(* Nothing within RETRYTIME, although an answer may be on its way: the       *)
(* question is repeated, or given up.                                       *)
Timeout ==
    /\ pc = "wait" /\ inbox.queue = <<>>
    /\ IF try < MaxTries
       THEN try' = try + 1 /\ pc' = "send" /\ UNCHANGED <<heap, found, inbox>>
       ELSE Return(heap, "error_cleanup", NULL) /\ inbox' = Close(inbox) /\ UNCHANGED try
    /\ UNCHANGED <<asked, reverse, net, late>>

(* The first datagram on the socket is the answer: neither its number nor   *)
(* its sender nor its question is looked at.                                *)
TakeAnswer ==
    /\ pc = "wait" /\ inbox.queue # <<>>
    /\ LET a == Head(inbox.queue) IN
       IF a.kind = "record" THEN Return(heap, "success", a.name)
       ELSE Return(heap, "error_cleanup", NULL)
    /\ inbox' = Close(inbox)
    /\ UNCHANGED <<asked, reverse, try, net, late>>

-----------------------------------------------------------------------------
(* The server answers with a record, an error or none of the type asked     *)
(* for, or not at all; messages are lost or come late, in any order.        *)
Kinds == {"record", "error", "other"}

Answer(m, k) == /\ m.to = "server"
                /\ net' = (net \ {m}) \cup {[m EXCEPT !.to = "client", !.kind = k]}
                /\ UNCHANGED <<pc, asked, reverse, try, heap, inbox, found, late>>

Lose(m) == /\ net' = net \ {m}
           /\ UNCHANGED <<pc, asked, reverse, try, heap, inbox, found, late>>

(* A datagram for port 8192; with no socket bound it is refused.            *)
ArriveAnswer(m) ==
    /\ m.to = "client" /\ net' = net \ {m}
    /\ inbox' = IF inbox.open THEN [inbox EXCEPT !.queue = Append(@, m)] ELSE inbox
    /\ UNCHANGED <<pc, asked, reverse, try, heap, found, late>>

FindHost == \/ \E k \in 0 .. 4 : Allocate(k)
            \/ \E ok \in BOOLEAN : OpenSocket(ok) \/ SendQuery(ok)
            \/ Timeout \/ TakeAnswer

Network == \E m \in net : Lose(m) \/ ArriveAnswer(m) \/ (\E k \in Kinds : Answer(m, k))

Lookup == (\E n \in Names, r \in BOOLEAN : GetHostAndIp(n, r)) \/ FindHost

Next == Lookup \/ Network

Spec == Init /\ [][Next]_vars
(* findhost polls until it returns, and the network delivers or loses.      *)
FairSpec == Spec /\ WF_vars(FindHost) /\ WF_vars(Network)

-----------------------------------------------------------------------------
TypeOK == /\ pc \in {"idle", "alloc", "socket", "send", "wait"} /\ try \in 0 .. MaxTries
          /\ asked \in Names \cup {NULL} /\ found \in Names \cup {NULL}
          /\ heap \subseteq Owned \cup {"workspace", "query"}

(* Between lookups the program owns the three blocks of the result it got,  *)
(* or nothing is allocated, and the resolver holds no socket, whichever     *)
(* malloc, call or answer went wrong on the way (netutil.c:261).            *)
NothingLeaks == pc = "idle" =>
    /\ heap = (IF found = NULL THEN {} ELSE Owned)
    /\ ~inbox.open

LookupSound == TypeOK /\ NothingLeaks

(* No answer is compared with its question (netutil.c:182), so an address   *)
(* may belong to another name than the one asked for; but only where        *)
(* messages of an earlier lookup were still under way when this one opened  *)
(* its socket.  None comes out of what an earlier lookup's socket held.     *)
AnswerBelongs == pc = "idle" /\ found \notin {NULL, asked} => late

(* The first matching answer is returned, NULL on error (netutil.c:73).  It *)
(* does not hold (README, section 5), and no run checks it.                 *)
MatchingAnswer == pc = "idle" => found \in {NULL, asked}

(* Every lookup returns, also when nothing is ever answered.                *)
LookupEnds == pc # "idle" ~> pc = "idle"
=============================================================================
