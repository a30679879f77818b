--------------------------- MODULE TaskPort_proofs ---------------------------
(***************************************************************************)
(* Proofs about the task interface, for any number of programs and calls:  *)
(* messages are neither lost nor left behind, and a program that has the   *)
(* network to itself gets the reply to what it asked.                      *)
(***************************************************************************)
EXTENDS TaskPort, FiniteSetTheorems, TLAPS

(* One if the box, or IP_task's hands, hold a message.                      *)
Full(x) == IF x = Nothing THEN 0 ELSE 1

(* What is in the boxes and in IP_task's hands can be counted one by one.   *)
LEMMA Count == Cardinality(InHand) = Full(to) + Full(cur) + Full(from)
<1> DEFINE A == IF to = Nothing THEN {} ELSE {<<"to", to>>}
           B == IF cur = Nothing THEN A ELSE A \cup {<<"cur", cur>>}
           C == IF from = Nothing THEN B ELSE B \cup {<<"from", from>>}
<1>1. InHand = C
  <2>1. \A r \in C : r \in InHand
    BY DEF InHand
  <2>2. ASSUME NEW r \in InHand PROVE r \in C
    <3>1. /\ r \in {<<"to", to>>, <<"cur", cur>>, <<"from", from>>}
          /\ r[2] # Nothing
      BY DEF InHand
    <3>2. CASE r = <<"to", to>>
      BY <3>1, <3>2
    <3>3. CASE r = <<"cur", cur>>
      BY <3>1, <3>3
    <3>4. CASE r = <<"from", from>>
      BY <3>1, <3>4
    <3> QED BY <3>1, <3>2, <3>3, <3>4
  <2> HIDE DEF C
  <2> QED BY <2>1, <2>2 DEF InHand
<1>2. IsFiniteSet(A) /\ Cardinality(A) = Full(to)
  BY FS_EmptySet, FS_Singleton DEF Full
<1>3. <<"cur", cur>> \notin A
  OBVIOUS
<1>4. IsFiniteSet(B) /\ Cardinality(B) = Full(to) + Full(cur)
  <2> HIDE DEF A
  <2>1. Full(to) \in Nat
    BY DEF Full
  <2>2. CASE cur = Nothing
    BY <1>2, <2>1, <2>2 DEF Full
  <2>3. CASE cur # Nothing
    BY <1>2, <1>3, <2>1, <2>3, FS_AddElement DEF Full
  <2> QED BY <2>2, <2>3
<1>5. <<"from", from>> \notin B
  OBVIOUS
<1>6. IsFiniteSet(C) /\ Cardinality(C) = Full(to) + Full(cur) + Full(from)
  <2> HIDE DEF B
  <2>1. Full(to) + Full(cur) \in Nat
    BY DEF Full
  <2>2. CASE from = Nothing
    BY <1>4, <2>1, <2>2 DEF Full
  <2>3. CASE from # Nothing
    BY <1>4, <1>5, <2>1, <2>3, FS_AddElement DEF Full
  <2> QED BY <2>2, <2>3
<1> QED BY <1>1, <1>6

(* The programs that wait are finitely many, and one more or one less of    *)
(* them is one more or one less.                                            *)
LEMMA WaitingFinite == IsFiniteSet(Waiting) /\ Cardinality(Waiting) \in Nat
  BY TaskAssumption, FS_Subset, FS_CardinalityType DEF Waiting

-----------------------------------------------------------------------------
(* The inductive invariant.  Nothing is asked before the boxes are set up;  *)
(* whoever asks is one of those that use the network; and a message is in a *)
(* box or in somebody's hands for every program that waits.                 *)
Booting == /\ ip \in {"off", "init", "begin"} => ~booted
           /\ ~booted => \A t \in Apps : pc[t] = "boot"
           /\ ip = "off" \/ ~booted => to = Nothing /\ from = Nothing /\ cur = Nothing

Asked == \A t \in Apps : Calling(t) => t \in users /\ want[t] # Nothing

Balance == Full(to) + Full(cur) + Full(from) = Cardinality(Waiting)

(* Whose every block is.                                                    *)
Accounted == \A b \in heap :
                \/ \E t \in Apps : b = <<"message", t>> /\ pc[t] = "send"
                \/ b = <<"copy", "to">> /\ to # Nothing
                \/ b = <<"copy", "from">> /\ from # Nothing
                \/ b = <<"copy", "cur">> /\ ip \in {"serve", "free"}
                \/ b = <<"nip">> /\ ip = "free"
                \/ b = <<"reply">> /\ ip \in {"free", "reply"}

(* One program alone: all that is under way is what it asked.               *)
Alone == \A t \in Apps : users = {t} =>
            \A r \in {to, cur, from, got[t]} : r # Nothing => r = want[t]

IInv == TypeOK /\ Booting /\ Asked /\ Balance /\ Accounted /\ Alone

LEMMA InitIInv == Init => IInv
<1> SUFFICES ASSUME Init PROVE IInv
  OBVIOUS
<1>1. TypeOK
  <2>1. {to, from, cur} \subseteq Requests \cup {Nothing}
    BY Zenon DEF Init
  <2>2. pc \in [Apps -> {"boot", "idle", "send", "recv"}]
    BY DEF Init
  <2>3. {want, got} \subseteq [Apps -> Requests \cup {Nothing}]
    BY DEF Init
  <2>4. users \subseteq Apps /\ booted \in BOOLEAN /\ ip = "off" /\ cur = Nothing
    BY DEF Init
  <2> QED BY <2>1, <2>2, <2>3, <2>4 DEF TypeOK
<1>2. Booting /\ Asked
  BY DEF Init, Booting, Asked, Calling
<1>3. Balance
  <2>1. Waiting = {}
    BY DEF Init, Waiting
  <2> QED BY <2>1, FS_EmptySet DEF Init, Balance, Full
<1>4. Accounted /\ Alone
  BY DEF Init, Accounted, Alone
<1> QED BY <1>1, <1>2, <1>3, <1>4 DEF IInv

(* What a step does to the number of those that wait.                       *)
LEMMA OneMore ==
  ASSUME NEW t \in Apps, TypeOK, pc[t] # "recv", pc' = [pc EXCEPT ![t] = "recv"]
  PROVE  Cardinality(Waiting') = Cardinality(Waiting) + 1
<1>1. Waiting' = Waiting \cup {t} /\ t \notin Waiting
  BY DEF Waiting, TypeOK
<1> QED BY <1>1, WaitingFinite, FS_AddElement

LEMMA OneLess ==
  ASSUME NEW t \in Apps, TypeOK, pc[t] = "recv", pc' = [pc EXCEPT ![t] = "idle"]
  PROVE  Cardinality(Waiting') = Cardinality(Waiting) - 1
<1>1. Waiting' = Waiting \ {t} /\ t \in Waiting
  BY DEF Waiting, TypeOK
<1> QED BY <1>1, WaitingFinite, FS_RemoveElement

LEMMA AsMany ==
  ASSUME NEW t \in Apps, TypeOK, pc[t] = "idle", pc' = [pc EXCEPT ![t] = "send"]
  PROVE  Waiting' = Waiting
BY DEF Waiting, TypeOK

LEMMA CallStep ==
  ASSUME IInv, NEW t \in Apps, NEW op \in Ops, Call(t, op)
  PROVE  IInv'
<1> USE DEF IInv, Call
<1>1. want[t].turn \in {0, 1}
  BY DEF TypeOK, Requests, Nothing
<1>2. DEFINE w == [by |-> t, op |-> op, turn |-> 1 - want[t].turn]
<1>3. w \in Requests /\ w # Nothing
  BY <1>1, TaskAssumption DEF Requests, Nothing
<1>4. want' = [want EXCEPT ![t] = w]
  BY DEF TypeOK
<1> HIDE DEF w
<1>5. TypeOK'
  <2>1. {want', got'} \subseteq [Apps -> Requests \cup {Nothing}]
    BY <1>3, <1>4 DEF TypeOK
  <2>2. pc' \in [Apps -> {"boot", "idle", "send", "recv"}]
    BY DEF TypeOK
  <2> QED BY <2>1, <2>2 DEF TypeOK
<1>6. Booting'
  BY DEF Booting
<1>7. Asked'
  BY <1>3, <1>4 DEF Asked, Calling, TypeOK
<1>8. Balance'
  BY AsMany DEF Balance, Full
<1>9. Accounted'
  BY DEF Accounted, TypeOK
<1>10. Alone'
  <2> SUFFICES ASSUME NEW u \in Apps, users = {u},
                      NEW r \in {to, cur, from, got'[u]}, r # Nothing
               PROVE  r = want'[u]
    BY DEF Alone
  <2>1. u = t
    OBVIOUS
  <2>2. Waiting = {}
    BY <2>1 DEF Waiting, Asked, Calling
  <2>3. to = Nothing /\ cur = Nothing /\ from = Nothing
    BY <2>2, FS_EmptySet DEF Balance, Full
  <2>4. got'[u] = Nothing
    BY <2>1 DEF TypeOK
  <2> QED BY <2>3, <2>4
<1> QED BY <1>5, <1>6, <1>7, <1>8, <1>9, <1>10

LEMMA AwaitStep ==
  ASSUME IInv, NEW t \in Apps, AwaitNetwork(t)
  PROVE  IInv'
<1> USE DEF IInv, AwaitNetwork
<1>1. pc' \in [Apps -> {"boot", "idle", "send", "recv"}] /\ Waiting' = Waiting
  BY DEF TypeOK, Waiting
<1>2. TypeOK' BY <1>1 DEF TypeOK
<1>3. Booting' /\ Asked' BY DEF Booting, Asked, Calling, TypeOK
<1>4. Balance' BY <1>1 DEF Balance, Full
<1>5. Accounted' /\ Alone' BY DEF Accounted, Alone, TypeOK
<1> QED BY <1>2, <1>3, <1>4, <1>5

LEMMA SendStep ==
  ASSUME IInv, NEW t \in Apps, MemorySend(t)
  PROVE  IInv'
<1> USE DEF IInv, MemorySend
<1>1. want[t] # Nothing /\ want[t] \in Requests /\ t \in users
  BY DEF Asked, Calling, TypeOK
<1>2. TypeOK'
  <2>1. pc' \in [Apps -> {"boot", "idle", "send", "recv"}]
    BY DEF TypeOK
  <2> QED BY <1>1, <2>1 DEF TypeOK
<1>3. Booting'
  BY DEF Booting
<1>4. Asked'
  BY DEF Asked, Calling, TypeOK
<1>5. Balance'
  <2>1. Cardinality(Waiting') = Cardinality(Waiting) + 1
    BY OneMore
  <2>2. Full(to') = 1 /\ Full(to) = 0
    BY <1>1 DEF Full
  <2>3. Full(cur') = Full(cur) /\ Full(from') = Full(from)
    BY DEF Full
  <2>4. Full(cur) \in {0, 1} /\ Full(from) \in {0, 1}
    BY DEF Full
  <2> QED BY <2>1, <2>2, <2>3, <2>4, WaitingFinite DEF Balance
<1>6. Accounted'
  BY <1>1 DEF Accounted, TypeOK
<1>7. Alone'
  <2> SUFFICES ASSUME NEW u \in Apps, users = {u},
                      NEW r \in {to', cur, from, got[u]}, r # Nothing
               PROVE  r = want[u]
    BY DEF Alone
  <2>1. u = t
    BY <1>1
  <2> QED BY <2>1 DEF Alone
<1> QED BY <1>2, <1>3, <1>4, <1>5, <1>6, <1>7

LEMMA RecvStep ==
  ASSUME IInv, NEW t \in Apps, MemoryRecv(t)
  PROVE  IInv'
<1> USE DEF IInv, MemoryRecv
<1>1. from \in Requests /\ from # Nothing
  BY DEF TypeOK
<1>2. TypeOK'
  <2>1. pc' \in [Apps -> {"boot", "idle", "send", "recv"}]
    BY DEF TypeOK
  <2>2. got' \in [Apps -> Requests \cup {Nothing}]
    BY <1>1 DEF TypeOK
  <2> QED BY <2>1, <2>2 DEF TypeOK
<1>3. Booting'
  BY DEF Booting, TypeOK
<1>4. Asked'
  BY DEF Asked, Calling, TypeOK
<1>5. Balance'
  <2>1. Cardinality(Waiting') = Cardinality(Waiting) - 1
    BY OneLess
  <2>2. Full(from') = 0 /\ Full(from) = 1
    BY DEF Full
  <2>3. Full(cur') = Full(cur) /\ Full(to') = Full(to)
    BY DEF Full
  <2>4. Full(cur) \in {0, 1} /\ Full(to) \in {0, 1}
    BY DEF Full
  <2> QED BY <2>1, <2>2, <2>3, <2>4, WaitingFinite DEF Balance
<1>6. Accounted'
  BY DEF Accounted, TypeOK
<1>7. Alone'
  <2> SUFFICES ASSUME NEW u \in Apps, users = {u},
                      NEW r \in {to, cur, from', got'[u]}, r # Nothing
               PROVE  r = want[u]
    BY DEF Alone
  <2>1. u = t
    BY DEF Asked, Calling
  <2>2. got'[u] = from
    BY <2>1 DEF TypeOK
  <2> QED BY <2>2 DEF Alone
<1> QED BY <1>2, <1>3, <1>4, <1>5, <1>6, <1>7

(* IP_task moves messages on and answers none without a request.            *)
LEMMA IpStep ==
  ASSUME IInv, StartTask \/ IpTask
  PROVE  IInv'
<1> USE DEF IInv
<1>1. UNCHANGED <<users, pc, want, got>>
  BY DEF StartTask, IpTask, IpInit, IpTake, IpServe, IpFree, IpReply, appVars
<1>2. Waiting' = Waiting /\ Asked'
  BY <1>1 DEF Waiting, Asked, Calling
<1>3. CASE StartTask
  <2>1. ip = "off" /\ ip' = "init" /\ UNCHANGED <<booted, to, from, cur, heap>>
    BY <1>3 DEF StartTask
  <2>2. TypeOK' /\ Booting'
    BY <1>1, <2>1 DEF TypeOK, Booting
  <2> QED BY <1>1, <1>2, <2>1, <2>2 DEF Balance, Full, Accounted, Alone
<1>4. CASE IpInit
  <2>1. to = Nothing /\ from = Nothing /\ cur = Nothing
    BY <1>4 DEF IpInit, TypeOK, Booting
  <2>2. UNCHANGED <<to, from, cur, heap>>
    BY <1>4, <2>1 DEF IpInit
  <2>3. TypeOK'
    <3>1. booted' \in BOOLEAN /\ ip' \in {"begin", "loop"}
      BY <1>4 DEF IpInit, TypeOK
    <3>2. {to', from', cur'} \subseteq Requests \cup {Nothing}
      BY <2>1, <2>2
    <3> QED BY <1>1, <2>1, <2>2, <3>1, <3>2 DEF TypeOK
  <2>4. Booting'
    BY <1>1, <1>4, <2>1, <2>2 DEF IpInit, Booting
  <2>5. ip \in {"init", "begin"} /\ ip' \in {"begin", "loop"}
    BY <1>4 DEF IpInit
  <2>6. Accounted'
    BY <1>1, <2>2, <2>5 DEF Accounted
  <2> QED BY <1>1, <1>2, <2>2, <2>3, <2>4, <2>6 DEF Balance, Full, Alone
<1>5. CASE IpTake
  <2>1. cur = Nothing /\ to # Nothing /\ booted
    BY <1>5 DEF IpTake, TypeOK, Booting
  <2>2. TypeOK' /\ Booting'
    BY <1>1, <1>5, <2>1 DEF IpTake, TypeOK, Booting
  <2>3. Balance'
    BY <1>2, <1>5, <2>1 DEF IpTake, Balance, Full
  <2>4. Accounted'
    BY <1>1, <1>5, <2>1 DEF IpTake, Accounted
  <2>5. Alone'
    BY <1>1, <1>5 DEF IpTake, Alone
  <2> QED BY <1>2, <2>2, <2>3, <2>4, <2>5
<1>6. CASE (\E found \in BOOLEAN : IpServe(found)) \/ IpFree
  <2>1. cur # Nothing /\ ip \in {"serve", "free"} /\ ip' \in {"free", "reply"}
    BY <1>6 DEF IpServe, IpFree, TypeOK
  <2>2. UNCHANGED <<users, booted, to, from, cur>>
    BY <1>6 DEF IpServe, IpFree
  <2>4. TypeOK' /\ Booting'
    BY <1>1, <2>1, <2>2 DEF TypeOK, Booting
  <2>5. Accounted'
    <3>1. CASE \E found \in BOOLEAN : IpServe(found)
      <4>1. /\ ip = "serve" /\ ip' = "free"
            /\ heap' \subseteq heap \cup {<<"nip">>, <<"reply">>}
        BY <3>1 DEF IpServe
      <4> QED BY <1>1, <2>2, <4>1 DEF Accounted
    <3>2. CASE IpFree
      <4>1. /\ ip = "free" /\ ip' = "reply"
            /\ heap' = (heap \ {<<"nip">>, <<"copy", "cur">>}) \cup {<<"reply">>}
        BY <3>2 DEF IpFree
      <4> QED BY <1>1, <2>2, <4>1 DEF Accounted
    <3> QED BY <1>6, <3>1, <3>2
  <2> QED BY <1>1, <1>2, <2>2, <2>4, <2>5 DEF Balance, Full, Alone
<1>7. CASE IpReply
  <2>1. cur # Nothing /\ from = Nothing /\ booted
    BY <1>7 DEF IpReply, TypeOK, Booting
  <2>2. TypeOK' /\ Booting'
    BY <1>1, <1>7, <2>1 DEF IpReply, TypeOK, Booting
  <2>3. Balance'
    BY <1>2, <1>7, <2>1 DEF IpReply, Balance, Full
  <2>4. Accounted'
    BY <1>1, <1>7, <2>1 DEF IpReply, Accounted
  <2>5. Alone'
    BY <1>1, <1>7 DEF IpReply, Alone
  <2> QED BY <1>2, <2>2, <2>3, <2>4, <2>5
<1> QED BY Zenon, <1>3, <1>4, <1>5, <1>6, <1>7 DEF IpTask

LEMMA StepIInv == IInv /\ [Next]_vars => IInv'
<1> SUFFICES ASSUME IInv, [Next]_vars PROVE IInv'
  OBVIOUS
<1>1. CASE StartTask \/ IpTask
  BY <1>1, IpStep
<1>2. ASSUME NEW t \in Apps, NEW op \in Ops, Call(t, op) PROVE IInv'
  BY <1>2, CallStep
<1>6. ASSUME NEW t \in Apps, AwaitNetwork(t) PROVE IInv'
  BY <1>6, AwaitStep
<1>3. ASSUME NEW t \in Apps, MemorySend(t) PROVE IInv'
  BY <1>3, SendStep
<1>4. ASSUME NEW t \in Apps, MemoryRecv(t) PROVE IInv'
  BY <1>4, RecvStep
<1>5. CASE UNCHANGED vars
  BY <1>5 DEF vars, appVars, IInv, TypeOK, Booting, Asked, Calling, Balance, Waiting, Full,
              Accounted, Alone
<1> QED BY <1>1, <1>2, <1>3, <1>4, <1>5, <1>6 DEF Next

LEMMA Invariance == Spec => []IInv
BY InitIInv, StepIInv, PTL DEF Spec

-----------------------------------------------------------------------------
(* However many programs call at once, no message is lost: one is under way *)
(* for each that waits; and once all have returned nothing is allocated     *)
(* (ajkstack.cpp:504, 582).                                                 *)
THEOREM Messages == Spec => []MessagesSound
<1>1. IInv => MessagesSound
  <2> SUFFICES ASSUME IInv PROVE MessagesSound
    OBVIOUS
  <2>1. NothingLost
    BY Count DEF IInv, Balance, NothingLost
  <2>2. ASSUME \A t \in Apps : ~Calling(t) PROVE heap = {}
    <3>1. Waiting = {}
      BY <2>2 DEF Waiting, Calling
    <3>2. to = Nothing /\ cur = Nothing /\ from = Nothing
      BY <3>1, FS_EmptySet DEF IInv, Balance, Full
    <3>3. ip \notin {"serve", "free", "reply"}
      BY <3>2 DEF IInv, TypeOK
    <3> QED BY <2>2, <3>2, <3>3 DEF IInv, Accounted, Calling
  <2> QED BY <2>1, <2>2 DEF IInv, MessagesSound, NothingLeaks
<1> QED BY <1>1, Invariance, PTL

(* A program that has the network to itself is handed the reply to its own  *)
(* call, though no reply says whose it is (ajkstack.cpp:504-585).           *)
THEOREM OwnReplies == Spec => []OwnReply
<1>1. IInv => OwnReply
  <2> SUFFICES ASSUME IInv, Cardinality(users) = 1,
                      NEW t \in users, got[t] # Nothing
               PROVE  got[t] = want[t]
    BY DEF OwnReply
  <2>1. IsFiniteSet(users)
    BY TaskAssumption, FS_Subset DEF IInv, TypeOK
  <2>2. users = {t}
    BY <2>1, FS_Singleton
  <2> QED BY <2>2 DEF IInv, TypeOK, Alone
<1> QED BY <1>1, Invariance, PTL
=============================================================================
