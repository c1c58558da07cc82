----------------------------- MODULE MqChatProofs -----------------------------
(* Theorems about the chat over POSIX queues, for any number of clients,    *)
(* names, slots and commands, and queues of any length.                     *)
EXTENDS MqChat, SequenceTheorems, WellFoundedInduction, TLAPS

\* Whether a message is in a queue.
Holds(q, m) == Contains(queues[q], m)

\* A slot has a name when it has a queue open (server.c 113-114).
SlotsAgree == \A s \in Slot : client_list[s] = None <=> client_que_desc[s] = None

\* The server takes nothing of its own for a request but LIST: it is the one
\* answer whose way it does not know (server.c 181).
OwnMessages ==
    /\ \A m \in Message : Holds(SERVER_QUEUE, m) /\ m.sender_name = SERVER_QUEUE
                              => m.mtype = LIST
    /\ srv.at = "answer" /\ srv.to = SERVER_QUEUE => srv.msg.mtype = LIST

\* Whatever but a refusal is in the queue of a client, or about to be sent
\* there, the queue has a slot.
OnlyListedGetMore ==
    /\ \A n \in Name, m \in Message :
          Holds(n, m) /\ m.mtype # ERR => SlotsOf(n) # {}
    /\ srv.at = "answer" /\ srv.to \in Name /\ srv.msg.mtype # ERR
          => SlotsOf(srv.to) # {}

Inv == /\ TypeOK
       /\ SlotsAgree
       /\ OwnMessages
       /\ OnlyListedGetMore
       /\ ConnectedIsListed

Assumptions == MqChatAssumption /\ QueueSizeAssumption

-----------------------------------------------------------------------------
(* Queues of any length *)

\* A set of natural numbers has a least element.
LEMMA MinOfNat ==
    ASSUME NEW S \in SUBSET Nat, S # {}
    PROVE  Min(S) \in S /\ \A y \in S : Min(S) <= y
  <1>1. PICK x \in S : \A y \in S : ~ (<<y, x>> \in OpToRel(<, Nat))
    BY NatLessThanWellFounded, WFMin
  <1>2. \A y \in S : ~ (y < x)
    BY <1>1, Zenon DEF OpToRel
  <1>3. \A y \in S : x <= y
    BY <1>2
  <1> QED
    BY <1>3 DEF Min

\* A bounded set of natural numbers has a greatest element.
LEMMA MaxOfBounded ==
    ASSUME NEW n \in Nat, NEW S \in SUBSET (0 .. n), S # {}
    PROVE  Max(S) \in S /\ \A y \in S : y <= Max(S)
  <1> DEFINE T == {k \in 0 .. n : n - k \in S}
  <1>1. T \in SUBSET Nat /\ T # {}
    <2>1. PICK x \in S : x \in 0 .. n
      OBVIOUS
    <2>2. n - x \in 0 .. n /\ n - (n - x) = x
      BY <2>1
    <2>3. n - x \in T
      BY <2>1, <2>2
    <2>4. T \subseteq Nat
      OBVIOUS
    <2> HIDE DEF T
    <2> QED
      BY <2>3, <2>4
  <1>2. PICK k \in T : \A j \in T : k <= j
    BY <1>1, MinOfNat
  <1>3. n - k \in S
    BY <1>2
  <1>4. \A y \in S : n - k >= y
    <2> SUFFICES ASSUME NEW y \in S
                 PROVE  n - k >= y
      OBVIOUS
    <2>1. n - y \in 0 .. n /\ n - (n - y) = y
      OBVIOUS
    <2>2. n - y \in T
      BY <2>1
    <2> QED
      BY <1>2, <2>1, <2>2
  <1>5. Max(S) \in S /\ \A y \in S : Max(S) >= y
    BY <1>3, <1>4, Zenon DEF Max
  <1> QED
    BY <1>5

\* The oldest message of a type that is in the queue.
LEMMA OldestIsThere ==
    ASSUME NEW T, NEW q \in Seq(T), NEW t, OfType(q, t) # {}
    PROVE  /\ OldestOf(q, t) \in 1 .. Len(q)
           /\ q[OldestOf(q, t)].mtype = t
           /\ \A k \in OfType(q, t) : OldestOf(q, t) <= k
  <1>1. OfType(q, t) \in SUBSET Nat /\ DOMAIN q = 1 .. Len(q)
    BY DEF OfType
  <1>2. OldestOf(q, t) \in OfType(q, t) /\ \A k \in OfType(q, t) : OldestOf(q, t) <= k
    BY <1>1, MinOfNat DEF OldestOf
  <1> QED
    BY <1>1, <1>2 DEF OfType

\* What mq_receive takes is there, when anything is, and is the oldest of its
\* type.
LEMMA HighestIsThere ==
    ASSUME NEW T, NEW q \in Seq(T), q # <<>>, NEW n \in Nat,
           \A i \in 1 .. Len(q) : q[i].mtype \in 0 .. n
    PROVE  /\ HighestType(q) \in 1 .. Len(q)
           /\ \A k \in OfType(q, q[HighestType(q)].mtype) : HighestType(q) <= k
  <1> DEFINE S == {q[i].mtype : i \in DOMAIN q}
  <1>1. DOMAIN q = 1 .. Len(q) /\ 1 \in DOMAIN q
    BY EmptySeq
  <1>2. S \in SUBSET (0 .. n) /\ S # {}
    BY <1>1
  <1>3. Max(S) \in S
    BY <1>2, MaxOfBounded
  <1>4. OfType(q, Max(S)) # {}
    BY <1>1, <1>3 DEF OfType
  <1> QED
    BY <1>4, OldestIsThere DEF HighestType

\* What is left in a queue was there before, one place further back perhaps.
LEMMA RemoveAtElements ==
    ASSUME NEW T, NEW q \in Seq(T), NEW i \in 1 .. Len(q)
    PROVE  /\ RemoveAt(q, i) \in Seq(T)
           /\ Len(RemoveAt(q, i)) = Len(q) - 1
           /\ \A k \in 1 .. Len(q) - 1 :
                 RemoveAt(q, i)[k] = q[IF k < i THEN k ELSE k + 1]
  <1> DEFINE a == SubSeq(q, 1, i - 1)
             b == SubSeq(q, i + 1, Len(q))
  <1>1. /\ a \in Seq(T) /\ Len(a) = i - 1
        /\ \A k \in 1 .. i - 1 : a[k] = q[k]
    BY SubSeqProperties
  <1>2. /\ b \in Seq(T) /\ Len(b) = Len(q) - i
        /\ \A k \in 1 .. Len(q) - i : b[k] = q[i + k]
    BY SubSeqProperties
  <1>3. RemoveAt(q, i) = a \o b
    BY DEF RemoveAt
  <1> HIDE DEF a, b
  <1>4. Len(q) \in Nat /\ i \in Nat /\ Len(a) \in Nat /\ Len(b) \in Nat
    BY <1>1, <1>2
  <1>5. /\ a \o b \in Seq(T) /\ Len(a \o b) = Len(a) + Len(b)
        /\ \A k \in 1 .. Len(a) + Len(b) :
              (a \o b)[k] = IF k <= Len(a) THEN a[k] ELSE b[k - Len(a)]
    BY <1>1, <1>2, ConcatProperties
  <1>6. Len(a) + Len(b) = Len(q) - 1
    BY <1>1, <1>2, <1>4
  <1>7. ASSUME NEW k \in 1 .. Len(q) - 1
        PROVE  (a \o b)[k] = q[IF k < i THEN k ELSE k + 1]
    <2>1. CASE k < i
      BY <1>1, <1>4, <1>5, <1>6, <2>1
    <2>2. CASE ~(k < i)
      <3>1. (a \o b)[k] = b[k - Len(a)]
        BY <1>1, <1>4, <1>5, <1>6, <2>2
      <3>2. k - Len(a) \in 1 .. Len(q) - i /\ i + (k - Len(a)) = k + 1
        BY <1>1, <1>4, <2>2
      <3> QED
        BY <1>2, <2>2, <3>1, <3>2
    <2> QED
      BY <2>1, <2>2
  <1> QED
    BY <1>3, <1>5, <1>6, <1>7

\* What mq_send does to a queue.
LEMMA AppendContains ==
    ASSUME NEW T, NEW q \in Seq(T), NEW x \in T
    PROVE  \A m : Contains(Append(q, x), m) <=> Contains(q, m) \/ m = x
  <1>1. /\ Len(Append(q, x)) = Len(q) + 1 /\ Len(q) \in Nat
        /\ \A k \in 1 .. Len(q) : Append(q, x)[k] = q[k]
        /\ Append(q, x)[Len(q) + 1] = x
    BY AppendProperties
  <1>2. 1 .. Len(q) + 1 = 1 .. Len(q) \cup {Len(q) + 1}
    BY <1>1
  <1> QED
    BY <1>1, <1>2 DEF Contains

\* What mq_receive does to a queue.
LEMMA RemoveAtContains ==
    ASSUME NEW T, NEW q \in Seq(T), NEW i \in 1 .. Len(q)
    PROVE  /\ \A m : Contains(RemoveAt(q, i), m) => Contains(q, m)
           /\ \A m : Contains(q, m) => Contains(RemoveAt(q, i), m) \/ m = q[i]
  <1> DEFINE r == RemoveAt(q, i)
             n == Len(q)
             f(k) == IF k < i THEN k ELSE k + 1
  <1>1. /\ n \in Nat /\ i \in Nat /\ 1 <= i /\ i <= n
        /\ r \in Seq(T) /\ Len(r) = n - 1
        /\ \A k \in 1 .. n - 1 : r[k] = q[f(k)]
    <2>1. n \in Nat /\ i \in Nat /\ 1 <= i /\ i <= n
      OBVIOUS
    <2>2. /\ r \in Seq(T) /\ Len(r) = n - 1
          /\ \A k \in 1 .. n - 1 : r[k] = q[IF k < i THEN k ELSE k + 1]
      BY RemoveAtElements, Zenon
    <2> QED
      BY <2>1, <2>2
  <1>2. \A k \in 1 .. n - 1 : f(k) \in 1 .. n /\ f(k) # i
    BY <1>1
  <1>3. \A k \in 1 .. n : k # i => \E j \in 1 .. n - 1 : f(j) = k
    <2> SUFFICES ASSUME NEW k \in 1 .. n, k # i
                 PROVE  \E j \in 1 .. n - 1 : f(j) = k
      OBVIOUS
    <2>1. CASE k < i
      <3>1. k \in 1 .. n - 1 /\ f(k) = k
        BY <1>1, <2>1
      <3> QED
        BY <3>1
    <2>2. CASE k > i
      <3>1. k - 1 \in 1 .. n - 1 /\ f(k - 1) = k
        BY <1>1, <2>2
      <3> QED
        BY <3>1
    <2>3. k < i \/ k > i
      BY <1>1
    <2> HIDE DEF f, n
    <2> QED
      BY <2>1, <2>2, <2>3
  <1> HIDE DEF r, f, n
  <1>4. ASSUME NEW m, Contains(r, m)
        PROVE  Contains(q, m)
    BY <1>1, <1>2, <1>4 DEF Contains, n
  <1>5. ASSUME NEW m, Contains(q, m)
        PROVE  Contains(r, m) \/ m = q[i]
    BY <1>1, <1>3, <1>5 DEF Contains, n
  <1> QED
    BY <1>4, <1>5 DEF r

-----------------------------------------------------------------------------
(* What is sent and received *)

\* Messages, field by field.
LEMMA MessageType ==
    ASSUME MqChatAssumption, NEW t \in {ERR, INIT, TO_ALL, LIST}, NEW s \in Queue,
           NEW l \in 0 .. MaxCommands
    PROVE  /\ Msg(t, s, l) \in Message /\ Msg(t, s, l).mtype = t
           /\ Msg(t, s, l).sender_name = s
  BY DEF Msg, Message

\* What is taken out of a queue was in it, and the rest stays, in its order
\* (server.c 38, client.c 50 and 60).
LEMMA ReceiveEffect ==
    ASSUME TypeOK, NEW q \in Queue, mq_receive(q)
    PROVE  /\ First(q) \in Message /\ Holds(q, First(q))
           /\ queues' \in [Queue -> Seq(Message)]
           /\ \A p \in Queue : Len(queues'[p]) <= QUEUE_SIZE
           /\ \A p \in Queue : \A m : Holds(p, m)' => Holds(p, m)
           /\ \A p \in Queue : \A m :
                 Holds(p, m) => Holds(p, m)' \/ (p = q /\ m = First(q))
           /\ \A p \in Queue \ {q} : queues'[p] = queues[p]
           /\ \E i \in 1 .. Len(queues[q]) :
                 /\ First(q) = queues[q][i] /\ Len(queues'[q]) = Len(queues[q]) - 1
                 /\ \A k \in 1 .. Len(queues[q]) - 1 :
                       queues'[q][k] = queues[q][IF k < i THEN k ELSE k + 1]
                 /\ \A k \in OfType(queues[q], First(q).mtype) : i <= k
  <1> DEFINE i == HighestType(queues[q])
  <1>1. /\ queues \in [Queue -> Seq(Message)] /\ queues[q] # <<>>
        /\ queues[q] \in Seq(Message)
        /\ \A p \in Queue : Len(queues[p]) <= QUEUE_SIZE
    BY DEF TypeOK, mq_receive
  <1>2. i \in 1 .. Len(queues[q]) /\ \A k \in OfType(queues[q], queues[q][i].mtype) : i <= k
    <2>1. \A k \in 1 .. Len(queues[q]) : queues[q][k].mtype \in 0 .. 4
      <3>1. \A k \in 1 .. Len(queues[q]) : queues[q][k] \in Message
        BY <1>1, ElementOfSeq
      <3> QED
        BY <3>1 DEF Message, ERR, INIT, TO_ALL, LIST
    <2> QED
      BY <1>1, <2>1, HighestIsThere
  <1>3. First(q) = queues[q][i] /\ First(q) \in Message /\ Holds(q, First(q))
    BY <1>1, <1>2, ElementOfSeq DEF First, Holds, Contains
  <1>4. queues' = [queues EXCEPT ![q] = RemoveAt(queues[q], i)]
    BY DEF mq_receive
  <1> HIDE DEF i
  <1>5. /\ RemoveAt(queues[q], i) \in Seq(Message)
        /\ Len(RemoveAt(queues[q], i)) = Len(queues[q]) - 1
        /\ \A k \in 1 .. Len(queues[q]) - 1 :
              RemoveAt(queues[q], i)[k] = queues[q][IF k < i THEN k ELSE k + 1]
    BY <1>1, <1>2, RemoveAtElements
  <1>6. /\ queues'[q] = RemoveAt(queues[q], i)
        /\ \A p \in Queue \ {q} : queues'[p] = queues[p]
    BY <1>1, <1>4
  <1>7. queues' \in [Queue -> Seq(Message)]
    BY <1>1, <1>4, <1>5
  <1>8. \A p \in Queue : Len(queues'[p]) <= QUEUE_SIZE
    <2>1. Len(queues[q]) \in Nat /\ Len(queues[q]) <= QUEUE_SIZE
      BY <1>1
    <2> QED
      BY <1>1, <1>5, <1>6, <2>1, QueueSizeAssumption
  <1>9. /\ \A m : Contains(RemoveAt(queues[q], i), m) => Contains(queues[q], m)
        /\ \A m : Contains(queues[q], m)
                    => Contains(RemoveAt(queues[q], i), m) \/ m = queues[q][i]
    BY <1>1, <1>2, RemoveAtContains
  <1>10. ASSUME NEW p \in Queue, NEW m
         PROVE  /\ Holds(p, m)' => Holds(p, m)
                /\ Holds(p, m) => Holds(p, m)' \/ (p = q /\ m = First(q))
    BY <1>3, <1>6, <1>9 DEF Holds
  <1> QED
    BY <1>2, <1>3, <1>5, <1>6, <1>7, <1>8, <1>10

\* What is sent is in its queue, behind what was there (server.c 116, 123, 155
\* and 181, client.c 49, 59, 70 and 79).
LEMMA SendEffect ==
    ASSUME TypeOK, QueueSizeAssumption, NEW q \in Queue, NEW x \in Message,
           mq_send(q, x)
    PROVE  /\ queues' \in [Queue -> Seq(Message)]
           /\ \A p \in Queue : Len(queues'[p]) <= QUEUE_SIZE
           /\ \A p \in Queue : \A m : Holds(p, m)' <=> Holds(p, m) \/ (p = q /\ m = x)
           /\ \A p \in Queue \ {q} : queues'[p] = queues[p]
           /\ Len(queues'[q]) = Len(queues[q]) + 1
           /\ \A k \in 1 .. Len(queues[q]) : queues'[q][k] = queues[q][k]
           /\ queues'[q][Len(queues[q]) + 1] = x
  <1>1. /\ queues \in [Queue -> Seq(Message)] /\ queues[q] \in Seq(Message)
        /\ \A p \in Queue : Len(queues[p]) <= QUEUE_SIZE
        /\ Len(queues[q]) < QUEUE_SIZE /\ Len(queues[q]) \in Nat
        /\ queues' = [queues EXCEPT ![q] = Append(queues[q], x)]
    BY DEF TypeOK, mq_send, HasRoom
  <1>2. /\ Append(queues[q], x) \in Seq(Message)
        /\ Len(Append(queues[q], x)) = Len(queues[q]) + 1
        /\ \A k \in 1 .. Len(queues[q]) : Append(queues[q], x)[k] = queues[q][k]
        /\ Append(queues[q], x)[Len(queues[q]) + 1] = x
        /\ \A m : Contains(Append(queues[q], x), m) <=> Contains(queues[q], m) \/ m = x
    BY <1>1, AppendProperties, AppendContains
  <1>3. /\ queues'[q] = Append(queues[q], x)
        /\ \A p \in Queue \ {q} : queues'[p] = queues[p]
    BY <1>1
  <1>4. queues' \in [Queue -> Seq(Message)]
    BY <1>1, <1>2
  <1>5. \A p \in Queue : Len(queues'[p]) <= QUEUE_SIZE
    BY <1>1, <1>2, <1>3, QueueSizeAssumption
  <1>6. ASSUME NEW p \in Queue, NEW m
        PROVE  Holds(p, m)' <=> Holds(p, m) \/ (p = q /\ m = x)
    BY <1>2, <1>3 DEF Holds
  <1> QED
    BY <1>2, <1>3, <1>4, <1>5, <1>6

-----------------------------------------------------------------------------
(* The slots *)

\* Nobody has asked for anything yet.
LEMMA InitInv ==
    ASSUME MqChatAssumption, Init
    PROVE  Inv
  <1>1. \A q \in Queue : \A m : ~Holds(q, m)
    BY DEF Init, Holds, Contains
  <1>2. \A q \in Queue : queues[q] \in Seq(Message) /\ Len(queues[q]) = 0
    BY EmptySeq DEF Init
  <1>3. Waiting.msg \in Message
    BY MessageType DEF Waiting, Queue, MqChatAssumption
  <1>4. TypeOK
    <2>1. queues \in [Queue -> Seq(Message)]
      BY <1>2 DEF Init
    <2>2. \A q \in Queue : Len(queues[q]) <= QUEUE_SIZE
      BY <1>2, QueueSizeAssumption
    <2>3. srv \in [at : {"receive", "answer", "to_all"}, asker : Queue \cup {None},
                   to : Queue \cup {None}, msg : Message, i : Slot]
      BY <1>3 DEF Init, Waiting, Slot, MqChatAssumption
    <2> QED
      BY <2>1, <2>2, <2>3 DEF Init, TypeOK, MqChatAssumption
  <1>5. SlotsAgree /\ ConnectedIsListed
    BY DEF Init, SlotsAgree, ConnectedIsListed
  <1>6. OwnMessages /\ OnlyListedGetMore
    BY <1>1 DEF Init, Waiting, OwnMessages, OnlyListedGetMore, Queue
  <1> QED
    BY <1>4, <1>5, <1>6 DEF Inv

\* A step that adds no message and changes neither slots, nor flags, nor what
\* the server is about to answer keeps all but the types.
LEMMA NothingNew ==
    ASSUME MqChatAssumption, Inv, TypeOK',
           UNCHANGED <<name, client_list, client_que_desc, connected>>,
           \A p \in Queue : \A m : Holds(p, m)' => Holds(p, m),
           srv' = srv \/ srv'.at # "answer"
    PROVE  Inv'
  <1>1. \A q : SlotsOf(q)' = SlotsOf(q)
    BY DEF SlotsOf
  <1>2. SlotsAgree' /\ ConnectedIsListed'
    BY <1>1 DEF Inv, SlotsAgree, ConnectedIsListed
  <1>3. OwnMessages'
    BY DEF Inv, OwnMessages, Queue
  <1>4. OnlyListedGetMore'
    BY <1>1 DEF Inv, OnlyListedGetMore, Queue
  <1> QED
    BY <1>2, <1>3, <1>4 DEF Inv

\* A request that is received is not the server's own, unless it is LIST.
LEMMA AskerType ==
    ASSUME Inv, NEW t, Receive(t)
    PROVE  /\ Asker \in Queue /\ First(SERVER_QUEUE).mtype = t
           /\ First(SERVER_QUEUE) \in Message
           /\ t # LIST => Asker \in Name
  <1>1. SERVER_QUEUE \in Queue
    BY DEF Queue
  <1>2. /\ First(SERVER_QUEUE) \in Message
        /\ Holds(SERVER_QUEUE, First(SERVER_QUEUE))
        /\ First(SERVER_QUEUE).mtype = t
    BY <1>1, ReceiveEffect DEF Inv, Receive
  <1>3. Asker \in Queue
    BY <1>2 DEF Asker, Message
  <1>4. t # LIST => Asker # SERVER_QUEUE
    BY <1>2 DEF Inv, OwnMessages, Asker
  <1> QED
    BY <1>2, <1>3, <1>4 DEF Queue

\* The record of the server when it is about to answer.
LEMMA AnswersType ==
    ASSUME MqChatAssumption, TypeOK, NEW t \in {ERR, INIT, LIST},
           NEW q \in Queue \cup {None}, Asker \in Queue, Answers(t, q)
    PROVE  /\ srv' \in [at : {"receive", "answer", "to_all"},
                        asker : Queue \cup {None}, to : Queue \cup {None},
                        msg : Message, i : Slot]
           /\ srv'.at = "answer" /\ srv'.to = q /\ srv'.msg.mtype = t
  <1>1. /\ Msg(t, SERVER_QUEUE, 0) \in Message
        /\ Msg(t, SERVER_QUEUE, 0).mtype = t
    BY MessageType DEF Queue, MqChatAssumption
  <1> QED
    BY <1>1 DEF TypeOK, Answers

\* A client is admitted (server.c 107-119).
LEMMA AdmitInv ==
    ASSUME MqChatAssumption, Inv, Admit
    PROVE  Inv'
  <1> DEFINE s == Min(FreeSlots)
  <1>1. s \in Slot /\ client_list[s] = None /\ client_que_desc[s] = None
    <2>1. FreeSlots \in SUBSET Nat /\ FreeSlots # {}
      BY DEF Admit, FreeSlots, Slot, MqChatAssumption
    <2>2. s \in FreeSlots
      BY <2>1, MinOfNat
    <2> QED
      BY <2>2 DEF FreeSlots, Inv, SlotsAgree
  <1> HIDE DEF s
  <1>2. /\ Receive(INIT) /\ Answers(INIT, Asker)
        /\ client_list' = [client_list EXCEPT ![s] = SERVER_QUEUE]
        /\ client_que_desc' = [client_que_desc EXCEPT ![s] = Asker]
        /\ UNCHANGED <<name, pc, connected, commands>>
    BY DEF Admit, clientVars, s
  <1>3. PICK a : a = Asker /\ a \in Name /\ a \in Queue
    BY <1>2, AskerType DEF INIT, LIST
  <1>4. /\ queues' \in [Queue -> Seq(Message)]
        /\ \A p \in Queue : Len(queues'[p]) <= QUEUE_SIZE
        /\ \A p \in Queue : \A m : Holds(p, m)' => Holds(p, m)
    BY <1>2, ReceiveEffect DEF Receive, Queue, Inv
  <1>5. /\ srv' \in [at : {"receive", "answer", "to_all"},
                     asker : Queue \cup {None}, to : Queue \cup {None},
                     msg : Message, i : Slot]
        /\ srv'.at = "answer" /\ srv'.to = a /\ srv'.msg.mtype = INIT
    BY <1>2, <1>3, AnswersType DEF Inv
  <1>6. /\ client_list \in [Slot -> {None, SERVER_QUEUE}]
        /\ client_que_desc \in [Slot -> Name \cup {None}]
        /\ a # None /\ SERVER_QUEUE # None /\ a # SERVER_QUEUE
    BY <1>3 DEF Inv, TypeOK, MqChatAssumption
  <1>7. /\ \A q : q # None => SlotsOf(q) \subseteq SlotsOf(q)'
        /\ SlotsOf(a)' # {}
    <2>1. client_que_desc'[s] = a
      BY <1>1, <1>2, <1>3, <1>6
    <2>2. s \in SlotsOf(a)'
      BY <1>1, <2>1 DEF SlotsOf
    <2>3. ASSUME NEW q, q # None, NEW r \in SlotsOf(q)
          PROVE  r \in SlotsOf(q)'
      <3>1. r \in Slot /\ client_que_desc[r] = q /\ r # s
        BY <1>1, <2>3 DEF SlotsOf
      <3>2. client_que_desc'[r] = q
        BY <1>2, <1>6, <3>1
      <3> QED
        BY <3>1, <3>2 DEF SlotsOf
    <2> QED
      BY <2>2, <2>3
  <1>8. TypeOK'
    BY <1>2, <1>3, <1>4, <1>5, <1>6 DEF Inv, TypeOK
  <1>9. SlotsAgree'
    BY <1>1, <1>2, <1>3, <1>6 DEF Inv, SlotsAgree
  <1>10. OwnMessages'
    BY <1>3, <1>4, <1>5, <1>6 DEF Inv, OwnMessages, Queue
  <1>11. OnlyListedGetMore'
    <2>1. \A n \in Name : n # None
      BY DEF MqChatAssumption
    <2>2. ASSUME NEW n \in Name, NEW m \in Message, Holds(n, m)', m.mtype # ERR
          PROVE  SlotsOf(n)' # {}
      <3>1. Holds(n, m)
        BY <1>4, <2>2 DEF Queue
      <3>2. SlotsOf(n) # {}
        BY <2>2, <3>1 DEF Inv, OnlyListedGetMore
      <3> QED
        BY <1>7, <2>1, <3>2
    <2> QED
      BY <1>5, <1>7, <2>2 DEF OnlyListedGetMore
  <1>12. ConnectedIsListed'
    <2>1. \A c \in Client : name[c] # None /\ name'[c] = name[c]
                            /\ connected'[c] = connected[c]
      BY <1>2 DEF Inv, TypeOK, MqChatAssumption
    <2> QED
      BY <1>7, <2>1 DEF Inv, ConnectedIsListed
  <1> QED
    BY <1>8, <1>9, <1>10, <1>11, <1>12 DEF Inv

\* An answer that is not for a stranger may be sent (server.c 112-123 and
\* 179-181).
LEMMA AnswerInv ==
    ASSUME MqChatAssumption, Inv, NEW t, NEW u \in {ERR, INIT, LIST}, NEW q,
           Receive(t), Answers(u, q), q \in Queue \cup {None},
           q = SERVER_QUEUE => u = LIST,
           q \in Name /\ u # ERR => SlotsOf(q) # {},
           UNCHANGED <<name, client_list, client_que_desc, clientVars>>
    PROVE  Inv'
  <1>1. /\ queues' \in [Queue -> Seq(Message)]
        /\ \A p \in Queue : Len(queues'[p]) <= QUEUE_SIZE
        /\ \A p \in Queue : \A m : Holds(p, m)' => Holds(p, m)
    BY ReceiveEffect DEF Receive, Queue, Inv
  <1>2. Asker \in Queue
    BY AskerType
  <1>3. /\ srv' \in [at : {"receive", "answer", "to_all"},
                     asker : Queue \cup {None}, to : Queue \cup {None},
                     msg : Message, i : Slot]
        /\ srv'.at = "answer" /\ srv'.to = q /\ srv'.msg.mtype = u
    BY <1>2, AnswersType DEF Inv
  <1>4. \A p : SlotsOf(p)' = SlotsOf(p)
    BY DEF SlotsOf
  <1>5. TypeOK'
    BY <1>1, <1>3 DEF Inv, TypeOK, clientVars
  <1>6. SlotsAgree' /\ ConnectedIsListed'
    BY <1>4 DEF Inv, SlotsAgree, ConnectedIsListed, clientVars
  <1>7. OwnMessages'
    BY <1>1, <1>3 DEF Inv, OwnMessages, Queue
  <1>8. OnlyListedGetMore'
    BY <1>1, <1>3, <1>4 DEF Inv, OnlyListedGetMore, Queue
  <1> QED
    BY <1>5, <1>6, <1>7, <1>8 DEF Inv

\* A client is refused (server.c 120-123).
LEMMA RefuseInv ==
    ASSUME MqChatAssumption, Inv, Refuse
    PROVE  Inv'
  <1>1. PICK a : a = Asker /\ a \in Name /\ a \in Queue
    BY AskerType DEF Refuse, INIT, LIST
  <1>2. a # SERVER_QUEUE
    BY <1>1 DEF MqChatAssumption
  <1>3. Answers(ERR, a)
    BY <1>1 DEF Refuse, Answers
  <1> QED
    BY <1>1, <1>2, <1>3, AnswerInv DEF Refuse

\* Wherever the answer to LIST goes, if to a client, then to one that has a slot
\* (server.c 166-181).
LEMMA HandleListInv ==
    ASSUME MqChatAssumption, Inv, HandleList
    PROVE  Inv'
  <1>1. PICK q \in Recipients(Asker) : Receive(LIST) /\ Answers(LIST, q)
    BY DEF HandleList
  <1>2. client_que_desc \in [Slot -> Name \cup {None}]
    BY DEF Inv, TypeOK
  <1>3. q \in {None, SERVER_QUEUE} \/ \E s \in Slot : q = client_que_desc[s]
    <2>1. CASE Matches(Asker) # {}
      <3>1. Matches(Asker) \in SUBSET (0 .. MAX_NO_CLIENTS)
        BY DEF Matches, Slot, MqChatAssumption
      <3>2. Max(Matches(Asker)) \in Matches(Asker)
        BY <2>1, <3>1, MaxOfBounded DEF MqChatAssumption
      <3>3. q = client_que_desc[Max(Matches(Asker))]
        BY <1>1, <2>1 DEF Recipients
      <3> QED
        BY <3>2, <3>3 DEF Matches
    <2>2. CASE Matches(Asker) = {}
      BY <1>1, <2>2 DEF Recipients
    <2> QED
      BY <2>1, <2>2
  <1>4. q \in Queue \cup {None}
    BY <1>2, <1>3 DEF Queue
  <1>5. q \in Name => SlotsOf(q) # {}
    BY <1>3 DEF SlotsOf, MqChatAssumption
  <1> QED
    BY <1>1, <1>4, <1>5, AnswerInv DEF HandleList

\* A message may be sent that is not for a stranger.
LEMMA SendInv ==
    ASSUME Inv, QueueSizeAssumption, TypeOK',
           NEW q \in Queue, NEW x \in Message, mq_send(q, x),
           UNCHANGED <<name, client_list, client_que_desc, connected>>,
           srv' = srv \/ srv'.at # "answer",
           q = SERVER_QUEUE /\ x.sender_name = SERVER_QUEUE => x.mtype = LIST,
           q \in Name /\ x.mtype # ERR => SlotsOf(q) # {}
    PROVE  Inv'
  <1>1. \A p \in Queue : \A m : Holds(p, m)' => Holds(p, m) \/ (p = q /\ m = x)
    BY SendEffect DEF Inv
  <1>2. \A p : SlotsOf(p)' = SlotsOf(p)
    BY DEF SlotsOf
  <1>3. SlotsAgree' /\ ConnectedIsListed'
    BY <1>2 DEF Inv, SlotsAgree, ConnectedIsListed
  <1>4. OwnMessages'
    BY <1>1 DEF Inv, OwnMessages, Queue
  <1>5. OnlyListedGetMore'
    BY <1>1, <1>2 DEF Inv, OnlyListedGetMore, Queue
  <1> QED
    BY <1>3, <1>4, <1>5 DEF Inv

-----------------------------------------------------------------------------
(* The steps *)

\* The answer goes out, or nowhere (server.c 116, 123 and 181).
LEMMA SendAnswerInv ==
    ASSUME MqChatAssumption, QueueSizeAssumption, Inv, SendAnswer
    PROVE  Inv'
  <1>1. /\ srv.at = "answer" /\ srv' = Waiting
        /\ UNCHANGED <<name, client_list, client_que_desc, pc, connected, commands>>
    BY DEF SendAnswer, clientVars
  <1>2. /\ srv' \in [at : {"receive", "answer", "to_all"},
                     asker : Queue \cup {None}, to : Queue \cup {None},
                     msg : Message, i : Slot]
        /\ srv'.at # "answer"
    BY <1>1, MessageType DEF Waiting, Slot, Queue, MqChatAssumption
  <1>3. CASE srv.to = None /\ UNCHANGED queues
    <2>1. \A p, m : Holds(p, m)' => Holds(p, m)
      BY <1>3 DEF Holds
    <2>2. TypeOK'
      BY <1>1, <1>2, <1>3 DEF Inv, TypeOK
    <2> QED
      BY <1>1, <1>2, <2>1, <2>2, NothingNew
  <1>4. CASE srv.to # None /\ mq_send(srv.to, srv.msg)
    <2>1. PICK q, x : q = srv.to /\ x = srv.msg
      OBVIOUS
    <2>2. q \in Queue /\ x \in Message /\ mq_send(q, x)
      BY <1>4, <2>1 DEF Inv, TypeOK, mq_send
    <2>3. /\ q = SERVER_QUEUE => x.mtype = LIST
          /\ q \in Name /\ x.mtype # ERR => SlotsOf(q) # {}
      BY <1>1, <2>1 DEF Inv, OwnMessages, OnlyListedGetMore
    <2>4. /\ queues' \in [Queue -> Seq(Message)]
          /\ \A p \in Queue : Len(queues'[p]) <= QUEUE_SIZE
      BY <2>2, SendEffect DEF Inv
    <2>5. TypeOK'
      BY <1>1, <1>2, <2>4 DEF Inv, TypeOK
    <2> QED
      BY <1>1, <1>2, <2>2, <2>3, <2>5, SendInv
  <1> QED
    BY <1>3, <1>4 DEF SendAnswer

\* A line of chat is taken up (server.c 151-152).
LEMMA HandleToAllInv ==
    ASSUME MqChatAssumption, Inv, HandleToAll
    PROVE  Inv'
  <1>1. /\ Receive(TO_ALL)
        /\ srv' = [srv EXCEPT !.at = "to_all", !.asker = Asker,
                              !.msg = First(SERVER_QUEUE)]
        /\ UNCHANGED <<name, client_list, client_que_desc, pc, connected, commands>>
    BY DEF HandleToAll, clientVars
  <1>2. Asker \in Queue /\ First(SERVER_QUEUE) \in Message
    BY <1>1, AskerType
  <1>3. /\ queues' \in [Queue -> Seq(Message)]
        /\ \A p \in Queue : Len(queues'[p]) <= QUEUE_SIZE
        /\ \A p \in Queue : \A m : Holds(p, m)' => Holds(p, m)
    BY <1>1, ReceiveEffect DEF Receive, Queue, Inv
  <1>4. /\ srv' \in [at : {"receive", "answer", "to_all"},
                     asker : Queue \cup {None}, to : Queue \cup {None},
                     msg : Message, i : Slot]
        /\ srv'.at # "answer"
    BY <1>1, <1>2 DEF Inv, TypeOK
  <1>5. TypeOK'
    BY <1>1, <1>3, <1>4 DEF Inv, TypeOK
  <1> QED
    BY <1>1, <1>3, <1>4, <1>5, NothingNew

\* It is handed out, to a queue that has a slot (server.c 152-157).
LEMMA SendToAllInv ==
    ASSUME MqChatAssumption, QueueSizeAssumption, Inv, SendToAll
    PROVE  Inv'
  <1>1. /\ srv.at = "to_all"
        /\ srv' = IF srv.i = MAX_NO_CLIENTS THEN Waiting
                                            ELSE [srv EXCEPT !.i = @ + 1]
        /\ UNCHANGED <<name, client_list, client_que_desc, pc, connected, commands>>
    BY DEF SendToAll, clientVars
  <1>2. /\ srv' \in [at : {"receive", "answer", "to_all"},
                     asker : Queue \cup {None}, to : Queue \cup {None},
                     msg : Message, i : Slot]
        /\ srv'.at # "answer"
    <2>1. /\ srv.i \in 1 .. MAX_NO_CLIENTS /\ MAX_NO_CLIENTS \in Nat
          /\ srv \in [at : {"receive", "answer", "to_all"},
                      asker : Queue \cup {None}, to : Queue \cup {None},
                      msg : Message, i : Slot]
      BY DEF Inv, TypeOK, Slot, MqChatAssumption
    <2>2. CASE srv.i = MAX_NO_CLIENTS
      BY <1>1, <2>2, MessageType DEF Waiting, Slot, Queue, MqChatAssumption
    <2>3. CASE srv.i # MAX_NO_CLIENTS
      <3>1. srv.i + 1 \in Slot /\ srv' = [srv EXCEPT !.i = srv.i + 1]
        BY <1>1, <2>1, <2>3 DEF Slot
      <3> QED
        BY <1>1, <2>1, <3>1
    <2> QED
      BY <2>2, <2>3
  <1>3. CASE UNCHANGED queues
    <2>1. \A p, m : Holds(p, m)' => Holds(p, m)
      BY <1>3 DEF Holds
    <2>2. TypeOK'
      BY <1>1, <1>2, <1>3 DEF Inv, TypeOK
    <2> QED
      BY <1>1, <1>2, <2>1, <2>2, NothingNew
  <1>4. CASE /\ client_que_desc[srv.i] # None
             /\ mq_send(client_que_desc[srv.i], srv.msg)
    <2>1. PICK q, x : q = client_que_desc[srv.i] /\ x = srv.msg
      OBVIOUS
    <2>2. q \in Name /\ q \in Queue /\ x \in Message /\ mq_send(q, x)
      BY <1>4, <2>1 DEF Inv, TypeOK, mq_send, Queue
    <2>3. q # SERVER_QUEUE /\ SlotsOf(q) # {}
      BY <2>1, <2>2 DEF Inv, TypeOK, SlotsOf, MqChatAssumption
    <2>4. /\ queues' \in [Queue -> Seq(Message)]
          /\ \A p \in Queue : Len(queues'[p]) <= QUEUE_SIZE
      BY <2>2, SendEffect DEF Inv
    <2>5. TypeOK'
      BY <1>1, <1>2, <2>4 DEF Inv, TypeOK
    <2> QED
      BY <1>1, <1>2, <2>2, <2>3, <2>5, SendInv
  <1> QED
    BY <1>3, <1>4 DEF SendToAll

\* A user's command goes to the server under the client's name (client.c 41-80).
LEMMA CommandInv ==
    ASSUME MqChatAssumption, QueueSizeAssumption, Inv, NEW c \in Client,
           UserCommand(c)
    PROVE  Inv'
  <1>1. PICK t \in {INIT, TO_ALL, LIST}, to \in {"command", "await_init", "await_list"} :
            Command(c, t, to)
    BY DEF UserCommand, CommandInit, CommandList, CommandToAll
  <1>2. /\ commands \in 0 .. MaxCommands /\ commands < MaxCommands
        /\ commands' = commands + 1 /\ MaxCommands \in Nat
        /\ pc' = [pc EXCEPT ![c] = to]
        /\ mq_send(SERVER_QUEUE, Msg(t, name[c], commands'))
        /\ UNCHANGED <<name, client_list, client_que_desc, srv, connected>>
    BY <1>1 DEF Command, serverVars, Inv, TypeOK, MqChatAssumption
  <1>3. PICK x : x = Msg(t, name[c], commands')
    OBVIOUS
  <1>4. commands' \in 0 .. MaxCommands
    BY <1>2
  <1>5. name[c] \in Name /\ name[c] \in Queue /\ name[c] # SERVER_QUEUE
    BY DEF Inv, TypeOK, Queue, MqChatAssumption
  <1>6. x \in Message /\ x.sender_name = name[c]
    BY <1>3, <1>4, <1>5, MessageType
  <1>7. SERVER_QUEUE \in Queue /\ SERVER_QUEUE \notin Name
    BY DEF Queue, MqChatAssumption
  <1>8. mq_send(SERVER_QUEUE, x)
    BY <1>2, <1>3 DEF mq_send
  <1>9. /\ queues' \in [Queue -> Seq(Message)]
        /\ \A p \in Queue : Len(queues'[p]) <= QUEUE_SIZE
    BY <1>6, <1>7, <1>8, SendEffect DEF Inv
  <1>10. TypeOK'
    BY <1>2, <1>4, <1>9 DEF Inv, TypeOK
  <1> QED
    BY <1>2, <1>5, <1>6, <1>7, <1>8, <1>10, SendInv

\* A client takes what comes first for its answer (client.c 50-52 and 60).
LEMMA ClientInv ==
    ASSUME MqChatAssumption, Inv, NEW c \in Client, ClientStep(c)
    PROVE  Inv'
  <1>1. /\ mq_receive(name[c]) /\ pc' = [pc EXCEPT ![c] = "command"]
        /\ UNCHANGED <<name, client_list, client_que_desc, srv, commands>>
    BY DEF ClientStep, AwaitInit, AwaitList, serverVars
  <1>2. PICK q : q = name[c] /\ q \in Name /\ q \in Queue
    BY DEF Inv, TypeOK, Queue
  <1>3. mq_receive(q)
    BY <1>1, <1>2 DEF mq_receive
  <1>4. /\ First(q) \in Message /\ Holds(q, First(q))
        /\ queues' \in [Queue -> Seq(Message)]
        /\ \A p \in Queue : Len(queues'[p]) <= QUEUE_SIZE
        /\ \A p \in Queue : \A m : Holds(p, m)' => Holds(p, m)
    BY <1>2, <1>3, ReceiveEffect DEF Inv
  <1>5. /\ connected' \in [Client -> BOOLEAN]
        /\ \A d \in Client : connected'[d] => connected[d] \/ SlotsOf(name[d]) # {}
    <2>1. connected \in [Client -> BOOLEAN]
      BY DEF Inv, TypeOK
    <2>2. CASE AwaitInit(c)
      <3>1. connected' = [connected EXCEPT ![c] = First(q).mtype # ERR]
        BY <1>2, <2>2 DEF AwaitInit
      <3>2. First(q).mtype # ERR => SlotsOf(q) # {}
        BY <1>2, <1>4 DEF Inv, OnlyListedGetMore
      <3> QED
        BY <1>2, <2>1, <3>1, <3>2
    <2>3. CASE AwaitList(c)
      BY <2>1, <2>3 DEF AwaitList
    <2> QED
      BY <2>2, <2>3 DEF ClientStep
  <1>6. \A p : SlotsOf(p)' = SlotsOf(p)
    BY <1>1 DEF SlotsOf
  <1>7. TypeOK'
    BY <1>1, <1>4, <1>5 DEF Inv, TypeOK
  <1>8. SlotsAgree' /\ OwnMessages' /\ OnlyListedGetMore'
    BY <1>1, <1>4, <1>6 DEF Inv, SlotsAgree, OwnMessages, OnlyListedGetMore, Queue
  <1>9. ConnectedIsListed'
    <2>1. \A d \in Client : connected'[d] => SlotsOf(name[d]) # {}
      BY <1>5 DEF Inv, ConnectedIsListed
    <2> QED
      BY <1>1, <2>1 DEF ConnectedIsListed, SlotsOf
  <1> QED
    BY <1>7, <1>8, <1>9 DEF Inv

\* The invariant holds throughout.
THEOREM InvHolds == Spec => []Inv
  <1>1. Init => Inv
    BY InitInv, MqChatAssumption
  <1>2. Inv /\ [Next]_vars => Inv'
    <2> SUFFICES ASSUME Inv, [Next]_vars
                 PROVE  Inv'
      OBVIOUS
    <2> USE MqChatAssumption, QueueSizeAssumption
    <2>1. CASE ServerStep
      BY <2>1, AdmitInv, RefuseInv, HandleListInv, SendAnswerInv, HandleToAllInv,
         SendToAllInv DEF ServerStep
    <2>2. CASE \E c \in Client : ClientStep(c) \/ UserCommand(c)
      BY <2>2, ClientInv, CommandInv
    <2>3. CASE UNCHANGED vars
      <3>1. \A p, m : Holds(p, m)' => Holds(p, m)
        BY <2>3 DEF vars, Holds
      <3>2. TypeOK'
        BY <2>3 DEF vars, serverVars, clientVars, Inv, TypeOK
      <3> QED
        BY <2>3, <3>1, <3>2, NothingNew DEF vars, serverVars, clientVars
    <2> QED
      BY <2>1, <2>2, <2>3 DEF Next
  <1> QED
    BY <1>1, <1>2, PTL DEF Spec

\* The types of every variable.
THEOREM TypeCorrect == Spec => []TypeOK
  <1>1. Inv => TypeOK
    BY DEF Inv
  <1> QED
    BY <1>1, InvHolds, PTL

\* A client that thinks it is connected has a slot of the server's, whoever else
\* reads its queue (client.c 52, server.c 111-114).
THEOREM ConnectedAlwaysListed == Spec => []ConnectedIsListed
  <1>1. Inv => ConnectedIsListed
    BY DEF Inv
  <1> QED
    BY <1>1, InvHolds, PTL

-----------------------------------------------------------------------------
(* The wait for the answer to INIT *)

\* The request of a client is in the server's queue, is being answered, or has
\* been: the client has something to read.
UnderWay(c) ==
    \/ \E m \in Message : /\ Holds(SERVER_QUEUE, m)
                          /\ m.mtype = INIT /\ m.sender_name = name[c]
    \/ srv.at = "answer" /\ srv.to = name[c]
    \/ \E m : Holds(name[c], m)

AloneWithName(c) == \A d \in Client \ {c} : name[d] # name[c]

WaitInv == \A c \in Client : pc[c] = "await_init" /\ AloneWithName(c) => UnderWay(c)

LEMMA WaitIsUnderWay ==
    ASSUME TypeOK, WaitInv
    PROVE  InitUnderWay
  <1> SUFFICES ASSUME NEW c \in Client, pc[c] = "await_init", AloneWithName(c)
               PROVE  \/ \E i \in OfType(queues[SERVER_QUEUE], INIT) :
                            queues[SERVER_QUEUE][i].sender_name = name[c]
                      \/ srv.at = "answer" /\ srv.to = name[c]
                      \/ queues[name[c]] # <<>>
    BY DEF InitUnderWay, AloneWithName
  <1>1. \A q \in Queue : DOMAIN queues[q] = 1 .. Len(queues[q])
    BY DEF TypeOK
  <1>2. SERVER_QUEUE \in Queue /\ name[c] \in Queue
    BY DEF Queue, TypeOK
  <1>3. ASSUME NEW m \in Message, Holds(SERVER_QUEUE, m), m.mtype = INIT,
               m.sender_name = name[c]
        PROVE  \E i \in OfType(queues[SERVER_QUEUE], INIT) :
                   queues[SERVER_QUEUE][i].sender_name = name[c]
    BY <1>1, <1>2, <1>3 DEF Holds, Contains, OfType
  <1>4. ASSUME NEW m, Holds(name[c], m)
        PROVE  queues[name[c]] # <<>>
    BY <1>4, EmptySeq DEF Holds, Contains
  <1>5. UnderWay(c)
    BY DEF WaitInv
  <1> QED
    BY <1>3, <1>4, <1>5 DEF UnderWay

\* Only a request for admission can be taken out of the server's queue without
\* the client noticing: it is answered at once (server.c 107-126).
LEMMA ServerWaits ==
    ASSUME MqChatAssumption, QueueSizeAssumption, Inv, ServerStep, NEW c \in Client,
           UnderWay(c)
    PROVE  UnderWay(c)'
  <1>1. UNCHANGED name /\ name[c] \in Name /\ name[c] # None /\ name[c] # SERVER_QUEUE
        /\ name[c] \in Queue /\ SERVER_QUEUE \in Queue
    BY DEF ServerStep, Admit, Refuse, HandleList, SendAnswer, HandleToAll, SendToAll, Inv,
        TypeOK, MqChatAssumption, Queue
  <1>2. ASSUME NEW t, Receive(t), t # INIT \/ (srv'.at = "answer" /\ srv'.to = Asker)
        PROVE  UnderWay(c)'
    <2>1. /\ srv.at = "receive" /\ First(SERVER_QUEUE).mtype = t
          /\ \A p \in Queue : \A m :
                Holds(p, m) => Holds(p, m)' \/ (p = SERVER_QUEUE /\ m = First(SERVER_QUEUE))
      BY <1>1, <1>2, ReceiveEffect DEF Receive, Inv
    <2>2. ASSUME NEW m \in Message, Holds(SERVER_QUEUE, m), m.mtype = INIT,
                 m.sender_name = name[c], m = First(SERVER_QUEUE)
          PROVE  UnderWay(c)'
      BY <1>1, <1>2, <2>1, <2>2 DEF UnderWay, Asker
    <2> QED
      BY <1>1, <2>1, <2>2 DEF UnderWay
  <1>3. ASSUME NEW q \in Queue, NEW x \in Message, mq_send(q, x),
               srv.at = "answer" => srv.to = q
        PROVE  UnderWay(c)'
    <2>1. \A p \in Queue : \A m : Holds(p, m)' <=> Holds(p, m) \/ (p = q /\ m = x)
      BY <1>3, SendEffect DEF Inv
    <2> QED
      BY <1>1, <1>3, <2>1 DEF UnderWay
  <1>4. CASE Admit \/ Refuse
    BY <1>2, <1>4 DEF Admit, Refuse, Answers, Inv, TypeOK
  <1>5. CASE HandleList \/ HandleToAll
    BY <1>2, <1>5 DEF HandleList, HandleToAll, INIT, LIST, TO_ALL
  <1>6. CASE SendAnswer
    <2>1. srv.to \in Queue \cup {None} /\ srv.msg \in Message /\ srv.at = "answer"
      BY <1>6 DEF Inv, TypeOK, SendAnswer
    <2>2. CASE srv.to = None /\ UNCHANGED queues
      BY <1>1, <2>1, <2>2 DEF UnderWay, Holds
    <2>3. CASE srv.to # None /\ mq_send(srv.to, srv.msg)
      BY <1>3, <2>1, <2>3
    <2> QED
      BY <1>6, <2>2, <2>3 DEF SendAnswer
  <1>7. CASE SendToAll
    <2>1. /\ client_que_desc[srv.i] \in Name \cup {None} /\ srv.msg \in Message
          /\ srv.at = "to_all"
      BY <1>7 DEF Inv, TypeOK, SendToAll
    <2>2. CASE client_que_desc[srv.i] = None /\ UNCHANGED queues
      BY <1>1, <2>1, <2>2 DEF UnderWay, Holds
    <2>3. CASE /\ client_que_desc[srv.i] # None
               /\ mq_send(client_que_desc[srv.i], srv.msg)
      BY <1>3, <2>1, <2>3 DEF Queue
    <2> QED
      BY <1>7, <2>2, <2>3 DEF SendToAll
  <1> QED
    BY <1>4, <1>5, <1>6, <1>7 DEF ServerStep

LEMMA WaitKept ==
    ASSUME MqChatAssumption, QueueSizeAssumption, Inv, WaitInv, [Next]_vars
    PROVE  WaitInv'
  <1>1. UNCHANGED name
    BY DEF Next, ServerStep, Admit, Refuse, HandleList, SendAnswer, HandleToAll, SendToAll,
        ClientStep, AwaitInit, AwaitList, UserCommand, CommandInit, CommandList,
        CommandToAll, Command, vars
  <1> SUFFICES ASSUME NEW c \in Client, pc'[c] = "await_init", AloneWithName(c)
               PROVE  UnderWay(c)'
    BY <1>1 DEF WaitInv, AloneWithName
  <1>2. /\ pc \in [Client -> {"command", "await_init", "await_list"}]
        /\ name \in [Client -> Name] /\ SERVER_QUEUE \in Queue
        /\ \A d \in Client : name[d] \in Queue /\ name[d] # SERVER_QUEUE
    BY DEF Inv, TypeOK, Queue, MqChatAssumption
  <1>3. CASE ServerStep
    <2>1. UNCHANGED pc
      BY <1>3 DEF ServerStep, Admit, Refuse, HandleList, SendAnswer, HandleToAll, SendToAll,
          clientVars
    <2> QED
      BY <1>3, <2>1, ServerWaits DEF WaitInv
  <1>4. ASSUME NEW d \in Client, ClientStep(d)
        PROVE  UnderWay(c)'
    <2>1. /\ mq_receive(name[d]) /\ pc' = [pc EXCEPT ![d] = "command"] /\ UNCHANGED srv
      BY <1>4 DEF ClientStep, AwaitInit, AwaitList, serverVars
    <2>2. d # c /\ pc[c] = "await_init" /\ name[d] # name[c]
      BY <1>2, <2>1 DEF AloneWithName
    <2>3. \A p \in Queue : \A m :
             Holds(p, m) => Holds(p, m)' \/ (p = name[d] /\ m = First(name[d]))
      BY <1>2, <2>1, ReceiveEffect DEF Inv
    <2>4. UnderWay(c)
      BY <2>2 DEF WaitInv
    <2> QED
      BY <1>1, <1>2, <2>1, <2>2, <2>3, <2>4 DEF UnderWay
  <1>5. ASSUME NEW d \in Client, UserCommand(d)
        PROVE  UnderWay(c)'
    <2>1. PICK t \in {INIT, TO_ALL, LIST}, to \in {"command", "await_init", "await_list"} :
              Command(d, t, to) /\ (to = "await_init" => t = INIT)
      BY <1>5 DEF UserCommand, CommandInit, CommandList, CommandToAll
    <2>2. PICK x : x = Msg(t, name[d], commands')
      OBVIOUS
    <2>3. /\ x \in Message /\ x.mtype = t /\ x.sender_name = name[d]
          /\ mq_send(SERVER_QUEUE, x) /\ pc' = [pc EXCEPT ![d] = to] /\ UNCHANGED srv
      <3>1. commands' \in 0 .. MaxCommands
        BY <2>1 DEF Command, Inv, TypeOK, MqChatAssumption
      <3>2. x \in Message /\ x.mtype = t /\ x.sender_name = name[d]
        BY <1>2, <2>2, <3>1, MessageType
      <3> QED
        BY <2>1, <2>2, <3>2 DEF Command, mq_send, serverVars
    <2>4. \A p \in Queue : \A m : Holds(p, m)' <=> Holds(p, m) \/ (p = SERVER_QUEUE /\ m = x)
      BY <1>2, <2>3, SendEffect DEF Inv
    <2>5. CASE c = d
      BY <1>1, <1>2, <2>1, <2>3, <2>4, <2>5 DEF UnderWay
    <2>6. CASE c # d
      <3>1. UnderWay(c)
        BY <1>2, <2>3, <2>6 DEF WaitInv
      <3> QED
        BY <1>1, <1>2, <2>3, <2>4, <3>1 DEF UnderWay
    <2> QED
      BY <2>5, <2>6
  <1>6. CASE UNCHANGED vars
    BY <1>6 DEF vars, serverVars, clientVars, WaitInv, UnderWay, Holds
  <1> QED
    BY <1>3, <1>4, <1>5, <1>6 DEF Next

\* Whoever waits for the answer to INIT, under a name of its own, waits for the
\* server only: its request is never lost (client.c 49-50, server.c 107-126).
THEOREM InitAlwaysUnderWay == Spec => []InitUnderWay
  <1>1. Init => WaitInv
    BY DEF Init, WaitInv
  <1>2. Inv /\ WaitInv /\ [Next]_vars => WaitInv'
    BY WaitKept, MqChatAssumption, QueueSizeAssumption
  <1>3. Inv /\ WaitInv => InitUnderWay
    BY WaitIsUnderWay DEF Inv
  <1> QED
    BY <1>1, <1>2, <1>3, InvHolds, PTL DEF Spec

-----------------------------------------------------------------------------
(* The conversation *)

Got(s) == srv.at = "to_all" /\ s < srv.i

\* The lines that are given to the server wait there in the order in which they
\* were typed, and the one that is handed out comes before them.
ServerLines ==
    /\ InOrder(SERVER_QUEUE)
    /\ \A q \in Queue : \A m \in Lines(q) : m.line <= commands
    /\ srv.at = "answer" => srv.msg.mtype # TO_ALL
    /\ IF srv.at = "to_all"
       THEN /\ srv.msg.mtype = TO_ALL /\ srv.msg.line <= commands
            /\ \A m \in Lines(SERVER_QUEUE) : srv.msg.line < m.line
       ELSE srv.i = 1

\* The lines that have been handed out come before both.
ClientLines ==
    \A n \in Name : \A m \in Lines(n) :
        /\ \A l \in Lines(SERVER_QUEUE) : m.line < l.line
        /\ srv.at = "to_all" => m = srv.msg \/ m.line < srv.msg.line

\* Of the line that is handed out, the first slots have got a copy, which their
\* clients may have read, and with it whatever came before.
SlotLines ==
    \A s \in Slot : Alone(s) =>
        /\ InOrder(client_que_desc[s])
        /\ srv.at = "to_all" =>
              IF s < srv.i
              THEN srv.msg \in Lines(client_que_desc[s]) \/ Lines(client_que_desc[s]) = {}
              ELSE srv.msg \notin Lines(client_que_desc[s])

SharedLines ==
    \A s, r \in Slot : Alone(s) /\ Alone(r) =>
        \A m \in Lines(client_que_desc[s]) \ Lines(client_que_desc[r]) :
            \/ Got(s) /\ ~Got(r) /\ m = srv.msg
            \/ \A l \in Lines(client_que_desc[r]) : m.line < l.line

LineInv == ServerLines /\ ClientLines /\ SlotLines /\ SharedLines

\* The lines of a queue are the messages to all it holds.
LEMMA LinesAre ==
    ASSUME TypeOK, NEW q \in Queue
    PROVE  /\ Lines(q) \subseteq Message /\ \A m \in Lines(q) : m.line \in Nat
           /\ \A m : m \in Lines(q) <=> Holds(q, m) /\ m.mtype = TO_ALL
           /\ OfType(queues[q], TO_ALL)
                  = {k \in 1 .. Len(queues[q]) : queues[q][k].mtype = TO_ALL}
  <1>1. queues[q] \in Seq(Message) /\ DOMAIN queues[q] = 1 .. Len(queues[q])
    BY DEF TypeOK
  <1>2. \A k \in 1 .. Len(queues[q]) : queues[q][k] \in Message
    BY <1>1, ElementOfSeq
  <1>3. Lines(q) \subseteq Message
    BY <1>1, <1>2 DEF Lines, OfType
  <1>4. \A m \in Message : m.line \in Nat
    BY DEF Message
  <1> QED
    BY <1>1, <1>3, <1>4 DEF Lines, OfType, Holds, Contains

\* What is sent comes after the lines that are there.
LEMMA LinesSent ==
    ASSUME TypeOK, TypeOK', QueueSizeAssumption, NEW q \in Queue, NEW x \in Message,
           mq_send(q, x)
    PROVE  /\ \A p \in Queue \ {q} : Lines(p)' = Lines(p) /\ (InOrder(p) => InOrder(p)')
           /\ Lines(q)' = Lines(q) \cup {m \in {x} : m.mtype = TO_ALL}
           /\ InOrder(q) /\ (x.mtype = TO_ALL => \A m \in Lines(q) : m.line < x.line)
                => InOrder(q)'
  <1> DEFINE n == Len(queues[q])
  <1>1. /\ \A p \in Queue : \A m : Holds(p, m)' <=> Holds(p, m) \/ (p = q /\ m = x)
        /\ \A p \in Queue \ {q} : queues'[p] = queues[p]
        /\ Len(queues'[q]) = n + 1
        /\ \A k \in 1 .. n : queues'[q][k] = queues[q][k]
        /\ queues'[q][n + 1] = x
    BY SendEffect
  <1>2. n \in Nat
    BY DEF TypeOK
  <1>3. /\ \A m : m \in Lines(q) <=> Holds(q, m) /\ m.mtype = TO_ALL
        /\ OfType(queues[q], TO_ALL) = {k \in 1 .. n : queues[q][k].mtype = TO_ALL}
    BY LinesAre
  <1>4. /\ \A m : m \in Lines(q)' <=> Holds(q, m)' /\ m.mtype = TO_ALL
        /\ OfType(queues[q], TO_ALL)'
              = {k \in 1 .. Len(queues'[q]) : queues'[q][k].mtype = TO_ALL}
    <2>1. DOMAIN queues'[q] = 1 .. Len(queues'[q])
      BY DEF TypeOK
    <2> QED
      BY <2>1 DEF Lines, OfType, Holds, Contains
  <1>5. \A p \in Queue \ {q} : Lines(p)' = Lines(p) /\ (InOrder(p) => InOrder(p)')
    BY <1>1 DEF Lines, InOrder, OfType
  <1>6. Lines(q)' = Lines(q) \cup {m \in {x} : m.mtype = TO_ALL}
    BY <1>1, <1>3, <1>4
  <1>7. ASSUME InOrder(q), x.mtype = TO_ALL => \A m \in Lines(q) : m.line < x.line
        PROVE  InOrder(q)'
    <2> SUFFICES ASSUME NEW j \in OfType(queues[q], TO_ALL)', NEW k \in OfType(queues[q], TO_ALL)',
                        j < k
                 PROVE  queues'[q][j].line < queues'[q][k].line
      BY DEF InOrder
    <2>1. /\ j \in 1 .. n + 1 /\ k \in 1 .. n + 1
          /\ queues'[q][j].mtype = TO_ALL /\ queues'[q][k].mtype = TO_ALL
      BY <1>1, <1>4
    <2>2. j \in 1 .. n /\ j \in OfType(queues[q], TO_ALL)
      BY <1>1, <1>2, <1>3, <2>1
    <2>3. CASE k \in 1 .. n
      <3>1. k \in OfType(queues[q], TO_ALL)
        BY <1>1, <1>3, <2>1, <2>3
      <3> QED
        BY <1>1, <1>7, <2>2, <2>3, <3>1 DEF InOrder
    <2>4. CASE k = n + 1
      <3>1. queues[q][j] \in Lines(q)
        BY <2>2 DEF Lines
      <3> QED
        BY <1>1, <1>7, <2>1, <2>2, <2>4, <3>1
    <2> QED
      BY <1>2, <2>1, <2>3, <2>4
  <1> QED
    BY <1>5, <1>6, <1>7

\* A line that is received is the oldest.
LEMMA LinesReceived ==
    ASSUME TypeOK, TypeOK', NEW q \in Queue, mq_receive(q)
    PROVE  /\ \A p \in Queue \ {q} : Lines(p)' = Lines(p) /\ (InOrder(p) => InOrder(p)')
           /\ Lines(q)' \subseteq Lines(q) /\ Lines(q) \subseteq Lines(q)' \cup {First(q)}
           /\ First(q).mtype = TO_ALL => First(q) \in Lines(q)
           /\ First(q).mtype # TO_ALL => Lines(q)' = Lines(q)
           /\ InOrder(q) => InOrder(q)'
           /\ InOrder(q) /\ First(q).mtype = TO_ALL
                => \A m \in Lines(q)' : First(q).line < m.line
  <1> DEFINE n == Len(queues[q])
             old(k, i) == IF k < i THEN k ELSE k + 1
  <1>1. /\ \A p \in Queue : \A m : Holds(p, m)' => Holds(p, m)
        /\ \A p \in Queue : \A m : Holds(p, m) => Holds(p, m)' \/ (p = q /\ m = First(q))
        /\ \A p \in Queue \ {q} : queues'[p] = queues[p]
        /\ Holds(q, First(q)) /\ Len(queues'[q]) = n - 1
    BY ReceiveEffect
  <1>2. PICK i \in 1 .. n :
          /\ First(q) = queues[q][i]
          /\ \A k \in 1 .. n - 1 : queues'[q][k] = queues[q][old(k, i)]
          /\ \A k \in OfType(queues[q], First(q).mtype) : i <= k
    BY ReceiveEffect
  <1>3. n \in Nat
    BY DEF TypeOK
  <1>4. /\ \A m : m \in Lines(q) <=> Holds(q, m) /\ m.mtype = TO_ALL
        /\ OfType(queues[q], TO_ALL) = {k \in 1 .. n : queues[q][k].mtype = TO_ALL}
    BY LinesAre
  <1>5. /\ \A m : m \in Lines(q)' <=> Holds(q, m)' /\ m.mtype = TO_ALL
        /\ OfType(queues[q], TO_ALL)'
              = {k \in 1 .. n - 1 : queues'[q][k].mtype = TO_ALL}
    <2>1. DOMAIN queues'[q] = 1 .. Len(queues'[q])
      BY DEF TypeOK
    <2> QED
      BY <1>1, <2>1 DEF Lines, OfType, Holds, Contains
  <1>6. \A p \in Queue \ {q} : Lines(p)' = Lines(p) /\ (InOrder(p) => InOrder(p)')
    BY <1>1 DEF Lines, InOrder, OfType
  <1>7. /\ Lines(q)' \subseteq Lines(q) /\ Lines(q) \subseteq Lines(q)' \cup {First(q)}
        /\ First(q).mtype = TO_ALL => First(q) \in Lines(q)
        /\ First(q).mtype # TO_ALL => Lines(q)' = Lines(q)
    BY <1>1, <1>4, <1>5
  <1>8. ASSUME NEW k \in OfType(queues[q], TO_ALL)'
        PROVE  /\ k \in Nat /\ old(k, i) \in Nat /\ old(k, i) # i
               /\ old(k, i) \in OfType(queues[q], TO_ALL)
               /\ queues'[q][k] = queues[q][old(k, i)]
    <2>1. k \in 1 .. n - 1 /\ queues'[q][k].mtype = TO_ALL
      BY <1>5
    <2>2. old(k, i) \in 1 .. n /\ old(k, i) # i
      BY <1>3, <2>1
    <2> HIDE DEF old
    <2> QED
      BY <1>2, <1>4, <2>1, <2>2
  <1>9. ASSUME InOrder(q)
        PROVE  InOrder(q)'
    <2> SUFFICES ASSUME NEW j \in OfType(queues[q], TO_ALL)', NEW k \in OfType(queues[q], TO_ALL)',
                        j < k
                 PROVE  queues'[q][j].line < queues'[q][k].line
      BY DEF InOrder
    <2>1. j \in Nat /\ k \in Nat /\ old(j, i) < old(k, i)
      BY <1>3, <1>8
    <2> HIDE DEF old
    <2> QED
      BY <1>8, <1>9, <2>1 DEF InOrder
  <1>10. ASSUME InOrder(q), First(q).mtype = TO_ALL, NEW m \in Lines(q)'
         PROVE  First(q).line < m.line
    <2>1. PICK k \in OfType(queues[q], TO_ALL)' : queues'[q][k] = m
      BY DEF Lines
    <2>2. i \in OfType(queues[q], TO_ALL)
      BY <1>2, <1>4, <1>10
    <2>3. old(k, i) \in OfType(queues[q], TO_ALL) /\ m = queues[q][old(k, i)]
          /\ old(k, i) # i /\ old(k, i) \in Nat
      BY <1>8, <2>1
    <2> HIDE DEF old
    <2>4. i < old(k, i)
      BY <1>2, <1>3, <1>10, <2>3
    <2> QED
      BY <1>2, <1>10, <2>2, <2>3, <2>4 DEF InOrder
  <1> QED
    BY <1>6, <1>7, <1>9, <1>10

\* Slots whose queues are listed once have queues of their own.
LEMMA AloneType ==
    ASSUME MqChatAssumption, TypeOK, NEW s \in Slot, Alone(s)
    PROVE  /\ client_que_desc[s] \in Name /\ client_que_desc[s] \in Queue
           /\ client_que_desc[s] # SERVER_QUEUE
           /\ \A r \in Slot : client_que_desc[r] = client_que_desc[s] => r = s
  BY DEF TypeOK, Alone, SlotsOf, Queue, MqChatAssumption

\* A step that touches no line, and nothing of the line that is handed out.
LEMMA SameLines ==
    ASSUME MqChatAssumption, Inv, LineInv, TypeOK',
           \A q \in Queue : Lines(q)' = Lines(q) /\ (InOrder(q) => InOrder(q)'),
           \/ UNCHANGED srv
           \/ /\ srv.at # "to_all" /\ srv'.at # "to_all" /\ srv'.i = 1
              /\ srv'.at = "answer" => srv'.msg.mtype # TO_ALL,
           commands <= commands',
           \A s \in Slot : Alone(s)' =>
              \/ Alone(s) /\ client_que_desc'[s] = client_que_desc[s]
              \/ srv.at # "to_all" /\ Lines(client_que_desc'[s]) = {}
    PROVE  LineInv'
  <1> USE DEF Inv
  <1>1. /\ SERVER_QUEUE \in Queue /\ \A n \in Name : n \in Queue
        /\ commands \in Nat /\ commands' \in Nat
        /\ \A q \in Queue : \A m \in Lines(q) : m.line \in Nat
        /\ srv.msg.line \in Nat
    <2>1. commands \in Nat /\ commands' \in Nat /\ srv.msg.line \in Nat
      BY DEF TypeOK, Message, MqChatAssumption
    <2> QED
      BY <2>1, LinesAre DEF Queue
  <1>2. ServerLines'
    BY <1>1 DEF LineInv, ServerLines
  <1>3. ClientLines'
    BY <1>1 DEF LineInv, ClientLines
  <1>4. \A s \in Slot : Alone(s)' => client_que_desc'[s] \in Queue
    BY DEF Alone, TypeOK, Queue
  <1>5. ASSUME NEW q \in Queue, Lines(q) = {}
        PROVE  InOrder(q)'
    <2>1. \A k \in OfType(queues[q], TO_ALL)' : queues'[q][k] \in Lines(q)'
      BY DEF Lines
    <2> QED
      BY <1>5, <2>1 DEF InOrder
  <1>6. SlotLines'
    BY <1>1, <1>4, <1>5 DEF LineInv, SlotLines
  <1>7. SharedLines'
    BY <1>1, <1>4 DEF LineInv, SharedLines, Got
  <1> QED
    BY <1>2, <1>3, <1>6, <1>7 DEF LineInv

-----------------------------------------------------------------------------
(* The conversation, step by step *)

\* A request that is no line is taken up (server.c 107-126 and 166-181).
LEMMA AnswerLines ==
    ASSUME MqChatAssumption, Inv, LineInv, TypeOK', Admit \/ Refuse \/ HandleList
    PROVE  LineInv'
  <1>1. PICK t \in {INIT, LIST}, u \in {INIT, ERR, LIST} :
           Receive(t) /\ \E q : Answers(u, q)
    <2>1. CASE Admit \/ Refuse
      BY <2>1 DEF Admit, Refuse
    <2>2. CASE HandleList
      BY <2>2 DEF HandleList
    <2> QED
      BY <2>1, <2>2
  <1>2. SERVER_QUEUE \in Queue
    BY DEF Queue
  <1>3. \A p \in Queue : Lines(p)' = Lines(p) /\ (InOrder(p) => InOrder(p)')
    <2>1. mq_receive(SERVER_QUEUE) /\ First(SERVER_QUEUE).mtype # TO_ALL
      BY <1>1 DEF Receive, INIT, LIST, TO_ALL
    <2> QED
      BY <1>2, <2>1, LinesReceived DEF Inv
  <1>4. /\ srv.at # "to_all" /\ srv'.at # "to_all" /\ srv'.i = 1
        /\ srv'.at = "answer" => srv'.msg.mtype # TO_ALL
    BY <1>1 DEF Receive, Answers, Msg, Inv, TypeOK, LineInv, ServerLines, INIT, ERR, LIST,
        TO_ALL
  <1>5. commands' = commands /\ commands \in Nat
    BY DEF Admit, Refuse, HandleList, clientVars, Inv, TypeOK, MqChatAssumption
  <1>6. ASSUME NEW s \in Slot, Alone(s)'
        PROVE  \/ Alone(s) /\ client_que_desc'[s] = client_que_desc[s]
               \/ srv.at # "to_all" /\ Lines(client_que_desc'[s]) = {}
    <2>1. CASE UNCHANGED client_que_desc
      BY <1>6, <2>1 DEF Alone, SlotsOf
    <2>2. CASE Admit
      <3>1. Asker \in Name /\ Asker \in Queue /\ Asker # None
        BY <2>2, AskerType DEF Admit, INIT, LIST, MqChatAssumption
      <3>2. PICK f \in Slot : /\ client_que_desc[f] = None
                              /\ client_que_desc' = [client_que_desc EXCEPT ![f] = Asker]
        <4>1. FreeSlots \in SUBSET Nat /\ FreeSlots # {}
          BY <2>2 DEF Admit, FreeSlots, Slot, MqChatAssumption
        <4>2. Min(FreeSlots) \in FreeSlots
          BY <4>1, MinOfNat
        <4> QED
          BY <2>2, <4>2 DEF Admit, FreeSlots, Inv, SlotsAgree
      <3>3. client_que_desc \in [Slot -> Name \cup {None}]
        BY DEF Inv, TypeOK
      <3>4. CASE s = f
        <4>1. client_que_desc'[s] = Asker
          BY <3>2, <3>3, <3>4
        <4>2. SlotsOf(Asker) = {}
          <5> SUFFICES ASSUME NEW r \in SlotsOf(Asker)
                       PROVE  FALSE
            OBVIOUS
          <5>1. r \in Slot /\ client_que_desc[r] = Asker /\ r # f
            BY <3>1, <3>2 DEF SlotsOf
          <5>2. client_que_desc'[r] = Asker
            BY <3>2, <3>3, <5>1
          <5>3. r \in {s}
            BY <1>6, <4>1, <5>1, <5>2 DEF Alone, SlotsOf
          <5> QED
            BY <3>4, <5>1, <5>3
        <4>3. \A m \in Message : Holds(Asker, m) => m.mtype = ERR
          BY <3>1, <4>2 DEF Inv, OnlyListedGetMore
        <4>4. \A m \in Lines(Asker) : m \in Message /\ Holds(Asker, m) /\ m.mtype = TO_ALL
          BY <3>1, LinesAre DEF Inv
        <4>5. Lines(Asker) = {}
          BY <4>3, <4>4 DEF ERR, TO_ALL
        <4> QED
          BY <1>4, <4>1, <4>5
      <3>5. CASE s # f
        <4>1. client_que_desc'[s] = client_que_desc[s] /\ client_que_desc[s] # None
          BY <1>6, <3>2, <3>3, <3>5 DEF Alone
        <4>2. SlotsOf(client_que_desc[s]) = {s}
          <5>1. \A r \in Slot : client_que_desc[r] = client_que_desc[s]
                                    => client_que_desc'[r] = client_que_desc'[s]
            BY <3>2, <3>3, <4>1
          <5>2. SlotsOf(client_que_desc[s]) \subseteq {s}
            BY <1>6, <5>1 DEF Alone, SlotsOf
          <5> QED
            BY <5>2 DEF SlotsOf
        <4> QED
          BY <4>1, <4>2 DEF Alone
      <3> QED
        BY <3>4, <3>5
    <2> QED
      BY <2>1, <2>2 DEF Refuse, HandleList
  <1> QED
    BY <1>3, <1>4, <1>5, <1>6, SameLines

\* An answer is no line (server.c 116, 123 and 181).
LEMMA SendAnswerLines ==
    ASSUME MqChatAssumption, QueueSizeAssumption, Inv, LineInv, TypeOK', SendAnswer
    PROVE  LineInv'
  <1>1. /\ srv.at = "answer" /\ srv' = Waiting /\ UNCHANGED <<client_que_desc, commands>>
        /\ srv.msg.mtype # TO_ALL /\ srv.msg \in Message /\ srv.to \in Queue \cup {None}
    BY DEF SendAnswer, clientVars, LineInv, ServerLines, Inv, TypeOK
  <1>2. \A q \in Queue : Lines(q)' = Lines(q) /\ (InOrder(q) => InOrder(q)')
    <2>1. CASE UNCHANGED queues
      BY <2>1 DEF Lines, InOrder
    <2>2. CASE srv.to # None /\ mq_send(srv.to, srv.msg)
      BY <1>1, <2>2, LinesSent DEF Inv
    <2> QED
      BY <2>1, <2>2 DEF SendAnswer
  <1>3. \A s \in Slot : Alone(s)' => Alone(s) /\ client_que_desc'[s] = client_que_desc[s]
    BY <1>1 DEF Alone, SlotsOf
  <1>4. srv.at # "to_all" /\ srv'.at = "receive" /\ srv'.i = 1
    BY <1>1 DEF Waiting
  <1>5. commands <= commands'
    BY <1>1 DEF Inv, TypeOK, MqChatAssumption
  <1> QED
    BY <1>2, <1>3, <1>4, <1>5, SameLines

\* The oldest line in the server's queue is taken up (server.c 151-152).
LEMMA HandleToAllLines ==
    ASSUME MqChatAssumption, Inv, LineInv, TypeOK', HandleToAll
    PROVE  LineInv'
  <1> DEFINE x == First(SERVER_QUEUE)
  <1>1. /\ Receive(TO_ALL) /\ mq_receive(SERVER_QUEUE) /\ x.mtype = TO_ALL
        /\ srv.at = "receive" /\ srv'.at = "to_all" /\ srv'.msg = x /\ srv'.i = 1
        /\ UNCHANGED <<client_que_desc, commands>>
    BY DEF HandleToAll, Receive, clientVars, Inv, TypeOK, LineInv, ServerLines
  <1>2. SERVER_QUEUE \in Queue /\ \A n \in Name : n \in Queue /\ n # SERVER_QUEUE
    BY DEF Queue, MqChatAssumption
  <1>3. /\ \A q \in Queue \ {SERVER_QUEUE} :
              Lines(q)' = Lines(q) /\ (InOrder(q) => InOrder(q)')
        /\ Lines(SERVER_QUEUE)' \subseteq Lines(SERVER_QUEUE) /\ x \in Lines(SERVER_QUEUE)
        /\ InOrder(SERVER_QUEUE)' /\ \A m \in Lines(SERVER_QUEUE)' : x.line < m.line
    BY <1>1, <1>2, LinesReceived DEF Inv, LineInv, ServerLines
  <1>4. \A q \in Queue : \A m \in Lines(q) : m.line \in Nat
    BY LinesAre DEF Inv
  <1> HIDE DEF x
  <1>5. ServerLines'
    BY <1>1, <1>2, <1>3 DEF LineInv, ServerLines
  <1>6. \A n \in Name : \A m \in Lines(n) : m.line < x.line
    BY <1>3 DEF LineInv, ClientLines
  <1>7. ClientLines'
    BY <1>1, <1>2, <1>3, <1>6 DEF LineInv, ClientLines
  <1>8. \A s \in Slot : /\ Alone(s)' <=> Alone(s)
                        /\ client_que_desc'[s] = client_que_desc[s]
                        /\ Alone(s) => client_que_desc[s] \in Name
    BY <1>1, AloneType DEF Alone, SlotsOf, Inv
  <1>9. \A s \in Slot : ~(s < 1)
    BY DEF Slot, MqChatAssumption
  <1>10. SlotLines'
    <2> SUFFICES ASSUME NEW s \in Slot, Alone(s)
                 PROVE  /\ InOrder(client_que_desc[s])'
                        /\ x \notin Lines(client_que_desc[s])'
      BY <1>1, <1>8, <1>9 DEF SlotLines
    <2>1. InOrder(client_que_desc[s])
      BY DEF LineInv, SlotLines
    <2>2. PICK n \in Name : n = client_que_desc[s] /\ n = client_que_desc'[s]
      BY <1>8
    <2>3. Lines(n)' = Lines(n) /\ InOrder(n)'
      BY <1>2, <1>3, <2>1, <2>2
    <2>4. x \notin Lines(n)
      BY <1>2, <1>3, <1>4, <1>6
    <2> QED
      BY <2>2, <2>3, <2>4
  <1>11. SharedLines'
    BY <1>1, <1>2, <1>3, <1>8 DEF LineInv, SharedLines, Got
  <1> QED
    BY <1>5, <1>7, <1>10, <1>11 DEF LineInv

\* The line is handed to the next slot (server.c 152-157).
LEMMA SendToAllLines ==
    ASSUME MqChatAssumption, QueueSizeAssumption, Inv, LineInv, TypeOK', SendToAll
    PROVE  LineInv'
  <1> DEFINE i == srv.i
             x == srv.msg
             d == client_que_desc
             AtLast == i = MAX_NO_CLIENTS
  <1>1. /\ srv.at = "to_all" /\ x \in Message /\ x.mtype = TO_ALL /\ i \in Slot
        /\ UNCHANGED <<client_que_desc, commands>>
        /\ d \in [Slot -> Name \cup {None}] /\ x.line \in Nat
        /\ \A s \in Slot : s \in Nat /\ s <= MAX_NO_CLIENTS
    BY DEF SendToAll, clientVars, LineInv, ServerLines, Inv, TypeOK, Message, Slot,
        MqChatAssumption
  <1>2. /\ AtLast => srv'.at = "receive" /\ srv'.i = 1
        /\ ~AtLast => srv'.at = "to_all" /\ srv'.i = i + 1 /\ srv'.msg = x
    BY <1>1 DEF SendToAll, Waiting, Inv, TypeOK
  <1>3. /\ SERVER_QUEUE \in Queue /\ None \notin Queue
        /\ \A n \in Name : n \in Queue /\ n # SERVER_QUEUE
        /\ \A q \in Queue : \A m \in Lines(q) : m.line \in Nat
    BY LinesAre DEF Queue, MqChatAssumption, Inv
  <1>4. \A q \in Queue :
           Lines(q)' = IF q = d[i] THEN Lines(q) \cup {x} ELSE Lines(q)
    <2>1. CASE d[i] = None /\ UNCHANGED queues
      BY <1>3, <2>1 DEF Lines
    <2>2. CASE d[i] # None /\ mq_send(d[i], x)
      BY <1>1, <1>3, <2>2, LinesSent DEF Inv
    <2> QED
      BY <2>1, <2>2 DEF SendToAll
  <1>5. \A q \in Queue : InOrder(q) /\ (q = d[i] => x \notin Lines(q)) => InOrder(q)'
    <2> SUFFICES ASSUME NEW q \in Queue, InOrder(q), q = d[i] => x \notin Lines(q)
                 PROVE  InOrder(q)'
      OBVIOUS
    <2>1. CASE UNCHANGED queues
      BY <2>1 DEF InOrder
    <2>2. CASE d[i] # None /\ mq_send(d[i], x) /\ q # d[i]
      BY <1>1, <1>3, <2>2, LinesSent DEF Inv
    <2>3. CASE d[i] # None /\ mq_send(d[i], x) /\ q = d[i]
      <3>1. q \in Name
        BY <1>1, <2>3
      <3>2. \A m \in Lines(q) : m.line < x.line
        BY <1>1, <2>3, <3>1 DEF LineInv, ClientLines
      <3> QED
        BY <1>1, <2>3, <3>2, LinesSent DEF Inv
    <2> QED
      BY <2>1, <2>2, <2>3 DEF SendToAll
  <1>6. \A s \in Slot : /\ Alone(s)' <=> Alone(s)
                        /\ d'[s] = d[s]
                        /\ Alone(s) => d[s] \in Name /\ (d[s] = d[i] => s = i)
    BY <1>1, AloneType DEF Alone, SlotsOf, Inv
  <1> HIDE DEF i, x, d, AtLast
  <1>7. ServerLines'
    <2>1. d[i] # SERVER_QUEUE
      BY <1>1, <1>3
    <2>2. Lines(SERVER_QUEUE)' = Lines(SERVER_QUEUE) /\ InOrder(SERVER_QUEUE)'
      BY <1>3, <1>4, <1>5, <2>1 DEF LineInv, ServerLines
    <2>3. \A q \in Queue : \A m \in Lines(q)' : m.line <= commands'
      BY <1>1, <1>4 DEF LineInv, ServerLines, x
    <2> QED
      BY <1>1, <1>2, <2>2, <2>3 DEF LineInv, ServerLines, x
  <1>8. ClientLines'
    <2>1. Lines(SERVER_QUEUE)' = Lines(SERVER_QUEUE)
      BY <1>1, <1>3, <1>4
    <2>2. \A n \in Name : \A m \in Lines(n)' : m \in Lines(n) \/ m = x
      BY <1>3, <1>4
    <2>3. \A m \in Lines(SERVER_QUEUE) : x.line < m.line
      BY <1>1 DEF LineInv, ServerLines, x
    <2>4. srv'.at = "to_all" => srv'.msg = x
      BY <1>2
    <2> QED
      BY <1>1, <2>1, <2>2, <2>3, <2>4 DEF LineInv, ClientLines, x
  <1>9. SlotLines'
    <2> SUFFICES ASSUME NEW s \in Slot, Alone(s)
                 PROVE  /\ InOrder(d[s])'
                        /\ srv'.at = "to_all" =>
                             IF s < srv'.i THEN x \in Lines(d[s])' \/ Lines(d[s])' = {}
                                           ELSE x \notin Lines(d[s])'
      BY <1>2, <1>6 DEF SlotLines, d
    <2>1. PICK n \in Name : n = d[s] /\ n = d'[s] /\ n \in Queue
      BY <1>3, <1>6
    <2>2. /\ InOrder(n)
          /\ IF s < i THEN x \in Lines(n) \/ Lines(n) = {} ELSE x \notin Lines(n)
      BY <1>1, <2>1 DEF LineInv, SlotLines, d, i, x
    <2>3. CASE s = i
      <3>1. ~(s < i) /\ n = d[i]
        <4>1. n = d[i]
          BY <2>1, <2>3, Zenon
        <4>2. i \in Nat
          BY <1>1
        <4>3. ~(i < i)
          BY <4>2
        <4> QED
          BY <2>3, <4>1, <4>3, Zenon
      <3>2. x \notin Lines(n) /\ x \in Lines(n)'
        BY <1>4, <2>1, <2>2, <3>1
      <3>3. InOrder(n)'
        BY <1>5, <2>1, <2>2, <3>2
      <3>4. ~AtLast => s < srv'.i
        BY <1>1, <1>2, <2>3
      <3> QED
        BY <1>2, <2>1, <3>2, <3>3, <3>4
    <2>4. CASE s # i
      <3>1. n # d[i]
        BY <1>6, <2>1, <2>4
      <3>2. Lines(n)' = Lines(n) /\ InOrder(n)'
        BY <1>4, <1>5, <2>1, <2>2, <3>1
      <3>3. ~AtLast => (s < srv'.i <=> s < i)
        BY <1>1, <1>2, <2>4
      <3> QED
        BY <1>2, <2>1, <2>2, <3>2, <3>3
    <2> QED
      BY <2>3, <2>4
  <1>10. SharedLines'
    <2> SUFFICES ASSUME NEW s \in Slot, NEW r \in Slot, Alone(s), Alone(r),
                        NEW m \in Lines(d[s])', m \notin Lines(d[r])'
                 PROVE  \/ srv'.at = "to_all" /\ s < srv'.i /\ ~(r < srv'.i) /\ m = x
                        \/ \A l \in Lines(d[r])' : m.line < l.line
      BY <1>2, <1>6 DEF SharedLines, Got, d
    <2>1. PICK p \in Name : p = d[s] /\ p = d'[s] /\ p \in Queue
      BY <1>3, <1>6
    <2>2. PICK q \in Name : q = d[r] /\ q = d'[r] /\ q \in Queue
      BY <1>3, <1>6
    <2>3. s # r /\ m \in Lines(p)' /\ m \notin Lines(q)' /\ m \notin Lines(q)
      BY <1>4, <2>1, <2>2
    <2>4. /\ Lines(p)' = IF s = i THEN Lines(p) \cup {x} ELSE Lines(p)
          /\ Lines(q)' = IF r = i THEN Lines(q) \cup {x} ELSE Lines(q)
      BY <1>4, <1>6, <2>1, <2>2
    <2>5. m \in Lines(p) => \/ s < i /\ ~(r < i) /\ m = x
                            \/ \A l \in Lines(q) : m.line < l.line
      BY <2>1, <2>2, <2>3 DEF LineInv, SharedLines, Got, i, x, d
    <2>6. CASE r = i
      <3>1. m # x /\ m \in Lines(p)
        BY <2>3, <2>4, <2>6
      <3>2. m.line < x.line
        BY <1>1, <3>1 DEF LineInv, ClientLines, x
      <3> QED
        BY <2>2, <2>4, <2>5, <2>6, <3>1, <3>2
    <2>7. CASE r # i /\ m # x
      BY <2>2, <2>3, <2>4, <2>5, <2>7
    <2>8. CASE r # i /\ m = x /\ r < i
      <3>1. Lines(q) = {}
        BY <1>1, <2>2, <2>3, <2>8 DEF LineInv, SlotLines, i, x, d
      <3> QED
        BY <2>2, <2>4, <2>8, <3>1
    <2>9. CASE r # i /\ m = x /\ ~(r < i) /\ s <= i
      BY <1>1, <1>2, <2>9 DEF AtLast
    <2>10. CASE r # i /\ m = x /\ ~(r < i) /\ ~(s <= i)
      <3>1. s # i
        BY <1>1, <2>10
      <3>2. m \in Lines(p) /\ ~(s < i)
        BY <1>1, <2>3, <2>4, <2>10, <3>1
      <3> QED
        BY <2>2, <2>4, <2>5, <2>10, <3>2
    <2> QED
      BY <2>6, <2>7, <2>8, <2>9, <2>10
  <1> QED
    BY <1>7, <1>8, <1>9, <1>10 DEF LineInv

\* A command goes behind whatever was typed before (client.c 41-80).
LEMMA CommandLines ==
    ASSUME MqChatAssumption, QueueSizeAssumption, Inv, LineInv, TypeOK', NEW c \in Client,
           UserCommand(c)
    PROVE  LineInv'
  <1>1. PICK t \in {INIT, TO_ALL, LIST}, to \in {"command", "await_init", "await_list"} :
            Command(c, t, to)
    BY DEF UserCommand, CommandInit, CommandList, CommandToAll
  <1>2. PICK x : x = Msg(t, name[c], commands')
    OBVIOUS
  <1>3. /\ commands \in Nat /\ commands' = commands + 1 /\ commands' \in 0 .. MaxCommands
        /\ mq_send(SERVER_QUEUE, x) /\ UNCHANGED <<client_que_desc, srv>>
        /\ x \in Message /\ x.mtype = t /\ x.line = commands + 1
    <2>1. /\ commands \in Nat /\ commands' = commands + 1 /\ commands' \in 0 .. MaxCommands
          /\ name[c] \in Queue
      BY <1>1 DEF Command, Inv, TypeOK, MqChatAssumption, Queue
    <2> QED
      BY <1>1, <1>2, <2>1, MessageType DEF Command, mq_send, serverVars, Msg
  <1>4. /\ SERVER_QUEUE \in Queue /\ \A n \in Name : n \in Queue /\ n # SERVER_QUEUE
        /\ \A q \in Queue : \A m \in Lines(q) : m.line \in Nat /\ m.line <= commands
        /\ srv.msg.line \in Nat
    <2>1. srv.msg.line \in Nat
      BY DEF Inv, TypeOK, Message
    <2>2. SERVER_QUEUE \in Queue /\ \A n \in Name : n \in Queue /\ n # SERVER_QUEUE
      BY DEF Queue, MqChatAssumption
    <2> QED
      BY <2>1, <2>2, LinesAre DEF Inv, LineInv, ServerLines
  <1>5. /\ \A q \in Queue \ {SERVER_QUEUE} :
              Lines(q)' = Lines(q) /\ (InOrder(q) => InOrder(q)')
        /\ Lines(SERVER_QUEUE)' = Lines(SERVER_QUEUE) \cup {m \in {x} : m.mtype = TO_ALL}
        /\ InOrder(SERVER_QUEUE)'
    <2>1. \A m \in Lines(SERVER_QUEUE) : m.line < x.line
      BY <1>3, <1>4
    <2>2. InOrder(SERVER_QUEUE)
      BY DEF LineInv, ServerLines
    <2> QED
      BY <1>3, <1>4, <2>1, <2>2, LinesSent DEF Inv
  <1>6. ServerLines'
    <2>1. \A q \in Queue : \A m \in Lines(q)' : m.line <= commands'
      BY <1>3, <1>4, <1>5
    <2> QED
      BY <1>3, <1>4, <1>5, <2>1 DEF LineInv, ServerLines
  <1>7. ClientLines'
    BY <1>3, <1>4, <1>5 DEF LineInv, ClientLines
  <1>8. \A s \in Slot : /\ Alone(s)' <=> Alone(s)
                        /\ client_que_desc'[s] = client_que_desc[s]
                        /\ Alone(s) => client_que_desc[s] \in Name
    BY <1>3, AloneType DEF Alone, SlotsOf, Inv
  <1>9. SlotLines'
    BY <1>3, <1>4, <1>5, <1>8 DEF LineInv, SlotLines
  <1>10. SharedLines'
    BY <1>3, <1>4, <1>5, <1>8 DEF LineInv, SharedLines, Got
  <1> QED
    BY <1>6, <1>7, <1>9, <1>10 DEF LineInv

\* A client reads the oldest line of its queue (client.c 50-52 and 60).
LEMMA ClientReads ==
    ASSUME MqChatAssumption, Inv, LineInv, TypeOK', NEW c \in Client, ClientStep(c)
    PROVE  LineInv'
  <1> DEFINE x == srv.msg
  <1>1. /\ mq_receive(name[c]) /\ UNCHANGED <<client_que_desc, srv, commands>>
        /\ name[c] \in Name /\ x.line \in Nat
    BY DEF ClientStep, AwaitInit, AwaitList, serverVars, Inv, TypeOK, Message
  <1>2. PICK n : n = name[c] /\ n \in Name
    BY <1>1
  <1>3. /\ SERVER_QUEUE \in Queue /\ n \in Queue /\ n # SERVER_QUEUE
        /\ \A p \in Name : p \in Queue /\ p # SERVER_QUEUE
        /\ \A q \in Queue : \A m \in Lines(q) : m.line \in Nat
    BY <1>2, LinesAre DEF Queue, MqChatAssumption, Inv
  <1>4. /\ \A q \in Queue \ {n} : Lines(q)' = Lines(q) /\ (InOrder(q) => InOrder(q)')
        /\ Lines(n)' \subseteq Lines(n) /\ Lines(n) \subseteq Lines(n)' \cup {First(n)}
        /\ InOrder(n) => InOrder(n)'
        /\ InOrder(n) /\ First(n) \in Lines(n) => \A m \in Lines(n)' : First(n).line < m.line
    <2>1. mq_receive(n)
      BY <1>1, <1>2 DEF mq_receive
    <2>2. First(n) \in Lines(n) => First(n).mtype = TO_ALL
      BY <1>3, LinesAre DEF Inv
    <2> QED
      BY <1>3, <2>1, <2>2, LinesReceived DEF Inv
  <1>5. ServerLines'
    BY <1>1, <1>3, <1>4 DEF LineInv, ServerLines
  <1>6. ClientLines'
    BY <1>1, <1>3, <1>4 DEF LineInv, ClientLines
  <1>7. \A s \in Slot : /\ Alone(s)' <=> Alone(s)
                        /\ client_que_desc'[s] = client_que_desc[s]
                        /\ Alone(s) => client_que_desc[s] \in Name
    BY <1>1, AloneType DEF Alone, SlotsOf, Inv
  <1>8. SlotLines'
    <2> SUFFICES ASSUME NEW s \in Slot, Alone(s), NEW p \in Name, p = client_que_desc[s]
                 PROVE  /\ InOrder(p)'
                        /\ srv.at = "to_all" =>
                             IF s < srv.i THEN x \in Lines(p)' \/ Lines(p)' = {}
                                          ELSE x \notin Lines(p)'
      BY <1>1, <1>7 DEF SlotLines
    <2>1. /\ InOrder(p)
          /\ srv.at = "to_all" => IF s < srv.i THEN x \in Lines(p) \/ Lines(p) = {}
                                               ELSE x \notin Lines(p)
      BY DEF LineInv, SlotLines
    <2>2. InOrder(p)' /\ Lines(p)' \subseteq Lines(p)
      BY <1>3, <1>4, <2>1
    <2>3. ASSUME srv.at = "to_all", x \in Lines(p), x \notin Lines(p)'
          PROVE  Lines(p)' = {}
      <3>1. p = n /\ x = First(n)
        BY <1>3, <1>4, <2>3
      <3>2. \A m \in Lines(p)' : x.line < m.line
        BY <1>4, <2>1, <2>3, <3>1
      <3>3. \A m \in Lines(p) : m = x \/ m.line < x.line
        BY <2>3 DEF LineInv, ClientLines
      <3> QED
        BY <1>1, <1>3, <2>2, <3>2, <3>3
    <2> QED
      BY <2>1, <2>2, <2>3
  <1>9. SharedLines'
    <2> SUFFICES ASSUME NEW s \in Slot, NEW r \in Slot, Alone(s), Alone(r),
                        NEW p \in Name, p = client_que_desc[s],
                        NEW q \in Name, q = client_que_desc[r],
                        NEW m \in Lines(p)', m \notin Lines(q)'
                 PROVE  \/ Got(s) /\ ~Got(r) /\ m = x
                        \/ \A l \in Lines(q)' : m.line < l.line
      BY <1>1, <1>7 DEF SharedLines, Got
    <2>1. m \in Lines(p) /\ Lines(q)' \subseteq Lines(q)
      BY <1>3, <1>4
    <2>2. CASE m \notin Lines(q)
      BY <2>1, <2>2 DEF LineInv, SharedLines
    <2>3. CASE m \in Lines(q)
      <3>1. q = n /\ m = First(n)
        BY <1>3, <1>4, <2>3
      <3>2. InOrder(q)
        BY DEF LineInv, SlotLines
      <3> QED
        BY <1>4, <2>3, <3>1, <3>2
    <2> QED
      BY <2>2, <2>3
  <1> QED
    BY <1>5, <1>6, <1>8, <1>9 DEF LineInv

\* Everybody reads the same conversation, in the order in which it was typed,
\* though each at its own pace (server.c 151-158, client.c 50 and 60).
THEOREM SameConversationForAll == Spec => []SameConversation
  <1> USE MqChatAssumption, QueueSizeAssumption
  <1>1. Init => LineInv
    <2> SUFFICES ASSUME Init
                 PROVE  LineInv
      OBVIOUS
    <2>1. \A q \in Queue : Lines(q) = {} /\ InOrder(q)
      BY DEF Init, Lines, InOrder, OfType
    <2>2. \A s \in Slot : ~Alone(s)
      BY DEF Init, Alone
    <2>3. srv.at = "receive" /\ srv.i = 1 /\ SERVER_QUEUE \in Queue
          /\ \A n \in Name : n \in Queue
      BY DEF Init, Waiting, Queue
    <2> QED
      BY <2>1, <2>2, <2>3 DEF LineInv, ServerLines, ClientLines, SlotLines, SharedLines
  <1>2. Inv /\ Inv' /\ LineInv /\ [Next]_vars => LineInv'
    <2> SUFFICES ASSUME Inv, TypeOK', LineInv, [Next]_vars
                 PROVE  LineInv'
      BY DEF Inv
    <2>1. CASE ServerStep
      BY <2>1, AnswerLines, SendAnswerLines, HandleToAllLines, SendToAllLines DEF ServerStep
    <2>2. CASE \E c \in Client : ClientStep(c) \/ UserCommand(c)
      BY <2>2, ClientReads, CommandLines
    <2>3. CASE UNCHANGED vars
      <3>1. /\ UNCHANGED <<client_que_desc, srv, commands>>
            /\ \A q : Lines(q)' = Lines(q) /\ InOrder(q)' = InOrder(q)
            /\ \A s : Alone(s)' = Alone(s) /\ Got(s)' = Got(s)
        BY <2>3 DEF vars, serverVars, clientVars, Lines, InOrder, Alone, SlotsOf, Got
      <3>2. ServerLines' /\ ClientLines'
        BY <3>1 DEF LineInv, ServerLines, ClientLines
      <3>3. SlotLines' /\ SharedLines'
        BY <3>1 DEF LineInv, SlotLines, SharedLines
      <3> QED
        BY <3>2, <3>3 DEF LineInv
    <2> QED
      BY <2>1, <2>2, <2>3 DEF Next
  <1>3. Inv /\ LineInv => SameConversation
    <2> SUFFICES ASSUME Inv, LineInv, NEW s \in Slot, NEW r \in Slot, Alone(s), Alone(r),
                        srv.at = "to_all" => (s < srv.i <=> r < srv.i)
                 PROVE  /\ InOrder(client_que_desc[s])
                        /\ \A m \in Lines(client_que_desc[s]) \ Lines(client_que_desc[r]) :
                              \A l \in Lines(client_que_desc[r]) : m.line < l.line
      BY DEF SameConversation
    <2> QED
      BY DEF LineInv, SlotLines, SharedLines, Got
  <1> QED
    BY <1>1, <1>2, <1>3, InvHolds, PTL DEF Spec
=============================================================================
