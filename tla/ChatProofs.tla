----------------------------- MODULE ChatProofs -----------------------------
(***************************************************************************)
(* Theorems about the chat over System V queues, for any number of clients,*)
(* slots and commands, queues of any length, and SIGINT wherever it may    *)
(* come.  The inductive invariant says where the requests of a client, the *)
(* answers to it and its leave can be, and what follows for its slot.      *)
(***************************************************************************)
EXTENDS Chat, SequenceTheorems, FiniteSetTheorems, WellFoundedInduction,
        TLAPS

-----------------------------------------------------------------------------
(* Queues of any length *)

\* A set of natural numbers has a least element.
LEMMA MinOfNat ==
    ASSUME NEW S \in SUBSET Nat, S # {}
    PROVE  Min(S) \in S /\ \A y \in S : Min(S) <= y
  <1>1. PICK x \in S : \A y \in S : ~ (<<y, x>> \in OpToRel(<, Nat))
    BY NatLessThanWellFounded, WFMin
  <1>2. \A y \in S : ~ (y < x)
    BY <1>1, Zenon DEF OpToRel
  <1>3. \A y \in S : x <= y
    BY <1>2
  <1> QED
    BY <1>3 DEF Min

\* The oldest message of a type that is in the queue.
LEMMA OldestIsThere ==
    ASSUME NEW T, NEW q \in Seq(T), NEW t, OfType(q, t) # {}
    PROVE  /\ OldestOf(q, t) \in 1 .. Len(q)
           /\ q[OldestOf(q, t)].mtype = t
           /\ \A k \in OfType(q, t) : OldestOf(q, t) <= k
  <1>1. OfType(q, t) \in SUBSET Nat /\ DOMAIN q = 1 .. Len(q)
    BY DEF OfType
  <1>2. OldestOf(q, t) \in OfType(q, t) /\ \A k \in OfType(q, t) : OldestOf(q, t) <= k
    BY <1>1, MinOfNat DEF OldestOf
  <1> QED
    BY <1>1, <1>2 DEF OfType

\* What msgrcv takes with a negative type: nothing in the queue is of a lower one.
LEMMA LowestIsThere ==
    ASSUME NEW T, NEW q \in Seq(T), q # <<>>,
           \A i \in 1 .. Len(q) : q[i].mtype \in Nat
    PROVE  /\ LowestType(q) \in 1 .. Len(q)
           /\ \A i \in 1 .. Len(q) : q[LowestType(q)].mtype <= q[i].mtype
  <1> DEFINE S == {q[i].mtype : i \in DOMAIN q}
  <1>1. DOMAIN q = 1 .. Len(q) /\ 1 \in DOMAIN q
    BY EmptySeq
  <1>2. S \in SUBSET Nat /\ S # {}
    BY <1>1
  <1>3. Min(S) \in S /\ \A y \in S : Min(S) <= y
    BY <1>2, MinOfNat
  <1>4. OfType(q, Min(S)) # {}
    BY <1>1, <1>3 DEF OfType
  <1>5. LowestType(q) \in 1 .. Len(q) /\ q[LowestType(q)].mtype = Min(S)
    BY <1>4, OldestIsThere DEF LowestType
  <1> QED
    BY <1>1, <1>3, <1>5

\* What is left in a queue was there before, one place further back perhaps.
LEMMA RemoveAtElements ==
    ASSUME NEW T, NEW q \in Seq(T), NEW i \in 1 .. Len(q)
    PROVE  /\ RemoveAt(q, i) \in Seq(T)
           /\ Len(RemoveAt(q, i)) = Len(q) - 1
           /\ \A k \in 1 .. Len(q) - 1 :
                 RemoveAt(q, i)[k] = q[IF k < i THEN k ELSE k + 1]
  <1> DEFINE a == SubSeq(q, 1, i - 1)
             b == SubSeq(q, i + 1, Len(q))
  <1>1. /\ a \in Seq(T) /\ Len(a) = i - 1
        /\ \A k \in 1 .. i - 1 : a[k] = q[k]
    BY SubSeqProperties
  <1>2. /\ b \in Seq(T) /\ Len(b) = Len(q) - i
        /\ \A k \in 1 .. Len(q) - i : b[k] = q[i + k]
    BY SubSeqProperties
  <1>3. RemoveAt(q, i) = a \o b
    BY DEF RemoveAt
  <1> HIDE DEF a, b
  <1>4. Len(q) \in Nat /\ i \in Nat /\ Len(a) \in Nat /\ Len(b) \in Nat
    BY <1>1, <1>2
  <1>5. /\ a \o b \in Seq(T) /\ Len(a \o b) = Len(a) + Len(b)
        /\ \A k \in 1 .. Len(a) + Len(b) :
              (a \o b)[k] = IF k <= Len(a) THEN a[k] ELSE b[k - Len(a)]
    BY <1>1, <1>2, ConcatProperties
  <1>6. Len(a) + Len(b) = Len(q) - 1
    BY <1>1, <1>2, <1>4
  <1>7. ASSUME NEW k \in 1 .. Len(q) - 1
        PROVE  (a \o b)[k] = q[IF k < i THEN k ELSE k + 1]
    <2>1. CASE k < i
      BY <1>1, <1>4, <1>5, <1>6, <2>1
    <2>2. CASE ~(k < i)
      <3>1. (a \o b)[k] = b[k - Len(a)]
        BY <1>1, <1>4, <1>5, <1>6, <2>2
      <3>2. k - Len(a) \in 1 .. Len(q) - i /\ i + (k - Len(a)) = k + 1
        BY <1>1, <1>4, <2>2
      <3> QED
        BY <1>2, <2>2, <3>1, <3>2
    <2> QED
      BY <2>1, <2>2
  <1> QED
    BY <1>3, <1>5, <1>6, <1>7

-----------------------------------------------------------------------------
(* How many messages of a set M are in a queue *)

Places(q, M) == {k \in 1 .. Len(q) : q[k] \in M}
HowMany(q, M) == Cardinality(Places(q, M))

LEMMA HowManyType ==
    ASSUME NEW T, NEW q \in Seq(T), NEW M
    PROVE  /\ IsFiniteSet(Places(q, M)) /\ HowMany(q, M) \in Nat
           /\ HowMany(q, M) = 0 <=> \A k \in 1 .. Len(q) : q[k] \notin M
  <1>1. IsFiniteSet(1 .. Len(q))
    BY FS_Interval
  <1>2. IsFiniteSet(Places(q, M))
    BY <1>1, FS_Subset DEF Places
  <1>3. Places(q, M) = {} <=> \A k \in 1 .. Len(q) : q[k] \notin M
    BY DEF Places
  <1> QED
    BY <1>2, <1>3, FS_CardinalityType, FS_EmptySet DEF HowMany

\* Of one message, there is one only.
LEMMA HowManyOne ==
    ASSUME NEW T, NEW q \in Seq(T), NEW M, HowMany(q, M) <= 1,
           NEW j \in 1 .. Len(q), NEW k \in 1 .. Len(q), q[j] \in M, q[k] \in M
    PROVE  j = k
  <1>1. IsFiniteSet(Places(q, M)) /\ j \in Places(q, M) /\ k \in Places(q, M)
    BY HowManyType DEF Places
  <1>2. HowMany(q, M) \in Nat /\ HowMany(q, M) # 0
    BY HowManyType
  <1>3. Cardinality(Places(q, M)) = 1
    BY <1>2 DEF HowMany
  <1>4. PICK x : Places(q, M) = {x}
    BY <1>1, <1>3, FS_Singleton
  <1> QED
    BY <1>1, <1>4

\* What msgsnd and mq_send do to a queue.
LEMMA AppendElements ==
    ASSUME NEW T, NEW q \in Seq(T), NEW x \in T
    PROVE  /\ Append(q, x) \in Seq(T) /\ Len(Append(q, x)) = Len(q) + 1
           /\ \A m : Contains(Append(q, x), m) <=> Contains(q, m) \/ m = x
           /\ \A M : HowMany(Append(q, x), M)
                        = HowMany(q, M) + (IF x \in M THEN 1 ELSE 0)
  <1> DEFINE a == Append(q, x)
             n == Len(q)
  <1>1. /\ a \in Seq(T) /\ Len(a) = n + 1 /\ n \in Nat
        /\ \A k \in 1 .. n : a[k] = q[k]
        /\ a[n + 1] = x
    BY AppendProperties
  <1> HIDE DEF a
  <1>2. ASSUME NEW m
        PROVE  Contains(a, m) <=> Contains(q, m) \/ m = x
    <2>1. \A k \in 1 .. n + 1 : k \in 1 .. n \/ k = n + 1
      BY <1>1
    <2>2. n + 1 \in 1 .. n + 1 /\ \A k \in 1 .. n : k \in 1 .. n + 1
      BY <1>1
    <2> QED
      BY <1>1, <2>1, <2>2 DEF Contains
  <1>3. ASSUME NEW M
        PROVE  HowMany(a, M) = HowMany(q, M) + (IF x \in M THEN 1 ELSE 0)
    <2>1. Places(a, M) = Places(q, M) \cup (IF x \in M THEN {n + 1} ELSE {})
      <3>1. \A k \in 1 .. n + 1 : k \in 1 .. n \/ k = n + 1
        BY <1>1
      <3>2. n + 1 \in 1 .. n + 1 /\ \A k \in 1 .. n : k \in 1 .. n + 1
        BY <1>1
      <3> QED
        BY <1>1, <3>1, <3>2 DEF Places
    <2>2. n + 1 \notin Places(q, M) /\ IsFiniteSet(Places(q, M))
      <3>1. n + 1 \notin 1 .. n
        BY <1>1
      <3> QED
        BY <3>1, HowManyType DEF Places
    <2>3. HowMany(q, M) \in Nat
      BY HowManyType
    <2>4. CASE x \in M
      <3>1. Places(a, M) = Places(q, M) \cup {n + 1}
        BY <2>1, <2>4
      <3> QED
        BY <2>2, <2>4, <3>1, FS_AddElement DEF HowMany
    <2>5. CASE x \notin M
      <3>1. Places(a, M) = Places(q, M)
        BY <2>1, <2>5
      <3> QED
        BY <2>3, <2>5, <3>1 DEF HowMany
    <2> QED
      BY <2>4, <2>5
  <1> QED
    BY <1>1, <1>2, <1>3 DEF a

\* What msgrcv and mq_receive do to a queue.
LEMMA RemoveAtCounts ==
    ASSUME NEW T, NEW q \in Seq(T), NEW i \in 1 .. Len(q)
    PROVE  /\ \A m : Contains(RemoveAt(q, i), m) => Contains(q, m)
           /\ \A m : Contains(q, m) => Contains(RemoveAt(q, i), m) \/ m = q[i]
           /\ \A M : HowMany(RemoveAt(q, i), M)
                        = HowMany(q, M) - (IF q[i] \in M THEN 1 ELSE 0)
  <1> DEFINE r == RemoveAt(q, i)
             n == Len(q)
             f(k) == IF k < i THEN k ELSE k + 1
  <1>1. /\ n \in Nat /\ i \in Nat /\ 1 <= i /\ i <= n
        /\ r \in Seq(T) /\ Len(r) = n - 1
        /\ \A k \in 1 .. n - 1 : r[k] = q[f(k)]
    <2>1. n \in Nat /\ i \in Nat /\ 1 <= i /\ i <= n
      OBVIOUS
    <2>2. /\ r \in Seq(T) /\ Len(r) = n - 1
          /\ \A k \in 1 .. n - 1 : r[k] = q[IF k < i THEN k ELSE k + 1]
      BY RemoveAtElements, Zenon
    <2> QED
      BY <2>1, <2>2
  <1>2. \A k \in 1 .. n - 1 : f(k) \in 1 .. n /\ f(k) # i
    BY <1>1
  <1>3. \A k \in 1 .. n : k # i => \E j \in 1 .. n - 1 : f(j) = k
    <2> SUFFICES ASSUME NEW k \in 1 .. n, k # i
                 PROVE  \E j \in 1 .. n - 1 : f(j) = k
      OBVIOUS
    <2>1. CASE k < i
      <3>1. k \in 1 .. n - 1 /\ f(k) = k
        BY <1>1, <2>1
      <3> QED
        BY <3>1
    <2>2. CASE k > i
      <3>1. k - 1 \in 1 .. n - 1 /\ f(k - 1) = k
        BY <1>1, <2>2
      <3> QED
        BY <3>1
    <2>3. k < i \/ k > i
      BY <1>1
    <2> HIDE DEF f, n
    <2> QED
      BY <2>1, <2>2, <2>3
  <1>4. \A j, k \in 1 .. n - 1 : f(j) = f(k) => j = k
    BY <1>1
  <1> HIDE DEF r, f, n
  <1>5. ASSUME NEW m, Contains(r, m)
        PROVE  Contains(q, m)
    BY <1>1, <1>2, <1>5 DEF Contains, n
  <1>6. ASSUME NEW m, Contains(q, m)
        PROVE  Contains(r, m) \/ m = q[i]
    BY <1>1, <1>3, <1>6 DEF Contains, n
  <1>7. ASSUME NEW M
        PROVE  HowMany(r, M) = HowMany(q, M) - (IF q[i] \in M THEN 1 ELSE 0)
    <2> DEFINE P == Places(r, M)
               Q == Places(q, M) \ {i}
               g == [k \in P |-> f(k)]
    <2>1. IsFiniteSet(P) /\ IsFiniteSet(Places(q, M))
      BY <1>1, HowManyType
    <2>2. g \in [P -> Q]
      BY <1>1, <1>2 DEF Places, n
    <2>3. \A j, k \in P : g[j] = g[k] => j = k
      BY <1>1, <1>4 DEF Places
    <2>4. \A k \in Q : \E j \in P : g[j] = k
      <3> SUFFICES ASSUME NEW k \in Q
                   PROVE  \E j \in P : g[j] = k
        OBVIOUS
      <3>1. k \in 1 .. n /\ k # i /\ q[k] \in M
        BY DEF Places, n
      <3>2. PICK j \in 1 .. n - 1 : f(j) = k
        BY <1>3, <3>1
      <3>3. j \in P
        BY <1>1, <3>1, <3>2 DEF Places
      <3> QED
        BY <3>2, <3>3
    <2> HIDE DEF g
    <2>5. ExistsBijection(P, Q)
      BY <2>2, <2>3, <2>4 DEF ExistsBijection, Bijection, Injection, Surjection,
                              IsInjective
    <2>6. Cardinality(Q) = Cardinality(P)
      BY <2>1, <2>5, FS_Bijection
    <2>7. i \in Places(q, M) <=> q[i] \in M
      BY DEF Places
    <2>8. HowMany(q, M) \in Nat
      BY HowManyType
    <2>9. Cardinality(Q) = IF i \in Places(q, M) THEN Cardinality(Places(q, M)) - 1
                                                ELSE Cardinality(Places(q, M))
      BY <2>1, FS_RemoveElement
    <2> HIDE DEF P, Q
    <2>10. CASE q[i] \in M
      BY <2>6, <2>7, <2>8, <2>9, <2>10 DEF HowMany, P
    <2>11. CASE q[i] \notin M
      BY <2>6, <2>7, <2>8, <2>9, <2>11 DEF HowMany, P
    <2> QED
      BY <2>10, <2>11
  <1> QED
    BY <1>5, <1>6, <1>7 DEF r

-----------------------------------------------------------------------------
(* What a client has under way *)

\* Whether a message is in the queue of p.
Held(p, m) == Contains(queues[p], m)

\* The messages of type t of a process, and how many of them are requests in the
\* server's queue, or answers in the queue of c.
MessagesOf(p, t) == {m \in Message : m.mtype = t /\ m.sender_id = p}
Requests(c, t) == HowMany(queues[Server], MessagesOf(c, t))
Answers(c, t) == HowMany(queues[c], MessagesOf(Server, t))

\* What a client's message may be about, INIT and STOP aside.
Talk == {LIST, TO_ALL, TO_ONE}

InHand(c, t) ==
    /\ srv.msg.mtype = t
    /\ \/ srv.at = "react" /\ srv.msg.sender_id = c
       \/ srv.at = "send" /\ srv.msg.send_to = c

\* c's request to be connected is on its way to the slots.
Asked(c) == \/ \E m \in Message : Held(Server, m) /\ m.mtype = INIT /\ m.sender_id = c
            \/ srv.at = "react" /\ srv.msg.mtype = INIT /\ srv.msg.sender_id = c

\* The news that c has a slot is on its way to c.
Accepted(c) ==
    \/ \E m \in Message : Held(c, m) /\ m.mtype = INIT /\ m.mtext = "connected"
    \/ /\ srv.at = "send" /\ srv.msg.mtype = INIT /\ srv.msg.mtext = "connected"
       /\ srv.msg.send_to = c

\* c's leave is on its way to the slots.
StopSent(c) == \/ \E m \in Message : Held(Server, m) /\ m.mtype = STOP /\ m.sender_id = c
               \/ srv.at = "react" /\ srv.msg.mtype = STOP /\ srv.msg.sender_id = c

\* Something c has to say to others is with the server.
Talks(c) ==
    \/ \E m \in Message : Held(Server, m) /\ m.mtype \in Talk /\ m.sender_id = c
    \/ /\ srv.at \in {"react", "send", "broadcast"}
       /\ srv.msg.mtype \in Talk /\ srv.msg.sender_id = c

\* c was told to stop, and nothing will connect it again.
Dismissed(c) == /\ ~ServerUp /\ ~connected[c]
                /\ \A m \in Message : Held(c, m) => m.mtype # INIT

-----------------------------------------------------------------------------
\* The clients that nobody has taken for the server: nobody but the server itself
\* sends to them.
Unnamed == Client \ named

\* Whose messages are where: STOP only comes when the server shuts down.
Contents ==
    /\ \A m \in Message : Held(Server, m) => m.sender_id \in Client
    /\ \A c \in Unnamed, m \in Message : Held(c, m) =>
        /\ m.mtype \in {INIT, LIST} => m.sender_id = Server
        /\ m.mtype = INIT => m.mtext \in {"connected", "refused"}
        /\ m.mtype = STOP => ~ServerUp

\* What the server has in hand.
AtHand ==
    /\ srv.at \in {"react", "broadcast"} => srv.msg.sender_id \in Client
    /\ srv.at = "broadcast" => srv.msg.mtype = TO_ALL
    /\ srv.at = "await_stop" => srv.i \in Slot
    /\ srv.at = "send" =>
        \/ /\ srv.msg.mtype \in {INIT, LIST}
           /\ srv.msg.sender_id = Server /\ srv.msg.send_to \in Client
           /\ srv.msg.mtype = INIT => srv.msg.mtext \in {"connected", "refused"}
        \/ srv.msg.mtype = TO_ONE /\ srv.msg.sender_id \in Client

\* Who has removed its queue is on its way out.
RemovedInv == /\ \A c \in Client : c \in removed => Leaving(c)
              /\ Server \in removed => srv.at = "closed"

\* Whom a client takes for the server, and what it is about to say.
HostInv ==
    \A c \in Client :
        /\ server_id[c] \in named \cup {Server, Nobody}
        /\ pc[c] \in {"send_init", "await_init"} => ~connected[c]
        /\ pc[c] \in {"send_list", "await_list", "send_all", "send_one"} => connected[c]

QueueInv == Contents /\ AtHand /\ RemovedInv /\ HostInv

\* How many requests of type t of c, with their answers, are under way.
Flow(c, t) == Requests(c, t) + Answers(c, t) + (IF InHand(c, t) THEN 1 ELSE 0)

\* Where c waits for the answer to its request of type t.
Wait(t) == IF t = INIT THEN "await_init" ELSE "await_list"

FlowOf(c, t) ==
    /\ Flow(c, t) \in {0, 1}
    /\ ServerUp /\ pc[c] = Wait(t) /\ server_id[c] = Server => Flow(c, t) = 1
    /\ ~Leaving(c) /\ pc[c] # Wait(t) => Flow(c, t) = 0
    /\ ~Leaving(c) /\ server_id[c] # Server => Flow(c, t) = 0

FlowInv ==
    \A c \in Unnamed : /\ \A t \in {INIT, LIST} : FlowOf(c, t)
                       /\ connected[c] => server_id[c] = Server

\* Every client has one slot at most, and who has one knows, or will.
OneSlotEach ==
    \A s, r \in Slot :
        client_list[s] = client_list[r] /\ client_list[s] \in Ordinary => s = r

SlotInv ==
    /\ OneSlotEach
    /\ \A c \in Ordinary :
        /\ ServerUp /\ Asked(c) => c \notin Listed
        /\ ServerUp /\ c \in Listed /\ ~Leaving(c) => connected[c] \/ Accepted(c)
        /\ ~Leaving(c) /\ (connected[c] \/ Accepted(c)) => c \in Listed

\* When the server comes to the STOP of a client, nothing else is left of it.
LastWord ==
    srv.at = "react" /\ srv.msg.mtype = STOP /\ srv.msg.sender_id \in Unnamed =>
        \A m \in Message : Held(Server, m) /\ m.sender_id = srv.msg.sender_id
                               => m.mtype = STOP

StopInv ==
    /\ \A c \in Unnamed : StopSent(c) => Leaving(c) \/ Dismissed(c)
    /\ \A c \in Unnamed : pc[c] = "ack" => Dismissed(c)
    /\ LastWord

\* Whose message the server has to pass on or to answer is still listed.
TalkInv == \A c \in Ordinary : ServerUp /\ Talks(c) => c \in Listed

Inv == TypeOK /\ QueueInv /\ FlowInv /\ SlotInv /\ StopInv /\ TalkInv

Assumptions == ChatAssumption /\ QueueSizeAssumption

-----------------------------------------------------------------------------
(* The queues *)

QueuesTyped == /\ DOMAIN queues = Process
               /\ \A p \in Process : /\ queues[p] \in Seq(Message)
                                     /\ Len(queues[p]) <= QUEUE_SIZE

\* Messages, field by field.
LEMMA MsgType ==
    ASSUME NEW t \in {INIT, TO_ALL, TO_ONE, LIST, STOP},
           NEW text \in {"text", "connected", "refused"},
           NEW from \in Process, NEW to \in Process \cup {Nobody}
    PROVE  /\ Msg(t, text, from, to) \in Message
           /\ Msg(t, text, from, to).mtype = t
           /\ Msg(t, text, from, to).mtext = text
           /\ Msg(t, text, from, to).sender_id = from
           /\ Msg(t, text, from, to).send_to = to
  BY DEF Msg, Message

\* The types of the messages are five numbers, STOP the highest.
LEMMA MessageFields ==
    ASSUME NEW m \in Message
    PROVE  /\ m.mtype \in {INIT, TO_ALL, TO_ONE, LIST, STOP} /\ m.mtype \in Nat
           /\ m.mtype <= STOP
           /\ m.mtext \in {"text", "connected", "refused"}
           /\ m.sender_id \in Process /\ m.send_to \in Process \cup {Nobody}
  BY DEF Message, INIT, TO_ALL, TO_ONE, LIST, STOP

\* What is in a queue is counted.
LEMMA FlowType ==
    ASSUME QueuesTyped, NEW c \in Client, NEW t
    PROVE  /\ Requests(c, t) \in Nat /\ Answers(c, t) \in Nat
           /\ \A m \in Message :
                Held(Server, m) /\ m.mtype = t /\ m.sender_id = c => Requests(c, t) >= 1
           /\ \A m \in Message :
                Held(c, m) /\ m.mtype = t /\ m.sender_id = Server => Answers(c, t) >= 1
           /\ \A l, m \in Message :
                /\ Held(c, l) /\ l.mtype = t /\ l.sender_id = Server
                /\ Held(c, m) /\ m.mtype = t /\ m.sender_id = Server
                /\ Answers(c, t) <= 1
                => l = m
  <1>1. /\ queues[Server] \in Seq(Message) /\ queues[c] \in Seq(Message)
        /\ Server \in Process /\ c \in Process
    BY DEF QueuesTyped, Process
  <1>2. Requests(c, t) \in Nat /\ Answers(c, t) \in Nat
    BY <1>1, HowManyType DEF Requests, Answers
  <1>3. ASSUME NEW m \in Message, Held(Server, m), m.mtype = t, m.sender_id = c
        PROVE  Requests(c, t) >= 1
    <2>1. Requests(c, t) # 0
      BY <1>1, <1>3, HowManyType DEF Requests, Held, Contains, MessagesOf
    <2> QED
      BY <1>2, <2>1
  <1>4. ASSUME NEW m \in Message, Held(c, m), m.mtype = t, m.sender_id = Server
        PROVE  Answers(c, t) >= 1
    <2>1. Answers(c, t) # 0
      BY <1>1, <1>4, HowManyType DEF Answers, Held, Contains, MessagesOf
    <2> QED
      BY <1>2, <2>1
  <1>5. ASSUME NEW l \in Message, NEW m \in Message,
               Held(c, l), l.mtype = t, l.sender_id = Server,
               Held(c, m), m.mtype = t, m.sender_id = Server, Answers(c, t) <= 1
        PROVE  l = m
    <2>1. PICK j \in 1 .. Len(queues[c]) : queues[c][j] = l
      BY <1>5 DEF Held, Contains
    <2>2. PICK k \in 1 .. Len(queues[c]) : queues[c][k] = m
      BY <1>5 DEF Held, Contains
    <2>3. l \in MessagesOf(Server, t) /\ m \in MessagesOf(Server, t)
      BY <1>5 DEF MessagesOf
    <2>4. j = k
      BY <1>1, <1>5, <2>1, <2>2, <2>3, HowManyOne DEF Answers
    <2> QED
      BY <2>1, <2>2, <2>4
  <1> QED
    BY <1>2, <1>3, <1>4, <1>5

LEMMA FlowTypeNext ==
    ASSUME QueuesTyped', NEW c \in Client, NEW t
    PROVE  Requests(c, t)' \in Nat /\ Answers(c, t)' \in Nat
  <1>1. queues'[Server] \in Seq(Message) /\ queues'[c] \in Seq(Message)
    BY DEF QueuesTyped, Process
  <1>2. /\ HowMany(queues'[Server], MessagesOf(c, t)) \in Nat
        /\ HowMany(queues'[c], MessagesOf(Server, t)) \in Nat
    BY <1>1, HowManyType
  <1> QED
    BY <1>2 DEF Requests, Answers

\* What is sent is in its queue, unless that was removed, and nothing else is new.
LEMMA SentEffect ==
    ASSUME Assumptions, QueuesTyped, NEW p \in Process \cup {Nobody}, NEW x \in Message, msgsnd(p, x)
    PROVE  /\ QueuesTyped'
           /\ \A q \in Process, m \in Message :
                Held(q, m)' <=> Held(q, m) \/ (~NoQueue(p) /\ q = p /\ m = x)
           /\ \A c \in Client : \A t :
                /\ Requests(c, t)' = Requests(c, t)
                      + (IF /\ ~NoQueue(p) /\ p = Server
                            /\ x.mtype = t /\ x.sender_id = c THEN 1 ELSE 0)
                /\ Answers(c, t)' = Answers(c, t)
                      + (IF /\ ~NoQueue(p) /\ p = c
                            /\ x.mtype = t /\ x.sender_id = Server THEN 1 ELSE 0)
  <1>1. CASE NoQueue(p) /\ UNCHANGED queues
    <2>1. \A c \in Client : \A t : Requests(c, t) \in Nat /\ Answers(c, t) \in Nat
      BY FlowType
    <2> QED
      BY <1>1, <2>1 DEF QueuesTyped, Held, Requests, Answers
  <1>2. CASE /\ ~NoQueue(p) /\ HasRoom(queues[p])
             /\ queues' = [queues EXCEPT ![p] = Append(@, x)]
    <2> DEFINE a == Append(queues[p], x)
    <2>1. /\ p \in Process /\ queues[p] \in Seq(Message) /\ Len(queues[p]) \in Nat
          /\ Len(queues[p]) < QUEUE_SIZE /\ QUEUE_SIZE \in Nat
      BY <1>2 DEF NoQueue, QueuesTyped, HasRoom, Assumptions, QueueSizeAssumption
    <2>2. /\ a \in Seq(Message)
          /\ Len(a) = Len(queues[p]) + 1
          /\ \A m : Contains(a, m) <=> Contains(queues[p], m) \/ m = x
          /\ \A K : HowMany(a, K)
                       = HowMany(queues[p], K) + (IF x \in K THEN 1 ELSE 0)
      BY <2>1, AppendElements
    <2>3. /\ DOMAIN queues' = Process
          /\ \A q \in Process :
                queues'[q] = IF q = p THEN a ELSE queues[q]
      BY <1>2 DEF QueuesTyped
    <2> HIDE DEF a
    <2>4. QueuesTyped'
      <3>1. \A q \in Process : /\ queues'[q] \in Seq(Message)
                               /\ Len(queues'[q]) <= QUEUE_SIZE
        BY <2>1, <2>2, <2>3 DEF QueuesTyped
      <3> QED
        BY <2>3, <3>1 DEF QueuesTyped
    <2>5. \A q \in Process, m \in Message :
                Held(q, m)' <=> Held(q, m) \/ (~NoQueue(p) /\ q = p /\ m = x)
      BY <1>2, <2>2, <2>3 DEF Held
    <2>6. ASSUME NEW c \in Client, NEW t
          PROVE  /\ Requests(c, t)' = Requests(c, t)
                      + (IF /\ ~NoQueue(p) /\ p = Server
                            /\ x.mtype = t /\ x.sender_id = c THEN 1 ELSE 0)
                 /\ Answers(c, t)' = Answers(c, t)
                      + (IF /\ ~NoQueue(p) /\ p = c
                            /\ x.mtype = t /\ x.sender_id = Server THEN 1 ELSE 0)
      <3>1. /\ x \in MessagesOf(c, t) <=> x.mtype = t /\ x.sender_id = c
            /\ x \in MessagesOf(Server, t) <=> x.mtype = t /\ x.sender_id = Server
        BY DEF MessagesOf
      <3>2. Server \in Process /\ c \in Process /\ c # Server
        BY DEF Process, Assumptions, ChatAssumption
      <3>3. Requests(c, t) \in Nat /\ Answers(c, t) \in Nat
        BY FlowType
      <3>4. Requests(c, t)' = HowMany(queues'[Server], MessagesOf(c, t))
        BY DEF Requests
      <3>5. Answers(c, t)' = HowMany(queues'[c], MessagesOf(Server, t))
        BY DEF Answers
      <3>6. /\ HowMany(a, MessagesOf(c, t)) = HowMany(queues[p], MessagesOf(c, t))
                 + (IF x \in MessagesOf(c, t) THEN 1 ELSE 0)
            /\ HowMany(a, MessagesOf(Server, t))
                 = HowMany(queues[p], MessagesOf(Server, t))
                     + (IF x \in MessagesOf(Server, t) THEN 1 ELSE 0)
        BY <2>2
      <3>7. Requests(c, t)' = Requests(c, t)
               + (IF p = Server /\ x \in MessagesOf(c, t) THEN 1 ELSE 0)
        BY <2>3, <3>2, <3>3, <3>4, <3>6 DEF Requests
      <3>8. Answers(c, t)' = Answers(c, t)
               + (IF p = c /\ x \in MessagesOf(Server, t) THEN 1 ELSE 0)
        BY <2>3, <3>2, <3>3, <3>5, <3>6 DEF Answers
      <3> QED
        BY <1>2, <3>1, <3>7, <3>8
    <2> QED
      BY <2>4, <2>5, <2>6
  <1> QED
    BY <1>1, <1>2 DEF msgsnd

\* What is taken is out of its queue, and nothing is new.
LEMMA TakenEffect ==
    ASSUME Assumptions, QueuesTyped, NEW p \in Process, NEW i \in 1 .. Len(queues[p]),
           msgrcv(p, i), NEW x, x = queues[p][i]
    PROVE  /\ QueuesTyped' /\ x \in Message /\ Held(p, x)
           /\ \A q \in Process, m \in Message :
                /\ Held(q, m)' => Held(q, m)
                /\ Held(q, m) => Held(q, m)' \/ (q = p /\ m = x)
           /\ \A c \in Client : \A t :
                /\ Requests(c, t)' = Requests(c, t)
                      - (IF p = Server /\ x.mtype = t /\ x.sender_id = c THEN 1 ELSE 0)
                /\ Answers(c, t)' = Answers(c, t)
                      - (IF p = c /\ x.mtype = t /\ x.sender_id = Server THEN 1 ELSE 0)
  <1>1. /\ queues[p] \in Seq(Message) /\ Len(queues[p]) \in Nat
        /\ Len(queues[p]) <= QUEUE_SIZE /\ x \in Message /\ Held(p, x)
    BY DEF QueuesTyped, Held, Contains
  <1>2. /\ RemoveAt(queues[p], i) \in Seq(Message)
        /\ Len(RemoveAt(queues[p], i)) = Len(queues[p]) - 1
    BY <1>1, RemoveAtElements
  <1>3. /\ \A m : Contains(RemoveAt(queues[p], i), m) => Contains(queues[p], m)
        /\ \A m : Contains(queues[p], m) => Contains(RemoveAt(queues[p], i), m) \/ m = x
        /\ \A K : HowMany(RemoveAt(queues[p], i), K)
                     = HowMany(queues[p], K) - (IF x \in K THEN 1 ELSE 0)
    BY <1>1, RemoveAtCounts
  <1>4. /\ DOMAIN queues' = Process
        /\ \A q \in Process :
              queues'[q] = IF q = p THEN RemoveAt(queues[p], i) ELSE queues[q]
    BY DEF QueuesTyped, msgrcv
  <1>5. QueuesTyped'
    BY <1>1, <1>2, <1>4 DEF QueuesTyped, Assumptions, QueueSizeAssumption
  <1>6. \A q \in Process, m \in Message :
            /\ Held(q, m)' => Held(q, m)
            /\ Held(q, m) => Held(q, m)' \/ (q = p /\ m = x)
    BY <1>3, <1>4 DEF Held
  <1>7. ASSUME NEW c \in Client, NEW t
        PROVE  /\ Requests(c, t)' = Requests(c, t)
                  - (IF p = Server /\ x.mtype = t /\ x.sender_id = c THEN 1 ELSE 0)
               /\ Answers(c, t)' = Answers(c, t)
                  - (IF p = c /\ x.mtype = t /\ x.sender_id = Server THEN 1 ELSE 0)
    <2>1. /\ x \in MessagesOf(c, t) <=> x.mtype = t /\ x.sender_id = c
          /\ x \in MessagesOf(Server, t) <=> x.mtype = t /\ x.sender_id = Server
      BY <1>1 DEF MessagesOf
    <2>2. Server \in Process /\ c \in Process /\ c # Server
      BY DEF Process, Assumptions, ChatAssumption
    <2>3. Requests(c, t) \in Nat /\ Answers(c, t) \in Nat
      BY FlowType
    <2>4. Requests(c, t)' = HowMany(queues'[Server], MessagesOf(c, t))
      BY DEF Requests
    <2>5. Answers(c, t)' = HowMany(queues'[c], MessagesOf(Server, t))
      BY DEF Answers
    <2>6. Requests(c, t)' = Requests(c, t)
             - (IF p = Server /\ x \in MessagesOf(c, t) THEN 1 ELSE 0)
      BY <1>3, <1>4, <2>2, <2>3, <2>4 DEF Requests
    <2>7. Answers(c, t)' = Answers(c, t)
             - (IF p = c /\ x \in MessagesOf(Server, t) THEN 1 ELSE 0)
      BY <1>3, <1>4, <2>2, <2>3, <2>5 DEF Answers
    <2> QED
      BY <2>1, <2>6, <2>7
  <1> QED
    BY <1>1, <1>5, <1>6, <1>7

\* A queue that is removed is empty.
LEMMA EmptiedEffect ==
    ASSUME Assumptions, QueuesTyped, NEW p \in Process,
           queues' = [queues EXCEPT ![p] = <<>>]
    PROVE  /\ QueuesTyped'
           /\ \A m \in Message : ~Held(p, m)'
           /\ \A q \in Process \ {p}, m \in Message : Held(q, m)' <=> Held(q, m)
           /\ \A c \in Client : \A t :
                /\ Requests(c, t)' = IF p = Server THEN 0 ELSE Requests(c, t)
                /\ Answers(c, t)' = IF p = c THEN 0 ELSE Answers(c, t)
  <1> DEFINE none == <<>>
  <1>1. none \in Seq(Message) /\ Len(none) = 0
    OBVIOUS
  <1>2. (\A m : ~Contains(none, m)) /\ (\A K : HowMany(none, K) = 0)
    <2>1. \A k \in 1 .. 0 : FALSE
      OBVIOUS
    <2> HIDE DEF none
    <2> QED
      BY <1>1, <2>1, HowManyType DEF Contains
  <1>3. /\ DOMAIN queues' = Process
        /\ \A q \in Process : queues'[q] = IF q = p THEN none ELSE queues[q]
    BY DEF QueuesTyped
  <1> HIDE DEF none
  <1>4. QueuesTyped'
    BY <1>1, <1>3 DEF QueuesTyped, Assumptions, QueueSizeAssumption
  <1>5. \A c \in Client : Server \in Process /\ c \in Process
    BY DEF Process
  <1> QED
    BY <1>2, <1>3, <1>4, <1>5 DEF Held, Requests, Answers

-----------------------------------------------------------------------------
(* The slots *)

ListType == client_list \in [Slot -> Client \cup {Free}]

\* Who is taken off the list had one slot, which is free now.
LEMMA UnlistEffect ==
    ASSUME Assumptions, ListType, NEW d \in Client, Unlist(d), named' = named
    PROVE  /\ ListType' /\ Ordinary' = Ordinary
           /\ OneSlotEach =>
                /\ OneSlotEach'
                /\ \A c \in Ordinary : c \in Listed' <=> c \in Listed /\ c # d
  <1> DEFINE mine == {s \in Slot : client_list[s] = d}
  <1>1. mine \in SUBSET Nat /\ Ordinary' = Ordinary /\ Free \notin Ordinary
    BY DEF Slot, Ordinary
  <1>2. CASE mine = {}
    BY <1>1, <1>2 DEF Unlist, ListType, OneSlotEach, Listed
  <1>3. CASE mine # {}
    <2> DEFINE k == Min(mine)
    <2>1. k \in mine
      BY <1>1, <1>3, MinOfNat
    <2>2. client_list' = [client_list EXCEPT ![k] = Free]
      BY <1>3 DEF Unlist
    <2> HIDE DEF k
    <2>3. k \in Slot /\ client_list[k] = d
      BY <2>1
    <2>4. /\ ListType'
          /\ \A s \in Slot : client_list'[s] = IF s = k THEN Free ELSE client_list[s]
      BY <2>2, <2>3 DEF ListType
    <2>5. ASSUME OneSlotEach
          PROVE  /\ OneSlotEach'
                 /\ \A c \in Ordinary : c \in Listed' <=> c \in Listed /\ c # d
      <3>1. d \in Ordinary => \A s \in Slot : s # k => client_list[s] # d
        BY <2>3, <2>5 DEF OneSlotEach
      <3>2. OneSlotEach'
        BY <1>1, <2>4, <2>5 DEF OneSlotEach
      <3>3. ASSUME NEW c \in Ordinary
            PROVE  c \in Listed' <=> c \in Listed /\ c # d
        <4>1. c # Free
          BY <1>1
        <4>2. c \in Listed <=> \E s \in Slot : client_list[s] = c
          BY <4>1 DEF Listed
        <4>3. c \in Listed' <=> \E s \in Slot : client_list'[s] = c
          BY <4>1 DEF Listed
        <4> QED
          BY <2>3, <2>4, <3>1, <4>1, <4>2, <4>3
      <3> QED
        BY <3>2, <3>3
    <2> QED
      BY <1>1, <2>4, <2>5
  <1> QED
    BY <1>2, <1>3

\* Who is put on the list takes one free slot, unless its id is that of a free one.
LEMMA EnlistEffect ==
    ASSUME Assumptions, ListType, NEW d \in Client, FreeSlots # {}, named' = named,
           client_list' = [client_list EXCEPT ![Min(FreeSlots)] = d]
    PROVE  /\ ListType' /\ Ordinary' = Ordinary
           /\ \A c \in Ordinary : c \in Listed' <=> c \in Listed \/ c = d
           /\ OneSlotEach /\ (d \in Ordinary => d \notin Listed) => OneSlotEach'
  <1> DEFINE k == Min(FreeSlots)
  <1>1. FreeSlots \in SUBSET Nat /\ Ordinary' = Ordinary /\ Free \notin Ordinary
    BY DEF FreeSlots, Slot, Ordinary
  <1>2. k \in FreeSlots
    BY <1>1, MinOfNat
  <1>3. client_list' = [client_list EXCEPT ![k] = d]
    OBVIOUS
  <1> HIDE DEF k
  <1>4. k \in Slot /\ client_list[k] = Free
    BY <1>2 DEF FreeSlots
  <1>5. /\ ListType'
        /\ \A s \in Slot : client_list'[s] = IF s = k THEN d ELSE client_list[s]
    BY <1>3, <1>4 DEF ListType
  <1>6. \A c \in Ordinary : c \in Listed' <=> c \in Listed \/ c = d
    <2> SUFFICES ASSUME NEW c \in Ordinary
                 PROVE  c \in Listed' <=> c \in Listed \/ c = d
      OBVIOUS
    <2>1. c # Free
      BY <1>1
    <2>2. c \in Listed <=> \E s \in Slot : client_list[s] = c
      BY <2>1 DEF Listed
    <2>3. c \in Listed' <=> \E s \in Slot : client_list'[s] = c
      BY <2>1 DEF Listed
    <2> QED
      BY <1>4, <1>5, <2>1, <2>2, <2>3
  <1>7. ASSUME OneSlotEach, d \in Ordinary => d \notin Listed
        PROVE  OneSlotEach'
    <2>1. d \in Ordinary => \A s \in Slot : client_list[s] # d
      BY <1>1, <1>7 DEF Listed
    <2> QED
      BY <1>1, <1>5, <1>7, <2>1 DEF OneSlotEach
  <1> QED
    BY <1>1, <1>5, <1>6, <1>7

-----------------------------------------------------------------------------
(* What the processes take out of their queues *)

\* The message that a process takes out of its queue by type.
LEMMA Taken ==
    ASSUME QueuesTyped, NEW p \in Process, NEW t, OfType(queues[p], t) # {}
    PROVE  /\ OldestOf(queues[p], t) \in 1 .. Len(queues[p])
           /\ queues[p][OldestOf(queues[p], t)].mtype = t
  BY OldestIsThere DEF QueuesTyped

\* The message that the server takes has the lowest type there is.
LEMMA TakenFirst ==
    ASSUME QueuesTyped, queues[Server] # <<>>
    PROVE  /\ LowestType(queues[Server]) \in 1 .. Len(queues[Server])
           /\ \A m \in Message : Held(Server, m) =>
                 queues[Server][LowestType(queues[Server])].mtype <= m.mtype
  <1>1. queues[Server] \in Seq(Message)
    BY DEF QueuesTyped, Process
  <1>2. \A i \in 1 .. Len(queues[Server]) : queues[Server][i].mtype \in Nat
    BY <1>1, MessageFields
  <1>3. /\ LowestType(queues[Server]) \in 1 .. Len(queues[Server])
        /\ \A i \in 1 .. Len(queues[Server]) :
              queues[Server][LowestType(queues[Server])].mtype <= queues[Server][i].mtype
    BY <1>1, <1>2, LowestIsThere
  <1> QED
    BY <1>3 DEF Held, Contains

-----------------------------------------------------------------------------
(* The type invariant *)

SrvType == [at : ServerLabel, msg : Message, i : 1 .. MAX_NO_CLIENTS + 1]

ClientsType ==
    /\ removed \subseteq Process
    /\ pc \in [Client -> ClientLabel]
    /\ connected \in [Client -> BOOLEAN]
    /\ server_id \in [Client -> Process \cup {Nobody}]
    /\ commands \in [Client -> Nat]
    /\ \A c \in Client : commands[c] <= MaxCommands[c]
    /\ named \subseteq Client

LEMMA TypeParts ==
    /\ TypeOK <=> QueuesTyped /\ ListType /\ srv \in SrvType /\ ClientsType
    /\ TypeOK' <=> (QueuesTyped /\ ListType /\ srv \in SrvType /\ ClientsType)'
  BY DEF TypeOK, QueuesTyped, ListType, SrvType, ClientsType

LEMMA IdleType ==
    ASSUME Assumptions
    PROVE  Idle.msg \in Message /\ Idle.i \in 1 .. MAX_NO_CLIENTS + 1 /\ Idle \in SrvType
  <1>1. Server \in Process
    BY DEF Process
  <1>2. Msg(STOP, "text", Server, Server) \in Message
    BY <1>1, MsgType
  <1> QED
    BY <1>2 DEF Idle, Assumptions, ChatAssumption, SrvType, ServerLabel

LEMMA InitType == ASSUME Assumptions, Init PROVE TypeOK
  <1>1. QueuesTyped
    <2> DEFINE none == <<>>
    <2>1. none \in Seq(Message) /\ Len(none) = 0
      OBVIOUS
    <2>2. queues = [p \in Process |-> none]
      BY DEF Init
    <2> HIDE DEF none
    <2> QED
      BY <2>1, <2>2 DEF QueuesTyped, Assumptions, QueueSizeAssumption
  <1>2. ListType
    BY DEF Init, ListType
  <1>3. ClientsType
    BY DEF Init, ClientsType, ClientLabel, Process, Assumptions, ChatAssumption
  <1>4. srv \in SrvType
    BY IdleType DEF Init
  <1> QED
    BY <1>1, <1>2, <1>3, <1>4, TypeParts

LEMMA ServerType ==
    ASSUME Assumptions, TypeOK, QueueInv, ServerStep \/ InterruptServer
    PROVE  TypeOK'
  <1>1. QueuesTyped /\ ListType /\ srv \in SrvType /\ ClientsType
    BY TypeParts
  <1>2. /\ Server \in Process /\ srv.at \in ServerLabel /\ srv.msg \in Message
        /\ srv.i \in 1 .. MAX_NO_CLIENTS + 1 /\ MAX_NO_CLIENTS \in Nat \ {0}
        /\ srv.i \in Slot => srv.i + 1 \in 1 .. MAX_NO_CLIENTS + 1
        /\ srv.msg.sender_id \in Process /\ srv.msg.send_to \in Process \cup {Nobody}
        /\ 1 \in 1 .. MAX_NO_CLIENTS + 1
    BY <1>1, MessageFields DEF SrvType, Process, Assumptions, ChatAssumption, Slot
  <1>3. Idle.msg \in Message /\ Idle.i \in 1 .. MAX_NO_CLIENTS + 1 /\ Idle \in SrvType
    BY IdleType
  <1>5. UNCHANGED clientVars /\ named' = named /\ removed' \in {removed, removed \cup {Server}}
    BY DEF ServerStep, Receive, Admit, Refuse, ReactStop, ReactList, ReactToOne,
           ReactToAll, Send, Broadcast, BroadcastDone, InterruptServer, DrainStop,
           NoMoreStops, CloseSlot, AwaitStop, CloseServer, clientVars
  <1>6. ClientsType'
    BY <1>1, <1>2, <1>5 DEF ClientsType, clientVars
  <1>7. CASE Receive
    <2> DEFINE i == LowestType(queues[Server])
    <2>1. i \in 1 .. Len(queues[Server]) /\ msgrcv(Server, i)
      BY <1>1, <1>7, TakenFirst DEF Receive
    <2>2. QueuesTyped' /\ queues[Server][i] \in Message
      BY <1>1, <1>2, <2>1, TakenEffect
    <2>3. srv' \in SrvType
      BY <1>1, <1>2, <1>3, <1>7, <2>2 DEF Receive, SrvType, ServerLabel
    <2> QED
      BY <1>1, <1>6, <1>7, <2>2, <2>3, TypeParts DEF Receive, ListType
  <1>8. CASE Admit
    <2>1. srv.msg.sender_id \in Client
      BY <1>8 DEF Admit, Reacting, QueueInv, AtHand
    <2>2. ListType'
      BY <1>1, <1>5, <1>8, <2>1, EnlistEffect DEF Admit
    <2>3. Msg(INIT, "connected", Server, srv.msg.sender_id) \in Message
      BY <1>2, MsgType
    <2>4. srv' \in SrvType
      BY <1>1, <1>2, <1>3, <1>8, <2>3 DEF Admit, Answer, SrvType, ServerLabel
    <2> QED
      BY <1>1, <1>6, <1>8, <2>2, <2>4, TypeParts DEF Admit, QueuesTyped
  <1>9. CASE Refuse \/ ReactList
    <2>1. /\ Msg(INIT, "refused", Server, srv.msg.sender_id) \in Message
          /\ Msg(LIST, "text", Server, srv.msg.sender_id) \in Message
      BY <1>2, MsgType
    <2>2. srv' \in SrvType
      BY <1>1, <1>2, <1>3, <1>9, <2>1 DEF Refuse, ReactList, Answer, SrvType, ServerLabel
    <2> QED
      BY <1>1, <1>6, <1>9, <2>2, TypeParts DEF Refuse, ReactList, QueuesTyped, ListType
  <1>10. CASE ReactStop
    <2>1. srv.msg.sender_id \in Client
      BY <1>10 DEF ReactStop, Reacting, QueueInv, AtHand
    <2>2. ListType'
      BY <1>1, <1>5, <1>10, <2>1, UnlistEffect DEF ReactStop
    <2> QED
      BY <1>1, <1>6, <1>10, <2>2, IdleType, TypeParts DEF ReactStop, ServerDone, QueuesTyped
  <1>11. CASE ReactToOne \/ ReactToAll \/ BroadcastDone \/ NoMoreStops \/ InterruptServer
    <2>1. UNCHANGED <<queues, client_list>>
      BY <1>11 DEF ReactToOne, ReactToAll, BroadcastDone, NoMoreStops, InterruptServer
    <2>2. srv' \in SrvType
      BY <1>1, <1>2, <1>3, <1>11
         DEF ReactToOne, ReactToAll, BroadcastDone, NoMoreStops, InterruptServer,
             ServerGoes, ServerDone, SrvType, ServerLabel
    <2> QED
      BY <1>1, <1>6, <2>1, <2>2, TypeParts DEF QueuesTyped, ListType
  <1>12. CASE Send
    <2>1. QueuesTyped'
      BY <1>1, <1>2, <1>12, SentEffect DEF Send
    <2> QED
      BY <1>1, <1>6, <1>12, <2>1, IdleType, TypeParts DEF Send, ServerDone, ListType
  <1>13. CASE Broadcast
    <2> DEFINE c == client_list[srv.i]
               x == [srv.msg EXCEPT !.send_to = c]
    <2>1. c \in Client \cup {Free} /\ srv.i + 1 \in 1 .. MAX_NO_CLIENTS + 1
      BY <1>1, <1>2, <1>13 DEF Broadcast, ListType
    <2>2. srv' \in SrvType
      BY <1>1, <1>13, <2>1 DEF Broadcast, SrvType, ServerLabel
    <2>3. QueuesTyped'
      <3>1. CASE c \in {Free, srv.msg.sender_id}
        BY <1>1, <1>13, <3>1 DEF Broadcast, QueuesTyped
      <3>2. CASE c \notin {Free, srv.msg.sender_id}
        <4>1. c \in Process /\ x \in Message /\ msgsnd(c, x)
          BY <1>2, <1>13, <2>1, <3>2 DEF Broadcast, Process, Message
        <4> HIDE DEF x, c
        <4> QED
          BY <1>1, <4>1, SentEffect
      <3> QED
        BY <3>1, <3>2
    <2> QED
      BY <1>1, <1>6, <1>13, <2>2, <2>3, TypeParts DEF Broadcast, ListType
  <1>14. CASE DrainStop \/ AwaitStop
    <2> DEFINE i == OldestOf(queues[Server], STOP)
               x == queues[Server][i]
    <2>1. OfType(queues[Server], STOP) # {} /\ msgrcv(Server, i) /\ Unlist(x.sender_id)
      BY <1>14 DEF DrainStop, AwaitStop, TakeStop
    <2>2. i \in 1 .. Len(queues[Server])
      BY <1>1, <1>2, <2>1, Taken
    <2> HIDE DEF i
    <2>3. QueuesTyped' /\ x \in Message /\ Held(Server, x)
      BY <1>1, <1>2, <2>1, <2>2, TakenEffect
    <2>4. ListType'
      BY <1>1, <1>5, <2>1, <2>3, UnlistEffect DEF QueueInv, Contents
    <2>5. srv' \in SrvType
      <3>1. CASE DrainStop
        BY <1>1, <3>1 DEF DrainStop, TakeStop
      <3>2. CASE AwaitStop
        <4>1. srv.at = "await_stop" /\ srv' = [srv EXCEPT !.at = "close", !.i = srv.i + 1]
          BY <3>2 DEF AwaitStop, TakeStop
        <4> QED
          BY <1>1, <1>2, <4>1 DEF QueueInv, AtHand, SrvType, ServerLabel
      <3> QED
        BY <1>14, <3>1, <3>2
    <2> QED
      BY <1>6, <2>3, <2>4, <2>5, TypeParts
  <1>15. CASE CloseSlot
    <2> DEFINE c == client_list[srv.i]
               x == Msg(STOP, "text", Server, c)
    <2>1. c \in Client \cup {Free} /\ srv.i + 1 \in 1 .. MAX_NO_CLIENTS + 1
      BY <1>1, <1>2, <1>15 DEF CloseSlot, ListType
    <2>2. srv' \in SrvType
      BY <1>1, <1>2, <1>3, <1>15, <2>1 DEF CloseSlot, SrvType, ServerLabel
    <2>3. QueuesTyped'
      <3>1. CASE c = Free
        BY <1>1, <1>15, <3>1 DEF CloseSlot, QueuesTyped
      <3>2. CASE c # Free
        <4>1. c \in Process /\ msgsnd(c, x)
          BY <1>15, <2>1, <3>2 DEF CloseSlot, Process
        <4>2. x \in Message
          BY <1>2, <4>1, MsgType
        <4> HIDE DEF x, c
        <4> QED
          BY <1>1, <4>1, <4>2, SentEffect
      <3> QED
        BY <3>1, <3>2
    <2> QED
      BY <1>1, <1>6, <1>15, <2>2, <2>3, TypeParts DEF CloseSlot, ListType
  <1>16. CASE CloseServer
    <2>1. QueuesTyped'
      BY <1>1, <1>2, <1>16, EmptiedEffect DEF CloseServer
    <2>2. srv' \in SrvType
      BY <1>1, <1>2, <1>3, <1>16 DEF CloseServer, SrvType, ServerLabel
    <2> QED
      BY <1>1, <1>6, <1>16, <2>1, <2>2, TypeParts DEF CloseServer, ListType
  <1> QED
    BY <1>7, <1>8, <1>9, <1>10, <1>11, <1>12, <1>13, <1>14, <1>15, <1>16 DEF ServerStep

\* What a step of c changes beside the queues: what is its own, and who is named.
LEMMA ClientFrame ==
    ASSUME Assumptions, ClientsType, NEW c \in Client,
           ClientStep(c) \/ UserCommand(c) \/ InterruptClient(c)
    PROVE  /\ UNCHANGED serverVars /\ removed' \in {removed, removed \cup {c}}
           /\ \E l \in ClientLabel : pc' = [pc EXCEPT ![c] = l]
           /\ connected' = connected
                \/ \E b \in BOOLEAN : connected' = [connected EXCEPT ![c] = b]
           /\ \/ commands' = commands
              \/ commands[c] < MaxCommands[c] /\ commands' = [commands EXCEPT ![c] = @ + 1]
           /\ \/ server_id' = server_id /\ named' = named
              \/ /\ pc[c] = "ack" /\ pc'[c] = "command" /\ connected' = connected
                 /\ server_id' = [server_id EXCEPT ![c] = Nobody] /\ named' = named
              \/ /\ CommandInit(c) /\ connected' = connected
                 /\ \E p \in Hosts : /\ server_id' = [server_id EXCEPT ![c] = p]
                                     /\ named' = named \cup ({p} \cap Client)
  <1> USE DEF Goes, ClientLabel, clientRest
  <1>1. CASE NoticeStop(c) \/ NoStop(c) \/ PrintMessage(c) \/ Drained(c) \/ EnterNothing(c)
    BY <1>1 DEF NoticeStop, NoStop, PrintMessage, Drained, EnterNothing
  <1>2. CASE SendAck(c)
    BY <1>2 DEF SendAck, ClientsType
  <1>3. CASE \/ AwaitInit(c) \/ AwaitList(c) \/ SayGoodbye(c) \/ RemoveQueue(c) \/ Exit(c)
             \/ CommandStop(c) \/ InterruptClient(c)
    BY <1>3 DEF AwaitInit, AwaitList, SayGoodbye, RemoveQueue, Exit, CommandStop,
                InterruptClient
  <1>4. CASE CommandInit(c)
    BY <1>4 DEF CommandInit, Command
  <1>5. CASE CommandList(c) \/ CommandToAll(c) \/ CommandToOne(c)
    BY <1>5 DEF CommandList, CommandToAll, CommandToOne, Command
  <1>6. CASE SendInit(c) \/ SendList(c) \/ SendToAll(c) \/ SendToOne(c)
    BY <1>6 DEF SendInit, SendList, SendToAll, SendToOne, Request
  <1> QED
    BY <1>1, <1>2, <1>3, <1>4, <1>5, <1>6 DEF ClientStep, UserCommand

\* A user's line that is sent: what it is, and where the client goes on from there.
LEMMA RequestSays ==
    ASSUME Assumptions, ClientsType, NEW c \in Client,
           SendInit(c) \/ SendList(c) \/ SendToAll(c) \/ SendToOne(c)
    PROVE  /\ UNCHANGED <<removed, connected, server_id, named, srv, client_list>>
           /\ \E x \in Message, u \in {INIT, LIST} :
                /\ x.sender_id = c /\ msgsnd(server_id[c], x)
                /\ \/ /\ x.mtype = u
                      /\ pc[c] = IF u = INIT THEN "send_init" ELSE "send_list"
                      /\ pc'[c] = IF NoQueue(server_id[c]) THEN "check" ELSE Wait(u)
                   \/ /\ x.mtype \in {TO_ALL, TO_ONE} /\ pc'[c] = "check"
                      /\ pc[c] \in {"send_all", "send_one"}
  <1>1. /\ c \in Process /\ Recipients \subseteq Process \cup {Nobody}
        /\ server_id[c] \in Process \cup {Nobody}
    BY DEF Process, Assumptions, ChatAssumption, ClientsType
  <1>2. UNCHANGED <<removed, connected, server_id, named, srv, client_list>>
    BY DEF SendInit, SendList, SendToAll, SendToOne, Request, clientRest, serverVars
  <1>3. CASE SendInit(c)
    <2> DEFINE x == Msg(INIT, "text", c, server_id[c])
    <2>1. x \in Message /\ x.mtype = INIT /\ x.sender_id = c
      BY <1>1, MsgType
    <2>2. /\ msgsnd(server_id[c], x) /\ pc[c] = "send_init"
          /\ pc'[c] = IF NoQueue(server_id[c]) THEN "check" ELSE Wait(INIT)
      BY <1>3 DEF SendInit, Request, Goes, ClientsType, Wait
    <2> HIDE DEF x
    <2> QED
      BY <1>2, <2>1, <2>2
  <1>4. CASE SendList(c)
    <2> DEFINE x == Msg(LIST, "text", c, server_id[c])
    <2>1. x \in Message /\ x.mtype = LIST /\ x.sender_id = c
      BY <1>1, MsgType
    <2>2. /\ msgsnd(server_id[c], x) /\ pc[c] = "send_list" /\ LIST # INIT
          /\ pc'[c] = IF NoQueue(server_id[c]) THEN "check" ELSE Wait(LIST)
      BY <1>4 DEF SendList, Request, Goes, ClientsType, Wait, INIT, LIST
    <2> HIDE DEF x
    <2> QED
      BY <1>2, <2>1, <2>2
  <1>5. CASE SendToAll(c)
    <2> DEFINE x == Msg(TO_ALL, "text", c, server_id[c])
    <2>1. x \in Message /\ x.mtype = TO_ALL /\ x.sender_id = c
      BY <1>1, MsgType
    <2>2. msgsnd(server_id[c], x) /\ pc[c] = "send_all" /\ pc'[c] = "check"
      BY <1>5 DEF SendToAll, Request, Goes, ClientsType
    <2> HIDE DEF x
    <2> QED
      BY <1>2, <2>1, <2>2
  <1>6. CASE SendToOne(c)
    <2>1. PICK p \in Recipients : Request(c, "send_one", Msg(TO_ONE, "text", c, p), "check")
      BY <1>6 DEF SendToOne
    <2> DEFINE x == Msg(TO_ONE, "text", c, p)
    <2>2. x \in Message /\ x.mtype = TO_ONE /\ x.sender_id = c
      BY <1>1, MsgType
    <2>3. msgsnd(server_id[c], x) /\ pc[c] = "send_one" /\ pc'[c] = "check"
      BY <2>1 DEF Request, Goes, ClientsType
    <2> HIDE DEF x
    <2> QED
      BY <1>2, <2>2, <2>3
  <1> QED
    BY <1>3, <1>4, <1>5, <1>6

\* A client that was told to stop, or takes its leave, says nothing but STOP.
LEMMA GoodbyeSays ==
    ASSUME Assumptions, ClientsType, NEW c \in Client, SendAck(c) \/ SayGoodbye(c)
    PROVE  /\ UNCHANGED <<removed, connected, named, srv, client_list>>
           /\ \/ pc[c] = "ack" /\ pc'[c] = "command"
              \/ /\ pc[c] \in {"stop", "bye"} /\ pc'[c] \in {"remove_after_stop", "remove"}
                 /\ server_id' = server_id
           /\ \/ UNCHANGED queues
              \/ \E x \in Message : /\ x.sender_id = c /\ x.mtype = STOP
                                    /\ msgsnd(server_id[c], x)
  <1> DEFINE x == Msg(STOP, "text", c, server_id[c])
  <1>1. x \in Message /\ x.mtype = STOP /\ x.sender_id = c
    BY MsgType DEF Process, ClientsType
  <1>2. UNCHANGED queues \/ msgsnd(server_id[c], x)
    BY DEF SendAck, SayGoodbye
  <1>3. /\ UNCHANGED <<removed, connected, named, srv, client_list>>
        /\ \/ pc[c] = "ack" /\ pc'[c] = "command"
           \/ /\ pc[c] \in {"stop", "bye"} /\ pc'[c] \in {"remove_after_stop", "remove"}
              /\ server_id' = server_id
    BY DEF SendAck, SayGoodbye, Goes, ClientsType, clientRest, serverVars
  <1> HIDE DEF x
  <1> QED
    BY <1>1, <1>2, <1>3

\* What a step of c does to the queues: it takes a message out of its own, or sends
\* one to what it takes for the server, or removes its own.
LEMMA ClientActs ==
    ASSUME Assumptions, QueuesTyped, ClientsType, NEW c \in Client,
           ClientStep(c) \/ UserCommand(c) \/ InterruptClient(c)
    PROVE  \/ UNCHANGED queues
           \/ \E i \in 1 .. Len(queues[c]) : msgrcv(c, i)
           \/ \E x \in Message : x.sender_id = c /\ msgsnd(server_id[c], x)
           \/ queues' = [queues EXCEPT ![c] = <<>>]
  <1>1. c \in Process /\ queues[c] \in Seq(Message)
    BY DEF Process, QueuesTyped
  <1>2. CASE NoticeStop(c) \/ AwaitInit(c) \/ AwaitList(c)
    <2>1. \E t : /\ OfType(queues[c], t) # {}
                 /\ msgrcv(c, OldestOf(queues[c], t))
      BY <1>2 DEF NoticeStop, AwaitInit, AwaitList
    <2> QED
      BY <1>1, <2>1, Taken
  <1>3. CASE PrintMessage(c)
    BY <1>1, <1>3, EmptySeq DEF PrintMessage
  <1>4. CASE SendAck(c) \/ SayGoodbye(c)
    BY <1>4, GoodbyeSays
  <1>5. CASE SendInit(c) \/ SendList(c) \/ SendToAll(c) \/ SendToOne(c)
    BY <1>5, RequestSays
  <1>6. CASE RemoveQueue(c)
    BY <1>6 DEF RemoveQueue
  <1>7. CASE \/ NoStop(c) \/ Drained(c) \/ EnterNothing(c) \/ Exit(c) \/ InterruptClient(c)
             \/ UserCommand(c)
    BY <1>7 DEF NoStop, Drained, EnterNothing, Exit, InterruptClient, UserCommand, CommandInit,
                CommandList, CommandToAll, CommandToOne, CommandStop, Command
  <1> QED
    BY <1>2, <1>3, <1>4, <1>5, <1>6, <1>7 DEF ClientStep

LEMMA ClientType ==
    ASSUME Assumptions, TypeOK, NEW c \in Client,
           ClientStep(c) \/ UserCommand(c) \/ InterruptClient(c)
    PROVE  TypeOK'
  <1>1. QueuesTyped /\ ListType /\ srv \in SrvType /\ ClientsType
    BY TypeParts
  <1>2. c \in Process /\ Server \in Process /\ server_id[c] \in Process \cup {Nobody}
    BY <1>1 DEF Process, ClientsType
  <1>3. /\ UNCHANGED serverVars /\ removed' \in {removed, removed \cup {c}}
        /\ \E l \in ClientLabel : pc' = [pc EXCEPT ![c] = l]
        /\ connected' = connected
             \/ \E b \in BOOLEAN : connected' = [connected EXCEPT ![c] = b]
        /\ \/ commands' = commands
           \/ commands[c] < MaxCommands[c] /\ commands' = [commands EXCEPT ![c] = @ + 1]
        /\ \/ server_id' = server_id /\ named' = named
           \/ server_id' = [server_id EXCEPT ![c] = Nobody] /\ named' = named
           \/ \E p \in Hosts : /\ server_id' = [server_id EXCEPT ![c] = p]
                               /\ named' = named \cup ({p} \cap Client)
    BY <1>1, ClientFrame
  <1>4. ClientsType'
    <2>1. removed' \subseteq Process
      BY <1>1, <1>2, <1>3 DEF ClientsType
    <2>2. pc' \in [Client -> ClientLabel] /\ connected' \in [Client -> BOOLEAN]
      BY <1>1, <1>3 DEF ClientsType
    <2>3. commands' \in [Client -> Nat] /\ \A d \in Client : commands'[d] <= MaxCommands[d]
      <3>1. commands[c] \in Nat /\ MaxCommands[c] \in Nat
        BY <1>1 DEF ClientsType, Assumptions, ChatAssumption
      <3> QED
        BY <1>1, <1>3, <3>1 DEF ClientsType
    <2>4. server_id' \in [Client -> Process \cup {Nobody}] /\ named' \subseteq Client
      <3>1. Hosts \subseteq Process \cup {Nobody}
        BY DEF Process, Assumptions, ChatAssumption
      <3> QED
        BY <1>1, <1>3, <3>1 DEF ClientsType
    <2> QED
      BY <2>1, <2>2, <2>3, <2>4 DEF ClientsType
  <1>5. ListType' /\ (srv \in SrvType)'
    BY <1>1, <1>3 DEF ListType, serverVars
  <1>6. QueuesTyped'
    <2>1. CASE UNCHANGED queues
      BY <1>1, <2>1 DEF QueuesTyped
    <2>2. CASE \E i \in 1 .. Len(queues[c]) : msgrcv(c, i)
      BY <1>1, <1>2, <2>2, TakenEffect
    <2>3. CASE \E x \in Message : x.sender_id = c /\ msgsnd(server_id[c], x)
      BY <1>1, <1>2, <2>3, SentEffect
    <2>4. CASE queues' = [queues EXCEPT ![c] = <<>>]
      BY <1>1, <1>2, <2>4, EmptiedEffect
    <2> QED
      BY <1>1, <2>1, <2>2, <2>3, <2>4, ClientActs
  <1> QED
    BY <1>4, <1>5, <1>6, TypeParts

LEMMA NextType == ASSUME Assumptions, TypeOK, QueueInv, [Next]_vars PROVE TypeOK'
  <1>1. CASE UNCHANGED vars
    BY <1>1 DEF TypeOK, vars, serverVars, clientVars
  <1> QED
    BY <1>1, ServerType, ClientType DEF Next

-----------------------------------------------------------------------------
(* Whose messages are where *)

LEMMA InitQueue == ASSUME Assumptions, Init PROVE QueueInv
  <1>1. \A p \in Process : \A m : ~Held(p, m)
    <2> DEFINE none == <<>>
    <2>1. \A m : ~Contains(none, m)
      BY DEF Contains
    <2>2. queues = [p \in Process |-> none]
      BY DEF Init
    <2> HIDE DEF none
    <2> QED
      BY <2>1, <2>2 DEF Held
  <1> QED
    BY <1>1 DEF Init, Idle, QueueInv, Contents, AtHand, RemovedInv, HostInv, Unnamed, Process

\* Steps that send nothing.
LEMMA NothingSent ==
    ASSUME Contents, ServerUp' => ServerUp, named \subseteq named',
           \A p \in Process, m \in Message : Held(p, m)' => Held(p, m)
    PROVE  Contents'
  BY DEF Contents, Unnamed, Process

LEMMA SameQueues ==
    ASSUME UNCHANGED queues
    PROVE  /\ \A p, m : Held(p, m)' <=> Held(p, m)
           /\ \A c, t : Requests(c, t)' = Requests(c, t) /\ Answers(c, t)' = Answers(c, t)
  BY DEF Held, Requests, Answers

LEMMA ServerQueue ==
    ASSUME Assumptions, TypeOK, QueueInv, ServerStep \/ InterruptServer
    PROVE  QueueInv'
  <1>1. QueuesTyped /\ ListType /\ srv \in SrvType /\ ClientsType
    BY TypeParts
  <1>2. /\ Server \in Process /\ Server \notin Client /\ Client \subseteq Process
        /\ srv.msg \in Message
    BY <1>1 DEF SrvType, Process, Assumptions, ChatAssumption
  <1>3. Contents /\ AtHand /\ RemovedInv
    BY DEF QueueInv
  <1>0. UNCHANGED clientVars /\ named' = named /\ Unnamed' = Unnamed /\ HostInv'
    <2>1. UNCHANGED clientVars
      BY DEF ServerStep, Receive, Admit, Refuse, ReactStop, ReactList, ReactToOne,
             ReactToAll, Send, Broadcast, BroadcastDone, InterruptServer, DrainStop,
             NoMoreStops, CloseSlot, AwaitStop, CloseServer, clientVars
    <2> QED
      BY <2>1 DEF clientVars, Unnamed, HostInv, QueueInv
  <1>4. RemovedInv'
    <2>1. CASE CloseServer
      BY <1>2, <1>3, <2>1 DEF CloseServer, Idle, RemovedInv, Leaving, clientVars
    <2>2. CASE ~CloseServer
      <3>1. UNCHANGED <<removed, pc>> /\ srv.at # "closed"
        BY <2>2
           DEF ServerStep, Receive, Admit, Refuse, ReactStop, ReactList, ReactToOne,
               ReactToAll, Send, Broadcast, BroadcastDone, InterruptServer, DrainStop,
               NoMoreStops, CloseSlot, AwaitStop, TakeStop, ServerGoes, ServerDone,
               Reacting, clientVars
      <3> QED
        BY <1>3, <3>1 DEF RemovedInv, Leaving
    <2> QED
      BY <2>1, <2>2
  <1>5. CASE Receive
    <2> DEFINE i == LowestType(queues[Server])
               x == queues[Server][i]
    <2>1. i \in 1 .. Len(queues[Server]) /\ msgrcv(Server, i)
      BY <1>1, <1>5, TakenFirst DEF Receive
    <2>2. /\ srv' = [srv EXCEPT !.at = "react", !.msg = x] /\ srv.at = "receive"
      BY <1>5 DEF Receive
    <2> HIDE DEF i
    <2>3. /\ x \in Message /\ Held(Server, x)
          /\ \A q \in Process, m \in Message : Held(q, m)' => Held(q, m)
      BY <1>1, <1>2, <2>1, TakenEffect
    <2> HIDE DEF x
    <2>4. srv'.at = "react" /\ srv'.msg = x
      BY <1>1, <2>2 DEF SrvType
    <2>5. Contents'
      BY <1>3, <2>2, <2>3, <1>0, NothingSent DEF ServerUp
    <2>6. AtHand'
      BY <1>3, <2>3, <2>4 DEF AtHand, Contents
    <2> QED
      BY <1>0, <1>4, <2>5, <2>6 DEF QueueInv
  <1>6. CASE Admit \/ Refuse \/ ReactList
    <2>1. UNCHANGED queues /\ srv.at = "react"
      BY <1>6 DEF Admit, Refuse, ReactList, Reacting
    <2>2. \E t \in {INIT, LIST}, text \in {"text", "connected", "refused"} :
             /\ srv' = [srv EXCEPT !.at = "send",
                                   !.msg = Msg(t, text, Server, srv.msg.sender_id)]
             /\ t = INIT => text # "text"
      BY <1>6 DEF Admit, Refuse, ReactList, Answer, INIT, LIST
    <2>3. Contents'
      BY <1>3, <2>1, <1>0, NothingSent, SameQueues DEF ServerUp
    <2>4. AtHand'
      BY <1>1, <1>3, <2>1, <2>2 DEF AtHand, Msg, SrvType
    <2> QED
      BY <1>0, <1>4, <2>3, <2>4 DEF QueueInv
  <1>7. CASE ReactStop \/ BroadcastDone \/ InterruptServer \/ NoMoreStops
    <2>1. /\ UNCHANGED queues
          /\ \/ srv.at \in {"react", "broadcast"} /\ srv'.at = "receive"
             \/ srv'.at \in {"drain", "close"}
      <3>1. CASE ReactStop \/ BroadcastDone
        BY <3>1 DEF ReactStop, BroadcastDone, ServerDone, Reacting, Idle
      <3>2. CASE InterruptServer \/ NoMoreStops
        BY <1>1, <3>2 DEF InterruptServer, NoMoreStops, Idle, SrvType
      <3> QED
        BY <1>7, <3>1, <3>2
    <2>2. Contents'
      BY <1>3, <2>1, <1>0, NothingSent, SameQueues DEF ServerUp
    <2>3. AtHand'
      BY <2>1 DEF AtHand
    <2> QED
      BY <1>0, <1>4, <2>2, <2>3 DEF QueueInv
  <1>8. CASE ReactToOne \/ ReactToAll
    <2>1. /\ UNCHANGED queues /\ srv.at = "react" /\ srv'.msg = srv.msg
          /\ \/ srv'.at = "send" /\ srv.msg.mtype = TO_ONE
             \/ srv'.at = "broadcast" /\ srv.msg.mtype = TO_ALL
      BY <1>1, <1>8 DEF ReactToOne, ReactToAll, Reacting, ServerGoes, SrvType
    <2>2. Contents'
      BY <1>3, <2>1, <1>0, NothingSent, SameQueues DEF ServerUp
    <2>3. AtHand'
      BY <1>3, <2>1 DEF AtHand
    <2> QED
      BY <1>0, <1>4, <2>2, <2>3 DEF QueueInv
  <1>9. CASE Send
    <2> DEFINE p == srv.msg.send_to
    <2>1. /\ srv.at = "send" /\ srv'.at = "receive" /\ msgsnd(p, srv.msg)
          /\ p \in Process \cup {Nobody}
      BY <1>1, <1>9, MessageFields DEF Send, ServerDone, Idle, SrvType
    <2>2. \A q \in Process, m \in Message :
             Held(q, m)' => Held(q, m) \/ (q = p /\ m = srv.msg)
      BY <1>1, <1>2, <2>1, SentEffect
    <2>3. Contents'
      <3>1. /\ srv.msg.mtype # STOP
            /\ srv.msg.mtype \in {INIT, LIST} => srv.msg.sender_id = Server /\ p # Server
            /\ srv.msg.mtype \notin {INIT, LIST} => srv.msg.sender_id \in Client
            /\ srv.msg.mtype = INIT => srv.msg.mtext \in {"connected", "refused"}
        BY <1>2, <1>3, <2>1 DEF AtHand, INIT, LIST, STOP, TO_ONE
      <3>2. ServerUp /\ ServerUp'
        BY <2>1 DEF ServerUp
      <3> QED
        BY <1>0, <1>2, <1>3, <2>2, <3>1, <3>2 DEF Contents, Unnamed
    <2>4. AtHand'
      BY <2>1 DEF AtHand
    <2> QED
      BY <1>0, <1>4, <2>3, <2>4 DEF QueueInv
  <1>10. CASE Broadcast
    <2>1. /\ srv.at = "broadcast" /\ srv'.at = "broadcast" /\ srv'.msg = srv.msg
      BY <1>1, <1>10 DEF Broadcast, SrvType
    <2>2. AtHand'
      BY <1>3, <2>1 DEF AtHand
    <2>3. Contents'
      <3> DEFINE c == client_list[srv.i]
                 x == [srv.msg EXCEPT !.send_to = c]
      <3>1. CASE UNCHANGED queues
        BY <1>3, <2>1, <3>1, <1>0, NothingSent, SameQueues DEF ServerUp
      <3>2. CASE c \notin {Free, srv.msg.sender_id}
        <4>1. c \in Client /\ x \in Message /\ x.mtype = TO_ALL /\ msgsnd(c, x)
          BY <1>1, <1>2, <1>3, <1>10, <2>1, <3>2 DEF Broadcast, ListType, Message, AtHand
        <4> HIDE DEF x, c
        <4>2. \A q \in Process, m \in Message :
                 Held(q, m)' => Held(q, m) \/ (q = c /\ m = x)
          BY <1>1, <1>2, <4>1, SentEffect
        <4> QED
          BY <1>0, <1>2, <1>3, <2>1, <4>1, <4>2
             DEF Contents, Unnamed, ServerUp, INIT, LIST, STOP, TO_ALL
      <3> QED
        BY <1>10, <3>1, <3>2 DEF Broadcast
    <2> QED
      BY <1>0, <1>4, <2>2, <2>3 DEF QueueInv
  <1>11. CASE DrainStop \/ AwaitStop
    <2> DEFINE i == OldestOf(queues[Server], STOP)
    <2>1. /\ OfType(queues[Server], STOP) # {} /\ msgrcv(Server, i)
          /\ ~ServerUp' /\ srv'.at \in {"drain", "close"}
      BY <1>1, <1>11 DEF DrainStop, AwaitStop, TakeStop, SrvType, ServerUp
    <2>2. \A q \in Process, m \in Message : Held(q, m)' => Held(q, m)
      BY <1>1, <1>2, <2>1, Taken, TakenEffect
    <2>3. Contents'
      BY <1>0, <1>3, <2>1, <2>2, NothingSent
    <2>4. AtHand'
      BY <2>1 DEF AtHand
    <2> QED
      BY <1>0, <1>4, <2>3, <2>4 DEF QueueInv
  <1>12. CASE CloseSlot
    <2> DEFINE c == client_list[srv.i]
               x == Msg(STOP, "text", Server, c)
    <2>1. ~ServerUp' /\ AtHand'
      BY <1>1, <1>12 DEF CloseSlot, SrvType, ServerUp, AtHand
    <2>2. Contents'
      <3>1. CASE c = Free
        BY <1>3, <1>12, <2>1, <3>1, <1>0, NothingSent, SameQueues DEF CloseSlot
      <3>2. CASE c # Free
        <4>1. c \in Client /\ msgsnd(c, x)
          BY <1>1, <1>2, <1>12, <3>2 DEF CloseSlot, ListType
        <4>2. x \in Message /\ x.mtype = STOP
          BY <1>2, <4>1, MsgType
        <4> HIDE DEF x, c
        <4>3. \A q \in Process, m \in Message :
                 Held(q, m)' => Held(q, m) \/ (q = c /\ m = x)
          BY <1>1, <1>2, <4>1, <4>2, SentEffect
        <4> QED
          BY <1>0, <1>2, <1>3, <2>1, <4>1, <4>2, <4>3 DEF Contents, Unnamed, INIT, LIST, STOP
      <3> QED
        BY <3>1, <3>2
    <2> QED
      BY <1>0, <1>4, <2>1, <2>2 DEF QueueInv
  <1>13. CASE CloseServer
    <2>1. /\ queues' = [queues EXCEPT ![Server] = <<>>]
          /\ srv'.at = "closed"
      BY <1>13 DEF CloseServer, Idle
    <2>2. \A q \in Process, m \in Message : Held(q, m)' => Held(q, m)
      BY <1>1, <1>2, <2>1, EmptiedEffect
    <2>3. Contents'
      BY <1>3, <2>1, <2>2, <1>0, NothingSent DEF ServerUp
    <2>4. AtHand'
      BY <2>1 DEF AtHand
    <2> QED
      BY <1>0, <1>4, <2>3, <2>4 DEF QueueInv
  <1> QED
    BY <1>5, <1>6, <1>7, <1>8, <1>9, <1>10, <1>11, <1>12, <1>13 DEF ServerStep

\* A client that leaves goes on leaving, and is done with its queue when it removes
\* it; who is named stays so.
LEMMA ClientMoves ==
    ASSUME Assumptions, TypeOK, NEW c \in Client,
           ClientStep(c) \/ UserCommand(c) \/ InterruptClient(c)
    PROVE  /\ UNCHANGED serverVars /\ named \subseteq named'
           /\ \A d \in Client \ {c} : /\ pc'[d] = pc[d] /\ connected'[d] = connected[d]
                                      /\ server_id'[d] = server_id[d]
           /\ pc[c] # "gone" /\ (Leaving(c) => Leaving(c)')
           /\ removed' = removed \/ (removed' = removed \cup {c} /\ Leaving(c)')
  <1>1. ClientsType
    BY TypeParts
  <1>2. /\ UNCHANGED serverVars /\ named \subseteq named'
        /\ \A d \in Client \ {c} : /\ pc'[d] = pc[d] /\ connected'[d] = connected[d]
                                   /\ server_id'[d] = server_id[d]
    BY <1>1, ClientFrame DEF ClientsType
  <1>3. CASE \/ NoticeStop(c) \/ SendAck(c) \/ NoStop(c) \/ PrintMessage(c) \/ Drained(c)
             \/ EnterNothing(c) \/ AwaitInit(c) \/ AwaitList(c)
    <2>1. /\ pc[c] \in {"check", "ack", "drain", "command", "await_init", "await_list"}
          /\ UNCHANGED removed
      BY <1>3 DEF NoticeStop, SendAck, NoStop, PrintMessage, Drained, EnterNothing,
                  AwaitInit, AwaitList, Goes, clientRest
    <2> QED
      BY <1>2, <2>1 DEF Leaving
  <1>4. CASE SayGoodbye(c) \/ RemoveQueue(c) \/ Exit(c) \/ InterruptClient(c)
    <2>1. /\ pc[c] # "gone"
          /\ pc'[c] \in {"bye", "remove_after_stop", "remove", "exit", "gone"}
          /\ \/ removed' = removed
             \/ removed' = removed \cup {c} /\ pc'[c] \in {"exit", "gone"}
      BY <1>1, <1>4 DEF SayGoodbye, RemoveQueue, Exit, InterruptClient, Goes, clientRest,
                        ClientsType
    <2> QED
      BY <1>2, <2>1 DEF Leaving
  <1>5. CASE SendInit(c) \/ SendList(c) \/ SendToAll(c) \/ SendToOne(c)
    <2>1. /\ pc[c] \in {"send_init", "send_list", "send_all", "send_one"}
          /\ UNCHANGED removed
      BY <1>5 DEF SendInit, SendList, SendToAll, SendToOne, Request, Goes, clientRest
    <2> QED
      BY <1>2, <2>1 DEF Leaving
  <1>6. CASE UserCommand(c)
    <2>1. pc[c] = "command" /\ UNCHANGED removed
      BY <1>6 DEF UserCommand, CommandInit, CommandList, CommandToAll, CommandToOne, Command,
                  CommandStop, Goes, clientRest
    <2> QED
      BY <1>2, <2>1 DEF Leaving
  <1> QED
    BY <1>3, <1>4, <1>5, <1>6 DEF ClientStep

\* A client only takes somebody for the server that a user named, or the server, and
\* has checked whether it is connected before it sends.
LEMMA ClientHosts ==
    ASSUME Assumptions, TypeOK, QueueInv, NEW c \in Client,
           ClientStep(c) \/ UserCommand(c) \/ InterruptClient(c)
    PROVE  HostInv'
  <1>1. ClientsType /\ HostInv
    BY TypeParts DEF QueueInv
  <1>2. /\ named \subseteq named'
        /\ \A d \in Client \ {c} : /\ pc'[d] = pc[d] /\ connected'[d] = connected[d]
                                   /\ server_id'[d] = server_id[d]
    BY ClientMoves
  <1>3. server_id'[c] \in named' \cup {Server, Nobody}
    <2>1. Hosts \subseteq Client \cup {Server, Nobody}
      BY DEF Assumptions, ChatAssumption
    <2> QED
      BY <1>1, <2>1, ClientFrame DEF ClientsType, HostInv
  <1>4. /\ pc'[c] \in {"send_init", "await_init"} => ~connected'[c]
        /\ pc'[c] \in {"send_list", "await_list", "send_all", "send_one"} => connected'[c]
    <2>1. CASE SendInit(c) \/ SendList(c) \/ SendToAll(c) \/ SendToOne(c)
      BY <1>1, <2>1, RequestSays DEF HostInv, Wait, INIT, LIST
    <2>2. CASE CommandInit(c) \/ CommandList(c) \/ CommandToAll(c) \/ CommandToOne(c)
      BY <1>1, <2>2 DEF CommandInit, CommandList, CommandToAll, CommandToOne, Command, Goes,
                        ClientsType
    <2>3. CASE \/ NoticeStop(c) \/ SendAck(c) \/ NoStop(c) \/ PrintMessage(c) \/ Drained(c)
               \/ EnterNothing(c) \/ AwaitInit(c) \/ AwaitList(c) \/ SayGoodbye(c)
               \/ RemoveQueue(c) \/ Exit(c) \/ CommandStop(c) \/ InterruptClient(c)
      <3>1. pc'[c] \notin {"send_init", "await_init", "send_list", "await_list", "send_all",
                           "send_one"}
        BY <1>1, <2>3
           DEF NoticeStop, SendAck, NoStop, PrintMessage, Drained, EnterNothing, AwaitInit,
               AwaitList, SayGoodbye, RemoveQueue, Exit, CommandStop, InterruptClient, Goes,
               ClientsType
      <3> QED
        BY <3>1
    <2> QED
      BY <2>1, <2>2, <2>3 DEF ClientStep, UserCommand
  <1> QED
    BY <1>1, <1>2, <1>3, <1>4 DEF HostInv

\* What a client sends stays out of the queues of those that nobody named.
LEMMA SentAway ==
    ASSUME Assumptions, TypeOK, QueueInv, NEW c \in Client, NEW x \in Message,
           x.sender_id = c, msgsnd(server_id[c], x)
    PROVE  /\ \A m \in Message :
                Held(Server, m)' <=> \/ Held(Server, m)
                                     \/ m = x /\ server_id[c] = Server /\ Server \notin removed
           /\ \A d \in Unnamed, m \in Message : Held(d, m)' <=> Held(d, m)
           /\ \A d \in Unnamed : \A t :
                /\ Requests(d, t)' = Requests(d, t)
                      + (IF /\ server_id[c] = Server /\ Server \notin removed
                            /\ x.mtype = t /\ c = d THEN 1 ELSE 0)
                /\ Answers(d, t)' = Answers(d, t)
  <1> DEFINE p == server_id[c]
  <1>1. /\ QueuesTyped /\ p \in Process \cup {Nobody} /\ p \in named \cup {Server, Nobody}
        /\ Server \in Process /\ Client \subseteq Process
        /\ Nobody \notin Process /\ Server \notin Client
    BY TypeParts DEF ClientsType, QueueInv, HostInv, Process, Assumptions, ChatAssumption
  <1>2. \A d \in Unnamed : d \in Client /\ p # d
    BY <1>1 DEF Unnamed, Process
  <1>3. NoQueue(p) <=> p \in removed \/ p = Nobody
    BY DEF NoQueue
  <1>4. msgsnd(p, x)
    OBVIOUS
  <1> HIDE DEF p
  <1>5. /\ \A q \in Process, m \in Message :
               Held(q, m)' <=> Held(q, m) \/ (~NoQueue(p) /\ q = p /\ m = x)
        /\ \A d \in Client : \A t :
               /\ Requests(d, t)' = Requests(d, t)
                      + (IF /\ ~NoQueue(p) /\ p = Server
                            /\ x.mtype = t /\ x.sender_id = d THEN 1 ELSE 0)
               /\ Answers(d, t)' = Answers(d, t)
                      + (IF /\ ~NoQueue(p) /\ p = d
                            /\ x.mtype = t /\ x.sender_id = Server THEN 1 ELSE 0)
    BY <1>1, <1>4, SentEffect
  <1>6. \A m \in Message :
            Held(Server, m)' <=> Held(Server, m) \/ (m = x /\ p = Server /\ Server \notin removed)
    BY <1>1, <1>3, <1>5
  <1>7. \A d \in Unnamed, m \in Message : Held(d, m)' <=> Held(d, m)
    BY <1>1, <1>2, <1>5
  <1>8. ASSUME NEW d \in Unnamed, NEW t
        PROVE  /\ Requests(d, t)' = Requests(d, t)
                     + (IF /\ p = Server /\ Server \notin removed
                           /\ x.mtype = t /\ c = d THEN 1 ELSE 0)
               /\ Answers(d, t)' = Answers(d, t)
    <2>1. Requests(d, t) \in Nat /\ Answers(d, t) \in Nat /\ d \in Client /\ p # d
      BY <1>1, <1>2, FlowType
    <2> QED
      BY <1>1, <1>3, <1>5, <2>1
  <1> QED
    BY <1>6, <1>7, <1>8 DEF p

LEMMA ClientQueue ==
    ASSUME Assumptions, TypeOK, QueueInv, NEW c \in Client,
           ClientStep(c) \/ UserCommand(c) \/ InterruptClient(c)
    PROVE  QueueInv'
  <1>1. QueuesTyped /\ ClientsType
    BY TypeParts
  <1>2. /\ Server \in Process /\ Server \notin Client /\ Client \subseteq Process
        /\ c \in Process
    BY DEF Process, Assumptions, ChatAssumption
  <1>3. Contents /\ AtHand /\ RemovedInv
    BY DEF QueueInv
  <1>4. /\ UNCHANGED srv /\ named \subseteq named'
        /\ \A d \in Client \ {c} : pc'[d] = pc[d]
        /\ Leaving(c) => Leaving(c)'
        /\ removed' = removed \/ (removed' = removed \cup {c} /\ Leaving(c)')
    BY ClientMoves DEF serverVars
  <1>5. AtHand' /\ RemovedInv'
    BY <1>2, <1>3, <1>4 DEF AtHand, RemovedInv, Leaving
  <1>6. ServerUp' <=> ServerUp
    BY <1>4 DEF ServerUp
  <1>7. Contents'
    <2>1. CASE UNCHANGED queues
      BY <1>3, <1>4, <1>6, <2>1, NothingSent, SameQueues
    <2>2. CASE \E i \in 1 .. Len(queues[c]) : msgrcv(c, i)
      <3>1. \A q \in Process, m \in Message : Held(q, m)' => Held(q, m)
        BY <1>1, <1>2, <2>2, TakenEffect
      <3> QED
        BY <1>3, <1>4, <1>6, <3>1, NothingSent
    <2>3. CASE \E x \in Message : x.sender_id = c /\ msgsnd(server_id[c], x)
      <3>1. PICK x \in Message : x.sender_id = c /\ msgsnd(server_id[c], x)
        BY <2>3
      <3>2. /\ \A m \in Message : Held(Server, m)' => Held(Server, m) \/ m = x
            /\ \A d \in Unnamed, m \in Message : Held(d, m)' <=> Held(d, m)
        BY <3>1, SentAway
      <3> QED
        BY <1>3, <1>4, <1>6, <3>1, <3>2 DEF Contents, Unnamed
    <2>4. CASE queues' = [queues EXCEPT ![c] = <<>>]
      <3>1. \A q \in Process, m \in Message : Held(q, m)' => Held(q, m)
        BY <1>1, <1>2, <2>4, EmptiedEffect
      <3> QED
        BY <1>3, <1>4, <1>6, <3>1, NothingSent
    <2> QED
      BY <1>1, <2>1, <2>2, <2>3, <2>4, ClientActs
  <1> QED
    BY <1>5, <1>7, ClientHosts DEF QueueInv

LEMMA NextQueue == ASSUME Assumptions, TypeOK, QueueInv, [Next]_vars PROVE QueueInv'
  <1>1. CASE UNCHANGED vars
    <2>1. UNCHANGED <<queues, removed, srv, pc, connected, server_id, named>>
      BY <1>1 DEF vars, serverVars, clientVars
    <2> QED
      BY <2>1, SameQueues
         DEF QueueInv, Contents, AtHand, RemovedInv, HostInv, Unnamed, Leaving, ServerUp
  <1> QED
    BY <1>1, ServerQueue, ClientQueue DEF Next

-----------------------------------------------------------------------------
(* Requests and answers *)

LEMMA InitFlow == ASSUME Assumptions, Init PROVE FlowInv
  <1> SUFFICES ASSUME NEW c \in Client, NEW t \in {INIT, LIST}
               PROVE  FlowOf(c, t)
    BY DEF FlowInv, Unnamed, Init
  <1> DEFINE none == <<>>
  <1>1. none \in Seq(Message) /\ Len(none) = 0
    OBVIOUS
  <1>2. queues = [p \in Process |-> none] /\ c \in Process /\ Server \in Process
    BY DEF Init, Process
  <1> HIDE DEF none
  <1>3. \A K : HowMany(none, K) = 0
    <2>1. \A k \in 1 .. 0 : FALSE
      OBVIOUS
    <2> QED
      BY <1>1, <2>1, HowManyType
  <1>4. Requests(c, t) = 0 /\ Answers(c, t) = 0
    BY <1>2, <1>3 DEF Requests, Answers
  <1>5. srv.at = "receive" /\ pc[c] = "check"
    BY DEF Init, Idle
  <1> QED
    BY <1>4, <1>5 DEF FlowOf, Flow, InHand, Wait

\* As long as the client does nothing, a request can only be lost, and that only
\* when the server shuts down or the client leaves.
LEMMA FlowKept ==
    ASSUME NEW c \in Client, NEW t, FlowOf(c, t), pc'[c] = pc[c],
           server_id'[c] = server_id[c],
           ServerUp' => ServerUp, Flow(c, t)' \in Nat, Flow(c, t)' <= Flow(c, t),
           Flow(c, t)' = Flow(c, t) \/ ~ServerUp' \/ Leaving(c)
    PROVE  FlowOf(c, t)'
  BY DEF FlowOf, Leaving, Wait

LEMMA ServerFlow ==
    ASSUME Assumptions, TypeOK, TypeOK', QueueInv, FlowInv, ServerStep \/ InterruptServer
    PROVE  FlowInv'
  <1>0. UNCHANGED clientVars
    BY DEF ServerStep, Receive, Admit, Refuse, ReactStop, ReactList, ReactToOne,
           ReactToAll, Send, Broadcast, BroadcastDone, InterruptServer, DrainStop,
           NoMoreStops, CloseSlot, AwaitStop, CloseServer, clientVars
  <1> SUFFICES ASSUME NEW c \in Unnamed, NEW t \in {INIT, LIST}
               PROVE  FlowOf(c, t)'
    BY <1>0 DEF FlowInv, clientVars, Unnamed
  <1>1. QueuesTyped /\ ListType /\ srv \in SrvType /\ ClientsType /\ QueuesTyped'
    BY TypeParts
  <1>2. /\ Server \in Process /\ Server \notin Client /\ Client \subseteq Process
        /\ c \in Client /\ c \in Process /\ srv.msg \in Message /\ Nobody \notin Process
    BY <1>1 DEF SrvType, Process, Unnamed, Assumptions, ChatAssumption
  <1>3. Contents /\ AtHand /\ RemovedInv /\ FlowOf(c, t)
    BY DEF QueueInv, FlowInv
  <1>4. Requests(c, t) \in Nat /\ Answers(c, t) \in Nat
    BY <1>1, <1>2, FlowType
  <1>5. Requests(c, t)' \in Nat /\ Answers(c, t)' \in Nat
    BY <1>1, <1>2, FlowTypeNext
  <1>6. Flow(c, t) \in Nat /\ Flow(c, t)' \in Nat
    BY <1>4, <1>5 DEF Flow
  <1>7. pc'[c] = pc[c] /\ server_id'[c] = server_id[c]
    BY <1>0 DEF clientVars
  <1>8. t # STOP /\ t # TO_ALL /\ t # TO_ONE
    BY DEF INIT, LIST, STOP, TO_ALL, TO_ONE
  <1>9. ASSUME Requests(c, t)' = Requests(c, t), Answers(c, t)' = Answers(c, t),
               ~InHand(c, t), ~InHand(c, t)', ServerUp' => ServerUp
        PROVE  FlowOf(c, t)'
    <2>1. Flow(c, t)' = Flow(c, t)
      BY <1>9 DEF Flow
    <2> QED
      BY <1>2, <1>3, <1>6, <1>7, <1>9, <2>1, FlowKept
  <1>10. CASE Receive
    <2> DEFINE i == LowestType(queues[Server])
               x == queues[Server][i]
    <2>1. i \in 1 .. Len(queues[Server]) /\ msgrcv(Server, i)
      BY <1>1, <1>10, TakenFirst DEF Receive
    <2>2. srv' = [srv EXCEPT !.at = "react", !.msg = x] /\ srv.at = "receive"
      BY <1>10 DEF Receive
    <2> HIDE DEF i
    <2>3. /\ Requests(c, t)' = Requests(c, t)
                - (IF x.mtype = t /\ x.sender_id = c THEN 1 ELSE 0)
          /\ Answers(c, t)' = Answers(c, t)
      BY <1>1, <1>2, <1>4, <2>1, TakenEffect
    <2> HIDE DEF x
    <2>4. srv'.at = "react" /\ srv'.msg = x
      BY <1>1, <2>2 DEF SrvType
    <2>5. ~InHand(c, t) /\ (InHand(c, t)' <=> x.mtype = t /\ x.sender_id = c)
      BY <2>2, <2>4 DEF InHand
    <2>6. Flow(c, t)' = Flow(c, t)
      BY <1>4, <1>5, <2>3, <2>5 DEF Flow
    <2> QED
      BY <1>2, <1>3, <1>6, <1>7, <2>2, <2>6, FlowKept DEF ServerUp
  <1>11. CASE Admit \/ Refuse \/ ReactList
    <2>1. UNCHANGED queues /\ srv.at = "react" /\ srv.msg.mtype \in {INIT, LIST}
      BY <1>11 DEF Admit, Refuse, ReactList, Reacting
    <2>2. \E text : srv' = [srv EXCEPT !.at = "send",
                              !.msg = Msg(srv.msg.mtype, text, Server, srv.msg.sender_id)]
      BY <1>11 DEF Admit, Refuse, ReactList, Answer, Reacting
    <2>3. /\ srv'.at = "send" /\ srv'.msg.mtype = srv.msg.mtype
          /\ srv'.msg.send_to = srv.msg.sender_id
      BY <1>1, <2>2 DEF SrvType, Msg
    <2>4. InHand(c, t)' <=> InHand(c, t)
      BY <2>1, <2>3 DEF InHand
    <2>5. Flow(c, t)' = Flow(c, t)
      BY <2>1, <2>4, SameQueues DEF Flow
    <2> QED
      BY <1>2, <1>3, <1>6, <1>7, <2>1, <2>5, FlowKept DEF ServerUp
  <1>12. CASE ReactStop \/ ReactToOne \/ ReactToAll \/ BroadcastDone
    <2>1. /\ UNCHANGED queues /\ srv.at \in {"react", "broadcast"}
          /\ srv.at = "react" => srv.msg.mtype \in {STOP, TO_ONE, TO_ALL}
          /\ \/ srv' = Idle
             \/ /\ srv'.msg = srv.msg /\ srv.msg.mtype \in {TO_ONE, TO_ALL}
                /\ srv'.at \in {"send", "broadcast"}
      BY <1>1, <1>12
         DEF ReactStop, ReactToOne, ReactToAll, BroadcastDone, ServerGoes, ServerDone,
             Reacting, SrvType
    <2>2. ~InHand(c, t) /\ ~InHand(c, t)' /\ ServerUp
      BY <1>8, <2>1 DEF InHand, Idle, ServerUp
    <2> QED
      BY <1>9, <2>1, <2>2, SameQueues
  <1>13. CASE InterruptServer
    <2>1. UNCHANGED queues /\ srv'.at = "drain"
      BY <1>13 DEF InterruptServer, Idle
    <2>2. ~InHand(c, t)' /\ ~ServerUp'
      BY <2>1 DEF InHand, ServerUp
    <2>3. Flow(c, t)' <= Flow(c, t)
      BY <1>4, <2>1, <2>2, SameQueues DEF Flow
    <2> QED
      BY <1>2, <1>3, <1>6, <1>7, <2>2, <2>3, FlowKept
  <1>14. CASE Send
    <2> DEFINE p == srv.msg.send_to
    <2>1. /\ srv.at = "send" /\ srv'.at = "receive" /\ msgsnd(p, srv.msg)
          /\ p \in Process \cup {Nobody}
      BY <1>1, <1>14, MessageFields DEF Send, ServerDone, Idle, SrvType
    <2>2. /\ Requests(c, t)' = Requests(c, t)
                + (IF /\ ~NoQueue(p) /\ p = Server
                      /\ srv.msg.mtype = t /\ srv.msg.sender_id = c THEN 1 ELSE 0)
          /\ Answers(c, t)' = Answers(c, t)
                + (IF /\ ~NoQueue(p) /\ p = c
                      /\ srv.msg.mtype = t /\ srv.msg.sender_id = Server THEN 1 ELSE 0)
      BY <1>1, <1>2, <2>1, SentEffect
    <2>3. ~(p = Server /\ srv.msg.mtype = t)
      BY <1>2, <1>3, <1>8, <2>1 DEF AtHand
    <2>4. srv.msg.mtype = t => srv.msg.sender_id = Server
      BY <1>3, <1>8, <2>1 DEF AtHand
    <2>5. (InHand(c, t) <=> srv.msg.mtype = t /\ p = c) /\ ~InHand(c, t)'
      BY <2>1 DEF InHand
    <2>6. p = c => (NoQueue(p) <=> c \in removed) /\ (c \in removed => Leaving(c))
      BY <1>2, <1>3 DEF RemovedInv, NoQueue
    <2> HIDE DEF p
    <2>7. /\ Flow(c, t)' <= Flow(c, t)
          /\ Flow(c, t)' = Flow(c, t) \/ Leaving(c)
      BY <1>4, <2>2, <2>3, <2>4, <2>5, <2>6 DEF Flow
    <2> QED
      BY <1>2, <1>3, <1>6, <1>7, <2>1, <2>7, FlowKept DEF ServerUp
  <1>15. CASE Broadcast
    <2> DEFINE d == client_list[srv.i]
               x == [srv.msg EXCEPT !.send_to = d]
    <2>1. /\ srv.at = "broadcast" /\ srv'.at = "broadcast" /\ srv'.msg = srv.msg
      BY <1>1, <1>15 DEF Broadcast, SrvType
    <2>2. ~InHand(c, t) /\ ~InHand(c, t)' /\ ServerUp
      BY <2>1 DEF InHand, ServerUp
    <2>3. CASE UNCHANGED queues
      BY <1>9, <2>2, <2>3, SameQueues
    <2>4. CASE d \notin {Free, srv.msg.sender_id}
      <3>1. d \in Client /\ x \in Message /\ x.mtype = TO_ALL /\ msgsnd(d, x)
        BY <1>1, <1>2, <1>3, <1>15, <2>1, <2>4 DEF Broadcast, ListType, Message, AtHand
      <3> HIDE DEF x, d
      <3>2. Requests(c, t)' = Requests(c, t) /\ Answers(c, t)' = Answers(c, t)
        BY <1>1, <1>2, <1>4, <1>8, <3>1, SentEffect
      <3> QED
        BY <1>9, <2>2, <3>2
    <2> QED
      BY <1>15, <2>3, <2>4 DEF Broadcast
  <1>16. CASE DrainStop \/ AwaitStop
    <2> DEFINE i == OldestOf(queues[Server], STOP)
               x == queues[Server][i]
    <2>1. /\ OfType(queues[Server], STOP) # {} /\ msgrcv(Server, i)
          /\ srv.at \in {"drain", "await_stop"} /\ srv'.at \in {"drain", "close"}
      BY <1>1, <1>16 DEF DrainStop, AwaitStop, TakeStop, SrvType
    <2>2. i \in 1 .. Len(queues[Server]) /\ x.mtype = STOP
      BY <1>1, <1>2, <2>1, Taken
    <2> HIDE DEF i
    <2>3. Requests(c, t)' = Requests(c, t) /\ Answers(c, t)' = Answers(c, t)
      BY <1>1, <1>2, <1>4, <1>8, <2>1, <2>2, TakenEffect
    <2>4. ~InHand(c, t) /\ ~InHand(c, t)' /\ ~ServerUp'
      BY <2>1 DEF InHand, ServerUp
    <2> QED
      BY <1>9, <2>3, <2>4
  <1>17. CASE NoMoreStops \/ CloseSlot
    <2> DEFINE d == client_list[srv.i]
               x == Msg(STOP, "text", Server, d)
    <2>1. /\ srv.at \in {"drain", "close"} /\ srv'.at \in {"close", "await_stop"}
          /\ UNCHANGED queues \/ (srv.i \in Slot /\ d # Free /\ msgsnd(d, x))
      BY <1>1, <1>17 DEF NoMoreStops, CloseSlot, SrvType
    <2>2. ~InHand(c, t) /\ ~InHand(c, t)' /\ ~ServerUp'
      BY <2>1 DEF InHand, ServerUp
    <2>3. CASE UNCHANGED queues
      BY <1>9, <2>2, <2>3, SameQueues
    <2>4. CASE srv.i \in Slot /\ d # Free /\ msgsnd(d, x)
      <3>1. d \in Client
        BY <1>1, <2>4 DEF ListType
      <3>2. x \in Message /\ x.mtype = STOP
        BY <1>2, <3>1, MsgType
      <3> HIDE DEF x, d
      <3>3. Requests(c, t)' = Requests(c, t) /\ Answers(c, t)' = Answers(c, t)
        BY <1>1, <1>2, <1>4, <1>8, <2>4, <3>1, <3>2, SentEffect
      <3> QED
        BY <1>9, <2>2, <3>3
    <2> QED
      BY <2>1, <2>3, <2>4
  <1>18. CASE CloseServer
    <2>1. /\ queues' = [queues EXCEPT ![Server] = <<>>]
          /\ srv'.at = "closed"
      BY <1>18 DEF CloseServer, Idle
    <2>2. Requests(c, t)' = 0 /\ Answers(c, t)' = Answers(c, t)
      BY <1>1, <1>2, <2>1, EmptiedEffect
    <2>3. ~InHand(c, t)' /\ ~ServerUp'
      BY <2>1 DEF InHand, ServerUp
    <2>4. Flow(c, t)' <= Flow(c, t)
      BY <1>4, <2>2, <2>3 DEF Flow
    <2> QED
      BY <1>2, <1>3, <1>6, <1>7, <2>3, <2>4, FlowKept
  <1> QED
    BY <1>10, <1>11, <1>12, <1>13, <1>14, <1>15, <1>16, <1>17, <1>18 DEF ServerStep

\* A step of c leaves what is under way for the others as it is.
LEMMA ClientFlow ==
    ASSUME Assumptions, Inv, TypeOK', NEW c \in Client,
           ClientStep(c) \/ UserCommand(c) \/ InterruptClient(c),
           NEW d \in Unnamed, NEW t \in {INIT, LIST}
    PROVE  FlowOf(d, t)'
  <1>1. /\ QueuesTyped /\ ClientsType /\ QueuesTyped' /\ ClientsType'
        /\ TypeOK /\ QueueInv /\ Contents /\ RemovedInv /\ FlowOf(d, t) /\ FlowInv
    BY TypeParts DEF Inv, QueueInv, FlowInv
  <1>2. /\ Server \in Process /\ Server \notin Client /\ Client \subseteq Process
        /\ c \in Process /\ d \in Client /\ d \in Process
    BY DEF Process, Unnamed, Assumptions, ChatAssumption
  <1>3. /\ Requests(d, t) \in Nat /\ Answers(d, t) \in Nat
        /\ Requests(d, t)' \in Nat /\ Answers(d, t)' \in Nat
    BY <1>1, <1>2, FlowType, FlowTypeNext
  <1>4. Flow(d, t) \in Nat /\ Flow(d, t)' \in Nat
    BY <1>3 DEF Flow
  <1>5. /\ UNCHANGED srv
        /\ \A e \in Client \ {c} : pc'[e] = pc[e] /\ server_id'[e] = server_id[e]
        /\ pc[c] # "gone" /\ (Leaving(c) => Leaving(c)')
    BY <1>1, ClientMoves DEF serverVars
  <1>6. (ServerUp' <=> ServerUp) /\ (InHand(d, t)' <=> InHand(d, t))
    BY <1>5 DEF ServerUp, InHand
  <1>7. t # STOP /\ t # TO_ALL /\ t # TO_ONE /\ Wait(t) \in {"await_init", "await_list"}
    BY DEF INIT, LIST, STOP, TO_ALL, TO_ONE, Wait
  <1>8. ASSUME Requests(d, t)' <= Requests(d, t), Answers(d, t)' <= Answers(d, t),
               ~Leaving(c)' => pc[c] \notin {"await_init", "await_list"},
               pc'[c] \notin {"await_init", "await_list"},
               d # c => Flow(d, t)' = Flow(d, t)
        PROVE  FlowOf(d, t)'
    <2>1. CASE d # c
      BY <1>1, <1>2, <1>4, <1>5, <1>6, <1>8, <2>1, FlowKept
    <2>2. CASE d = c
      <3>1. Flow(d, t)' <= Flow(d, t)
        BY <1>3, <1>6, <1>8 DEF Flow
      <3> QED
        BY <1>1, <1>4, <1>5, <1>6, <1>7, <1>8, <2>2, <3>1 DEF FlowOf
    <2> QED
      BY <2>1, <2>2
  <1>9. ASSUME Requests(d, t)' = Requests(d, t), Answers(d, t)' = Answers(d, t)
        PROVE  Flow(d, t)' = Flow(d, t)
    BY <1>6, <1>9 DEF Flow
  <1>10. ASSUME UNCHANGED queues
         PROVE  Requests(d, t)' = Requests(d, t) /\ Answers(d, t)' = Answers(d, t)
    BY <1>10, SameQueues
  <1>11. CASE \/ NoStop(c) \/ Drained(c) \/ EnterNothing(c) \/ CommandStop(c)
              \/ InterruptClient(c) \/ Exit(c)
              \/ CommandInit(c) \/ CommandList(c) \/ CommandToAll(c) \/ CommandToOne(c)
    <2>1. UNCHANGED queues
      BY <1>11 DEF NoStop, Drained, EnterNothing, CommandStop, InterruptClient, Exit,
                   CommandInit, CommandList, CommandToAll, CommandToOne, Command
    <2>2. \/ /\ pc[c] \in {"check", "drain", "command"}
             /\ pc'[c] \in {"check", "drain", "command", "stop", "send_init", "send_list",
                            "send_all", "send_one"}
          \/ pc'[c] \in {"bye", "gone"}
      BY <1>1, <1>11 DEF NoStop, Drained, EnterNothing, CommandStop, InterruptClient, Exit,
                         CommandInit, CommandList, CommandToAll, CommandToOne, Command, Goes,
                         ClientsType
    <2> QED
      BY <1>3, <1>8, <1>9, <1>10, <2>1, <2>2 DEF Leaving
  <1>12. CASE NoticeStop(c)
    <2> DEFINE i == OldestOf(queues[c], STOP)
               x == queues[c][i]
    <2>1. /\ OfType(queues[c], STOP) # {} /\ msgrcv(c, i)
          /\ pc[c] = "check" /\ pc'[c] = "ack"
      BY <1>1, <1>12 DEF NoticeStop, Goes, ClientsType
    <2>2. i \in 1 .. Len(queues[c]) /\ x.mtype = STOP
      BY <1>1, <1>2, <2>1, Taken
    <2> HIDE DEF i
    <2>3. Requests(d, t)' = Requests(d, t) /\ Answers(d, t)' = Answers(d, t)
      BY <1>1, <1>2, <1>3, <1>7, <2>1, <2>2, TakenEffect
    <2> QED
      BY <1>3, <1>8, <1>9, <2>1, <2>3
  <1>13. CASE PrintMessage(c)
    <2> DEFINE x == queues[c][1]
    <2>1. /\ 1 \in 1 .. Len(queues[c]) /\ msgrcv(c, 1)
          /\ pc[c] = "drain" /\ pc'[c] = "drain"
      BY <1>1, <1>2, <1>13, EmptySeq DEF PrintMessage, Goes, QueuesTyped, ClientsType
    <2>2. /\ Requests(d, t)' = Requests(d, t)
          /\ Answers(d, t)' = Answers(d, t)
               - (IF c = d /\ x.mtype = t /\ x.sender_id = Server THEN 1 ELSE 0)
      BY <1>1, <1>2, <1>3, <2>1, TakenEffect
    <2> HIDE DEF x
    <2>3. Answers(d, t)' <= Answers(d, t) /\ (d # c => Answers(d, t)' = Answers(d, t))
      BY <1>3, <2>2
    <2> QED
      BY <1>3, <1>8, <1>9, <2>1, <2>2, <2>3
  <1>14. ASSUME NEW u \in {INIT, LIST}, OfType(queues[c], u) # {},
                msgrcv(c, OldestOf(queues[c], u)), pc[c] = Wait(u), pc'[c] = "check"
         PROVE  FlowOf(d, t)'
    <2> DEFINE i == OldestOf(queues[c], u)
               x == queues[c][i]
    <2>1. i \in 1 .. Len(queues[c]) /\ x.mtype = u /\ msgrcv(c, i)
      BY <1>1, <1>2, <1>14, Taken
    <2> HIDE DEF i
    <2>2. /\ Requests(d, t)' = Requests(d, t) /\ x \in Message /\ Held(c, x)
          /\ Answers(d, t)' = Answers(d, t)
               - (IF c = d /\ x.mtype = t /\ x.sender_id = Server THEN 1 ELSE 0)
      BY <1>1, <1>2, <1>3, <2>1, TakenEffect
    <2> HIDE DEF x
    <2>3. CASE d # c
      <3>1. Flow(d, t)' = Flow(d, t)
        BY <1>3, <1>9, <2>2, <2>3
      <3> QED
        BY <1>1, <1>2, <1>4, <1>5, <1>6, <2>3, <3>1, FlowKept
    <2>4. CASE d = c
      <3>1. x.sender_id = Server
        BY <1>1, <2>1, <2>2, <2>4 DEF Contents
      <3>2. Flow(d, t)' = 0
        <4>1. CASE t = u
          <5>1. Answers(d, t) >= 1
            BY <1>1, <1>2, <2>1, <2>2, <2>4, <3>1, <4>1, FlowType
          <5>2. Answers(d, t)' = Answers(d, t) - 1
            BY <2>1, <2>2, <2>4, <3>1, <4>1
          <5>3. Flow(d, t)' = Flow(d, t) - 1 /\ Flow(d, t) >= 1
            BY <1>3, <1>6, <2>2, <5>1, <5>2 DEF Flow
          <5> QED
            BY <1>1, <1>4, <5>3 DEF FlowOf
        <4>2. CASE t # u
          <5>1. pc[d] # Wait(t) /\ ~Leaving(d)
            BY <1>14, <2>4, <4>2 DEF Wait, Leaving
          <5>2. Flow(d, t)' = Flow(d, t)
            BY <1>3, <1>9, <2>1, <2>2, <4>2
          <5> QED
            BY <1>1, <5>1, <5>2 DEF FlowOf
        <4> QED
          BY <4>1, <4>2
      <3> QED
        BY <1>7, <1>14, <2>4, <3>2 DEF FlowOf
    <2> QED
      BY <2>3, <2>4
  <1>15. CASE AwaitInit(c) \/ AwaitList(c)
    <2>1. \E u \in {INIT, LIST} : /\ OfType(queues[c], u) # {}
                                  /\ msgrcv(c, OldestOf(queues[c], u))
                                  /\ pc[c] = Wait(u) /\ pc'[c] = "check"
      BY <1>1, <1>15 DEF AwaitInit, AwaitList, Goes, ClientsType, Wait, INIT, LIST
    <2> QED
      BY <1>14, <2>1
  <1>16. CASE SendAck(c) \/ SayGoodbye(c)
    <2>1. /\ \/ UNCHANGED queues
             \/ \E x \in Message : /\ x.sender_id = c /\ x.mtype = STOP
                                   /\ msgsnd(server_id[c], x)
          /\ \/ pc[c] = "ack" /\ pc'[c] = "command"
             \/ pc'[c] \in {"remove_after_stop", "remove"}
      BY <1>1, <1>16, GoodbyeSays
    <2>2. CASE UNCHANGED queues
      BY <1>3, <1>8, <1>9, <1>10, <2>1, <2>2 DEF Leaving
    <2>3. ASSUME NEW x \in Message, x.sender_id = c, x.mtype = STOP, msgsnd(server_id[c], x)
          PROVE  FlowOf(d, t)'
      <3>1. Requests(d, t)' = Requests(d, t) /\ Answers(d, t)' = Answers(d, t)
        BY <1>1, <1>3, <1>7, <2>3, SentAway
      <3> QED
        BY <1>3, <1>8, <1>9, <2>1, <3>1 DEF Leaving
    <2> QED
      BY <2>1, <2>2, <2>3
  <1>17. CASE SendInit(c) \/ SendList(c) \/ SendToAll(c) \/ SendToOne(c)
    <2>1. PICK x \in Message, u \in {INIT, LIST} :
             /\ x.sender_id = c /\ msgsnd(server_id[c], x)
             /\ \/ /\ x.mtype = u
                   /\ pc[c] = IF u = INIT THEN "send_init" ELSE "send_list"
                   /\ pc'[c] = IF NoQueue(server_id[c]) THEN "check" ELSE Wait(u)
                \/ /\ x.mtype \in {TO_ALL, TO_ONE} /\ pc'[c] = "check"
                   /\ pc[c] \in {"send_all", "send_one"}
      BY <1>1, <1>17, RequestSays
    <2>2. /\ Requests(d, t)' = Requests(d, t)
                + (IF /\ server_id[c] = Server /\ Server \notin removed
                      /\ x.mtype = t /\ c = d THEN 1 ELSE 0)
          /\ Answers(d, t)' = Answers(d, t)
      BY <1>1, <2>1, SentAway
    <2>3. Flow(d, t)' = Flow(d, t)
                + (IF /\ server_id[c] = Server /\ Server \notin removed
                      /\ x.mtype = t /\ c = d THEN 1 ELSE 0)
      BY <1>3, <1>6, <2>2 DEF Flow
    <2>4. CASE d # c
      BY <1>1, <1>2, <1>4, <1>5, <1>6, <2>3, <2>4, FlowKept
    <2>5. CASE d = c
      <3>1. Flow(d, t) = 0
        BY <1>1, <1>7, <2>1, <2>5 DEF FlowOf, Leaving
      <3>2. server_id' = server_id /\ Nobody # Server
        BY <1>1, <1>17, RequestSays DEF Assumptions, ChatAssumption
      <3>3. u # t => Wait(u) # Wait(t)
        BY DEF Wait
      <3>4. server_id[c] = Server => (NoQueue(server_id[c]) <=> Server \in removed)
        BY <3>2 DEF NoQueue
      <3>5. CASE x.mtype \in {TO_ALL, TO_ONE} /\ pc'[c] = "check"
        BY <1>6, <1>7, <2>3, <2>5, <3>1, <3>5 DEF FlowOf
      <3>6. CASE x.mtype = u /\ pc'[c] = IF NoQueue(server_id[c]) THEN "check" ELSE Wait(u)
        BY <1>6, <1>7, <2>3, <2>5, <3>1, <3>2, <3>3, <3>4, <3>6 DEF FlowOf
      <3> QED
        BY <2>1, <3>5, <3>6
    <2> QED
      BY <2>4, <2>5
  <1>18. CASE RemoveQueue(c)
    <2>1. queues' = [queues EXCEPT ![c] = <<>>] /\ Leaving(c)'
          /\ pc'[c] \notin {"await_init", "await_list"}
      BY <1>1, <1>18 DEF RemoveQueue, Goes, Leaving, ClientsType
    <2>2. /\ Requests(d, t)' = Requests(d, t)
          /\ Answers(d, t)' = IF c = d THEN 0 ELSE Answers(d, t)
      BY <1>1, <1>2, <2>1, EmptiedEffect
    <2> QED
      BY <1>3, <1>8, <1>9, <2>1, <2>2
  <1> QED
    BY <1>11, <1>12, <1>13, <1>15, <1>16, <1>17, <1>18 DEF ClientStep, UserCommand

\* Who is connected was told so by the server.
LEMMA ClientConnects ==
    ASSUME Assumptions, Inv, NEW c \in Client,
           ClientStep(c) \/ UserCommand(c) \/ InterruptClient(c),
           NEW d \in Unnamed, connected'[d]
    PROVE  server_id'[d] = Server
  <1>1. /\ QueuesTyped /\ ClientsType /\ TypeOK /\ Contents /\ StopInv /\ FlowOf(d, INIT)
        /\ connected[d] => server_id[d] = Server
        /\ c \in Process /\ d \in Client
    BY TypeParts DEF Inv, QueueInv, FlowInv, Unnamed, Process
  <1>2. CASE d # c
    BY <1>1, <1>2, ClientMoves
  <1>3. CASE d = c /\ AwaitInit(c)
    <2> DEFINE i == OldestOf(queues[c], INIT)
               x == queues[c][i]
    <2>1. /\ OfType(queues[c], INIT) # {} /\ msgrcv(c, i)
          /\ pc[c] = "await_init" /\ server_id' = server_id
      BY <1>3 DEF AwaitInit, Goes
    <2>2. i \in 1 .. Len(queues[c]) /\ x.mtype = INIT
      BY <1>1, <2>1, Taken
    <2> HIDE DEF i
    <2>3. x \in Message /\ Held(c, x)
      BY <1>1, <2>1, <2>2, TakenEffect
    <2> HIDE DEF x
    <2>4. x.sender_id = Server
      BY <1>1, <1>3, <2>2, <2>3 DEF Contents
    <2>5. /\ Requests(c, INIT) \in Nat /\ Answers(c, INIT) \in Nat
          /\ Answers(c, INIT) >= 1
      BY <1>1, <2>2, <2>3, <2>4, FlowType
    <2>6. Flow(c, INIT) # 0
      BY <2>5 DEF Flow
    <2> QED
      BY <1>1, <1>3, <2>1, <2>6 DEF FlowOf, Leaving
  <1>4. CASE d = c /\ ~AwaitInit(c)
    <2>1. connected'[c] => connected[c]
      BY <1>1, <1>4 DEF ClientStep, UserCommand, NoticeStop, SendAck, NoStop, PrintMessage,
         Drained, EnterNothing, SendInit, AwaitInit, SendList, AwaitList, SendToAll, SendToOne,
         SayGoodbye, RemoveQueue, Exit, CommandInit, CommandList, CommandToAll, CommandToOne,
         CommandStop, Command, Request, InterruptClient, clientRest, ClientsType
    <2>2. ~CommandInit(c)
      BY <1>4, <2>1 DEF CommandInit
    <2>3. pc[c] # "ack"
      BY <1>1, <1>4, <2>1 DEF StopInv, Dismissed
    <2>4. server_id' = server_id
      BY <1>1, <2>2, <2>3, ClientFrame
    <2> QED
      BY <1>1, <1>4, <2>1, <2>4
  <1> QED
    BY <1>2, <1>3, <1>4

LEMMA NextFlow == ASSUME Assumptions, Inv, TypeOK', [Next]_vars PROVE FlowInv'
  <1>1. TypeOK /\ QueueInv /\ FlowInv
    BY DEF Inv
  <1>2. CASE UNCHANGED vars
    <2>1. UNCHANGED <<queues, srv, pc, connected, server_id, named>>
      BY <1>2 DEF vars, serverVars, clientVars
    <2> QED
      BY <1>1, <2>1, SameQueues DEF FlowInv, FlowOf, Flow, InHand, ServerUp, Leaving, Unnamed
  <1>3. CASE ServerStep \/ InterruptServer
    BY <1>1, <1>3, ServerFlow
  <1>4. CASE \E c \in Client : ClientStep(c) \/ UserCommand(c) \/ InterruptClient(c)
    <2>1. PICK c \in Client : ClientStep(c) \/ UserCommand(c) \/ InterruptClient(c)
      BY <1>4
    <2>2. \A d \in Unnamed' : d \in Unnamed
      BY <1>1, <2>1, ClientMoves DEF Unnamed
    <2>3. \A d \in Unnamed : \A t \in {INIT, LIST} : FlowOf(d, t)'
      BY <2>1, ClientFlow
    <2>4. \A d \in Unnamed : connected'[d] => server_id'[d] = Server
      BY <2>1, ClientConnects
    <2> QED
      BY <2>2, <2>3, <2>4 DEF FlowInv
  <1> QED
    BY <1>2, <1>3, <1>4 DEF Next

-----------------------------------------------------------------------------
(* The slots, what is said last, and who may still talk *)

Standing == SlotInv /\ StopInv /\ TalkInv

LEMMA InitStanding == ASSUME Assumptions, Init PROVE Standing
  <1>1. \A p \in Process : \A m : ~Held(p, m)
    <2> DEFINE none == <<>>
    <2>1. \A m : ~Contains(none, m)
      BY DEF Contains
    <2>2. queues = [p \in Process |-> none]
      BY DEF Init
    <2> HIDE DEF none
    <2> QED
      BY <2>1, <2>2 DEF Held
  <1>2. /\ srv.at = "receive" /\ (\A s \in Slot : client_list[s] = Free) /\ Listed = {}
        /\ \A c \in Client : pc[c] = "check" /\ ~connected[c]
    BY DEF Init, Idle, Listed
  <1>0. Ordinary \subseteq Client /\ Unnamed \subseteq Client /\ Free \notin Ordinary
    BY DEF Ordinary, Unnamed
  <1>3. \A c \in Client : ~Asked(c) /\ ~Accepted(c) /\ ~StopSent(c)
    BY <1>1, <1>2 DEF Asked, Accepted, StopSent, Process
  <1>4. \A c \in Client : ~Talks(c)
    BY <1>1, <1>2 DEF Talks, Talk, Init, Idle, Msg, INIT, LIST, TO_ALL, TO_ONE, STOP, Process
  <1> QED
    BY <1>0, <1>2, <1>3, <1>4 DEF Standing, SlotInv, OneSlotEach, StopInv, LastWord, TalkInv

\* Steps of the server that leave the slots alone: what is under way stays so,
\* or is lost when the server shuts down.
LEMMA ServerQuiet ==
    ASSUME Standing, UNCHANGED <<client_list, pc, connected, named>>, ServerUp' => ServerUp,
           \A c \in Unnamed :
                /\ ServerUp' /\ Asked(c)' => Asked(c)
                /\ Accepted(c)' => Accepted(c)
                /\ ServerUp' /\ Accepted(c) /\ ~Leaving(c) => Accepted(c)'
                /\ StopSent(c)' => StopSent(c)
                /\ ServerUp' /\ Talks(c)' => Talks(c)
                /\ Dismissed(c) => Dismissed(c)',
           LastWord'
    PROVE  Standing'
  <1>1. SlotInv /\ StopInv /\ TalkInv
    BY DEF Standing
  <1>2. /\ Listed' = Listed /\ (OneSlotEach' <=> OneSlotEach)
        /\ Ordinary' = Ordinary /\ Unnamed' = Unnamed /\ Ordinary \subseteq Unnamed
    BY DEF Listed, OneSlotEach, Ordinary, Unnamed
  <1>3. \A c : Leaving(c)' <=> Leaving(c)
    BY DEF Leaving
  <1>4. SlotInv'
    BY <1>1, <1>2, <1>3 DEF SlotInv
  <1>5. StopInv'
    BY <1>1, <1>2, <1>3 DEF StopInv
  <1>6. TalkInv'
    BY <1>1, <1>2 DEF TalkInv
  <1> QED
    BY <1>4, <1>5, <1>6 DEF Standing

LEMMA ReceiveStanding ==
    ASSUME Assumptions, Inv, Receive
    PROVE  Standing'
  <1> DEFINE i == LowestType(queues[Server])
             x == queues[Server][i]
  <1>1. QueuesTyped /\ srv \in SrvType /\ Standing
    BY TypeParts DEF Inv, Standing
  <1>2. /\ Server \in Process /\ Server \notin Client /\ Client \subseteq Process
        /\ Unnamed \subseteq Client /\ Ordinary \subseteq Unnamed
    BY DEF Unnamed, Ordinary, Process, Assumptions, ChatAssumption
  <1>3. /\ i \in 1 .. Len(queues[Server]) /\ msgrcv(Server, i)
        /\ \A m \in Message : Held(Server, m) => x.mtype <= m.mtype
        /\ srv' = [srv EXCEPT !.at = "react", !.msg = x] /\ srv.at = "receive"
        /\ UNCHANGED <<client_list, pc, connected, named>>
    BY <1>1, TakenFirst DEF Receive, clientVars
  <1> HIDE DEF i
  <1>4. /\ x \in Message /\ Held(Server, x)
        /\ \A q \in Process, m \in Message :
              /\ Held(q, m)' => Held(q, m)
              /\ Held(q, m) => Held(q, m)' \/ (q = Server /\ m = x)
    BY <1>1, <1>2, <1>3, TakenEffect
  <1> HIDE DEF x
  <1>5. srv'.at = "react" /\ srv'.msg = x
    BY <1>1, <1>3 DEF SrvType
  <1>6. ServerUp /\ ServerUp'
    BY <1>3, <1>5 DEF ServerUp
  <1>7. ASSUME NEW c \in Unnamed
        PROVE  /\ Asked(c)' => Asked(c)
               /\ Accepted(c)' <=> Accepted(c)
               /\ StopSent(c)' => StopSent(c)
               /\ Talks(c)' => Talks(c)
    <2>1. (Asked(c)' => Asked(c)) /\ (StopSent(c)' => StopSent(c))
      BY <1>2, <1>4, <1>5 DEF Asked, StopSent
    <2>2. Accepted(c)' <=> Accepted(c)
      BY <1>2, <1>3, <1>4, <1>5 DEF Accepted
    <2>3. Talks(c)' => Talks(c)
      BY <1>2, <1>4, <1>5 DEF Talks
    <2> QED
      BY <2>1, <2>2, <2>3
  <1>8. LastWord'
    <2>1. ASSUME x.mtype = STOP, NEW m \in Message, Held(Server, m)
          PROVE  m.mtype = STOP
      BY <1>3, <2>1, MessageFields DEF STOP
    <2> QED
      BY <1>2, <1>4, <1>5, <2>1 DEF LastWord
  <1> QED
    BY <1>1, <1>3, <1>6, <1>7, <1>8, ServerQuiet DEF Dismissed

\* A step of the server that touches neither queues nor slots.
LEMMA QuietStanding ==
    ASSUME Assumptions, Inv,
           \/ Refuse \/ ReactList \/ ReactToOne \/ ReactToAll \/ BroadcastDone
           \/ NoMoreStops \/ InterruptServer
    PROVE  Standing'
  <1>1. QueuesTyped /\ srv \in SrvType /\ Standing /\ Contents /\ AtHand
    BY TypeParts DEF Inv, Standing, QueueInv
  <1>2. /\ Server \in Process /\ Server \notin Client /\ Client \subseteq Process
        /\ Unnamed \subseteq Client /\ Ordinary \subseteq Unnamed
    BY DEF Unnamed, Ordinary, Process, Assumptions, ChatAssumption
  <1>3. UNCHANGED <<queues, client_list, pc, connected, named>>
    BY DEF Refuse, ReactList, ReactToOne, ReactToAll, BroadcastDone, NoMoreStops,
           InterruptServer, clientVars
  <1>4. \A q, m : Held(q, m)' <=> Held(q, m)
    BY <1>3, SameQueues
  <1>5. /\ srv'.at \in {"receive", "send", "broadcast", "drain", "close"}
        /\ srv.at \in {"receive", "send"} => srv'.at = "drain"
        /\ srv.at = "drain" => srv'.at = "close"
        /\ srv.at \notin {"close", "await_stop", "closed"}
        /\ srv'.at = "send" =>
              \/ srv'.msg = srv.msg /\ srv.at = "react" /\ srv.msg.mtype = TO_ONE
              \/ /\ srv'.msg.sender_id = Server /\ srv'.msg.mtext # "connected"
                 /\ srv.at = "react"
        /\ srv'.at = "broadcast" =>
              srv'.msg = srv.msg /\ srv.at = "react" /\ srv.msg.mtype = TO_ALL
        /\ srv.at = "broadcast" => srv'.at \in {"receive", "drain"}
        /\ srv'.at = "receive" => srv.at = "broadcast"
    <2>1. CASE Refuse \/ ReactList
      <3>1. \E t, text : /\ srv' = [srv EXCEPT !.at = "send",
                              !.msg = Msg(t, text, Server, srv.msg.sender_id)]
                         /\ text # "connected" /\ srv.at = "react"
        BY <2>1 DEF Refuse, ReactList, Answer, Reacting
      <3>2. /\ srv'.at = "send" /\ srv.at = "react"
            /\ srv'.msg.sender_id = Server /\ srv'.msg.mtext # "connected"
        BY <1>1, <3>1 DEF Msg, SrvType
      <3> QED
        BY <3>2
    <2>2. CASE ReactToOne \/ ReactToAll
      BY <1>1, <2>2 DEF ReactToOne, ReactToAll, ServerGoes, Reacting, SrvType
    <2>3. CASE BroadcastDone \/ InterruptServer
      BY <1>1, <2>3 DEF BroadcastDone, InterruptServer, ServerDone, Idle
    <2>4. CASE NoMoreStops
      BY <1>1, <2>4 DEF NoMoreStops, SrvType
    <2> QED
      BY <2>1, <2>2, <2>3, <2>4
  <1>6. (ServerUp' => ServerUp) /\ LastWord'
    BY <1>5 DEF ServerUp, LastWord
  <1>7. ASSUME NEW c \in Unnamed
        PROVE  /\ Asked(c)' => Asked(c)
               /\ Accepted(c)' => Accepted(c)
               /\ ServerUp' /\ Accepted(c) => Accepted(c)'
               /\ StopSent(c)' => StopSent(c)
               /\ ServerUp' /\ Talks(c)' => Talks(c)
               /\ Dismissed(c) => Dismissed(c)'
    <2>1. (Asked(c)' => Asked(c)) /\ (StopSent(c)' => StopSent(c))
      BY <1>4, <1>5 DEF Asked, StopSent
    <2>2. Accepted(c)' => Accepted(c)
      BY <1>4, <1>5 DEF Accepted, INIT, TO_ONE
    <2>3. ServerUp' /\ Accepted(c) => Accepted(c)'
      BY <1>4, <1>5 DEF Accepted, ServerUp
    <2>4. ServerUp' /\ Talks(c)' => Talks(c)
      BY <1>2, <1>4, <1>5 DEF Talks, ServerUp
    <2>5. Dismissed(c) => Dismissed(c)'
      BY <1>3, <1>4, <1>6 DEF Dismissed
    <2> QED
      BY <2>1, <2>2, <2>3, <2>4, <2>5
  <1> QED
    BY <1>1, <1>3, <1>6, <1>7, ServerQuiet

LEMMA SendStanding ==
    ASSUME Assumptions, Inv, Send
    PROVE  Standing'
  <1> DEFINE p == srv.msg.send_to
             x == srv.msg
  <1>1. /\ QueuesTyped /\ srv \in SrvType /\ Standing /\ Contents /\ AtHand /\ RemovedInv
        /\ x \in Message
    BY TypeParts DEF Inv, Standing, QueueInv, SrvType
  <1>2. /\ Server \in Process /\ Server \notin Client /\ Client \subseteq Process
        /\ Unnamed \subseteq Client /\ Ordinary \subseteq Unnamed
    BY DEF Unnamed, Ordinary, Process, Assumptions, ChatAssumption
  <1>3. /\ srv.at = "send" /\ srv'.at = "receive" /\ msgsnd(p, x)
        /\ p \in Process \cup {Nobody}
        /\ UNCHANGED <<client_list, pc, connected, named>>
    BY <1>1, MessageFields DEF Send, ServerDone, Idle, clientVars
  <1>4. \A q \in Process, m \in Message :
            Held(q, m)' <=> Held(q, m) \/ (~NoQueue(p) /\ q = p /\ m = x)
    BY <1>1, <1>3, SentEffect
  <1>5. /\ ServerUp /\ ServerUp' /\ LastWord'
        /\ \A c \in Client : p = c /\ NoQueue(p) => Leaving(c)
    <2>1. \A c \in Client : c # Nobody
      BY DEF Assumptions, ChatAssumption
    <2> QED
      BY <1>1, <1>3, <2>1 DEF ServerUp, LastWord, RemovedInv, NoQueue
  <1>6. \/ x.mtype \in {INIT, LIST} /\ p \in Client
        \/ x.mtype = TO_ONE
    BY <1>1, <1>3 DEF AtHand
  <1>7. x.mtype # STOP /\ (p = Server => x.mtype = TO_ONE)
    BY <1>2, <1>6 DEF INIT, LIST, TO_ONE, STOP
  <1>8. ASSUME NEW c \in Unnamed
        PROVE  /\ Asked(c)' => Asked(c)
               /\ Accepted(c)' => Accepted(c)
               /\ Accepted(c) /\ ~Leaving(c) => Accepted(c)'
               /\ StopSent(c)' => StopSent(c)
               /\ Talks(c)' => Talks(c)
    <2>1. (Asked(c)' => Asked(c)) /\ (StopSent(c)' => StopSent(c))
      BY <1>2, <1>3, <1>4, <1>7 DEF Asked, StopSent, INIT, TO_ONE
    <2>2. Accepted(c)' => Accepted(c)
      BY <1>2, <1>3, <1>4 DEF Accepted
    <2>3. Accepted(c) /\ ~Leaving(c) => Accepted(c)'
      BY <1>1, <1>2, <1>3, <1>4, <1>5 DEF Accepted
    <2>4. Talks(c)' => Talks(c)
      BY <1>2, <1>3, <1>4 DEF Talks
    <2> QED
      BY <2>1, <2>2, <2>3, <2>4
  <1> QED
    BY <1>1, <1>3, <1>5, <1>8, ServerQuiet DEF Dismissed

LEMMA BroadcastStanding ==
    ASSUME Assumptions, Inv, Broadcast
    PROVE  Standing'
  <1> DEFINE d == client_list[srv.i]
             x == [srv.msg EXCEPT !.send_to = d]
  <1>1. /\ QueuesTyped /\ srv \in SrvType /\ Standing /\ Contents /\ AtHand
        /\ ListType /\ srv.msg \in Message
    BY TypeParts DEF Inv, Standing, QueueInv, SrvType
  <1>2. /\ Server \in Process /\ Server \notin Client /\ Client \subseteq Process
        /\ Unnamed \subseteq Client /\ Ordinary \subseteq Unnamed
    BY DEF Unnamed, Ordinary, Process, Assumptions, ChatAssumption
  <1>3. /\ srv.at = "broadcast" /\ srv'.at = "broadcast" /\ srv'.msg = srv.msg
        /\ UNCHANGED <<client_list, pc, connected, named>>
    BY <1>1 DEF Broadcast, SrvType, clientVars
  <1>4. ServerUp /\ ServerUp' /\ LastWord'
    BY <1>3 DEF ServerUp, LastWord
  <1>5. /\ \A m \in Message : Held(Server, m)' <=> Held(Server, m)
        /\ \A c \in Client, m \in Message :
              Held(c, m)' <=> Held(c, m) \/ (Held(c, m)' /\ m.mtype = TO_ALL)
    <2>1. CASE UNCHANGED queues
      BY <2>1, SameQueues
    <2>2. CASE d \notin {Free, srv.msg.sender_id}
      <3>1. d \in Client /\ x \in Message /\ x.mtype = TO_ALL /\ msgsnd(d, x)
        BY <1>1, <1>2, <1>3, <2>2 DEF Broadcast, ListType, Message, AtHand
      <3> HIDE DEF x, d
      <3> QED
        BY <1>1, <1>2, <3>1, SentEffect
    <2> QED
      BY <2>1, <2>2 DEF Broadcast
  <1>6. ASSUME NEW c \in Unnamed
        PROVE  /\ Asked(c)' => Asked(c)
               /\ Accepted(c)' <=> Accepted(c)
               /\ StopSent(c)' => StopSent(c)
               /\ Talks(c)' => Talks(c)
    <2>1. (Asked(c)' => Asked(c)) /\ (StopSent(c)' => StopSent(c))
      BY <1>3, <1>5 DEF Asked, StopSent
    <2>2. Accepted(c)' <=> Accepted(c)
      BY <1>2, <1>3, <1>5 DEF Accepted, INIT, TO_ALL
    <2>3. Talks(c)' => Talks(c)
      BY <1>3, <1>5 DEF Talks
    <2> QED
      BY <2>1, <2>2, <2>3
  <1> QED
    BY <1>1, <1>3, <1>4, <1>6, ServerQuiet DEF Dismissed

LEMMA CloseStanding ==
    ASSUME Assumptions, Inv, CloseSlot \/ CloseServer
    PROVE  Standing'
  <1>1. /\ QueuesTyped /\ srv \in SrvType /\ Standing /\ Contents /\ AtHand /\ ListType
    BY TypeParts DEF Inv, Standing, QueueInv
  <1>2. /\ Server \in Process /\ Server \notin Client /\ Client \subseteq Process
        /\ Unnamed \subseteq Client /\ Ordinary \subseteq Unnamed
    BY DEF Unnamed, Ordinary, Process, Assumptions, ChatAssumption
  <1>3. /\ srv.at = "close" /\ srv'.at \in {"close", "await_stop", "closed"}
        /\ UNCHANGED <<client_list, pc, connected, named>>
    BY <1>1 DEF CloseSlot, CloseServer, SrvType, Idle, clientVars
  <1>4. ~ServerUp /\ ~ServerUp' /\ LastWord'
    BY <1>3 DEF ServerUp, LastWord
  <1>5. /\ \A m \in Message : Held(Server, m)' => Held(Server, m)
        /\ \A c \in Client, m \in Message : Held(c, m)' => Held(c, m) \/ m.mtype = STOP
    <2>1. CASE UNCHANGED queues
      BY <2>1, SameQueues
    <2>2. CASE CloseSlot /\ queues' # queues
      <3> DEFINE d == client_list[srv.i]
                 x == Msg(STOP, "text", Server, d)
      <3>1. d \in Client /\ msgsnd(d, x)
        BY <1>1, <2>2 DEF CloseSlot, ListType
      <3>2. x \in Message /\ x.mtype = STOP
        BY <1>2, <3>1, MsgType
      <3> HIDE DEF x, d
      <3> QED
        BY <1>1, <1>2, <3>1, <3>2, SentEffect
    <2>3. CASE CloseServer
      BY <1>1, <1>2, <2>3, EmptiedEffect DEF CloseServer
    <2> QED
      BY <2>1, <2>2, <2>3
  <1>6. ASSUME NEW c \in Unnamed
        PROVE  /\ Accepted(c)' => Accepted(c)
               /\ StopSent(c)' => StopSent(c)
               /\ Dismissed(c) => Dismissed(c)'
    <2>1. Accepted(c)' => Accepted(c)
      BY <1>2, <1>3, <1>5 DEF Accepted, INIT, STOP
    <2>2. StopSent(c)' => StopSent(c)
      BY <1>3, <1>5 DEF StopSent
    <2>3. Dismissed(c) => Dismissed(c)'
      BY <1>2, <1>3, <1>4, <1>5 DEF Dismissed, INIT, STOP
    <2> QED
      BY <2>1, <2>2, <2>3
  <1> QED
    BY <1>1, <1>3, <1>4, <1>6, ServerQuiet

\* A client is put on the list: it was not there, and this was its only request.
LEMMA AdmitStanding ==
    ASSUME Assumptions, Inv, Admit
    PROVE  Standing'
  <1>1. /\ QueuesTyped /\ srv \in SrvType /\ SlotInv /\ StopInv /\ TalkInv /\ ListType
        /\ Contents /\ AtHand /\ FlowInv
    BY TypeParts DEF Inv, QueueInv
  <1>2. /\ Server \in Process /\ Server \notin Client /\ Client \subseteq Process
        /\ Unnamed \subseteq Client /\ Ordinary \subseteq Unnamed
    BY DEF Unnamed, Ordinary, Process, Assumptions, ChatAssumption
  <1>3. PICK d \in Client :
           /\ d = srv.msg.sender_id /\ srv.at = "react" /\ srv.msg.mtype = INIT
           /\ UNCHANGED <<queues, pc, connected, named>>
           /\ FreeSlots # {} /\ client_list' = [client_list EXCEPT ![Min(FreeSlots)] = d]
           /\ srv' = [srv EXCEPT !.at = "send", !.msg = Msg(INIT, "connected", Server, d)]
    BY <1>1 DEF Admit, Reacting, Answer, AtHand, clientVars
  <1>4. /\ srv'.at = "send" /\ srv'.msg.mtype = INIT /\ srv'.msg.mtext = "connected"
        /\ srv'.msg.send_to = d
    BY <1>1, <1>3 DEF SrvType, Msg
  <1>5. /\ ServerUp /\ ServerUp' /\ \A c \in Client : Leaving(c)' <=> Leaving(c)
        /\ Unnamed' = Unnamed /\ Ordinary' = Ordinary
    BY <1>3, <1>4 DEF ServerUp, Leaving, Unnamed, Ordinary
  <1>6. \A q, m : Held(q, m)' <=> Held(q, m)
    BY <1>3, SameQueues
  <1>7. Asked(d)
    BY <1>3 DEF Asked
  <1>8. d \in Ordinary => d \notin Listed
    BY <1>1, <1>3, <1>5, <1>7 DEF SlotInv
  <1>9. OneSlotEach' /\ \A c \in Ordinary : c \in Listed' <=> c \in Listed \/ c = d
    BY <1>1, <1>3, <1>8, EnlistEffect DEF SlotInv
  <1>10. d \in Unnamed => ~Asked(d)'
    <2> SUFFICES ASSUME d \in Unnamed PROVE ~Asked(d)'
      OBVIOUS
    <2>1. InHand(d, INIT)
      BY <1>3 DEF InHand
    <2>2. Requests(d, INIT) \in Nat /\ Answers(d, INIT) \in Nat
      BY <1>1, <1>3, FlowType
    <2>3. Flow(d, INIT) \in {0, 1}
      BY <1>1, <1>3 DEF FlowInv, FlowOf
    <2>4. ~(Requests(d, INIT) >= 1)
      BY <2>1, <2>2, <2>3 DEF Flow
    <2>5. \A m \in Message : ~(Held(Server, m) /\ m.mtype = INIT /\ m.sender_id = d)
      BY <1>1, <1>3, <2>4, FlowType
    <2> QED
      BY <1>4, <1>6, <2>5 DEF Asked
  <1>11. ASSUME NEW c \in Unnamed
         PROVE  /\ Asked(c)' => Asked(c)
                /\ Accepted(c)' <=> Accepted(c) \/ c = d
                /\ StopSent(c)' => StopSent(c)
                /\ Talks(c)' => Talks(c)
    <2>1. (Asked(c)' => Asked(c)) /\ (StopSent(c)' => StopSent(c))
      BY <1>4, <1>6 DEF Asked, StopSent
    <2>2. Accepted(c)' <=> Accepted(c) \/ c = d
      BY <1>3, <1>4, <1>6 DEF Accepted
    <2>3. Talks(c)' => Talks(c)
      BY <1>4, <1>6 DEF Talks, Talk, INIT, LIST, TO_ALL, TO_ONE
    <2> QED
      BY <2>1, <2>2, <2>3
  <1>12. SlotInv'
    BY <1>1, <1>2, <1>3, <1>5, <1>9, <1>10, <1>11 DEF SlotInv
  <1>13. StopInv'
    <2>1. LastWord'
      BY <1>4 DEF LastWord
    <2> QED
      BY <1>1, <1>2, <1>3, <1>5, <1>11, <2>1 DEF StopInv, Dismissed
  <1>14. TalkInv'
    BY <1>1, <1>2, <1>5, <1>9, <1>11 DEF TalkInv
  <1> QED
    BY <1>12, <1>13, <1>14 DEF Standing

\* The server is up when it comes to a STOP: its sender is on the way out, and
\* has nothing else in the queue.
LEMMA ReactStopStanding ==
    ASSUME Assumptions, Inv, ReactStop
    PROVE  Standing'
  <1>1. /\ QueuesTyped /\ srv \in SrvType /\ SlotInv /\ StopInv /\ TalkInv /\ ListType
        /\ Contents /\ AtHand
    BY TypeParts DEF Inv, QueueInv
  <1>2. /\ Server \in Process /\ Server \notin Client /\ Client \subseteq Process
        /\ Unnamed \subseteq Client /\ Ordinary \subseteq Unnamed
    BY DEF Unnamed, Ordinary, Process, Assumptions, ChatAssumption
  <1>3. PICK d \in Client :
           /\ d = srv.msg.sender_id /\ srv.at = "react" /\ srv.msg.mtype = STOP /\ Unlist(d)
           /\ UNCHANGED <<queues, pc, connected, named>> /\ srv'.at = "receive"
    BY <1>1 DEF ReactStop, Reacting, ServerDone, Idle, AtHand, clientVars
  <1>4. /\ ServerUp /\ ServerUp' /\ \A c \in Client : Leaving(c)' <=> Leaving(c)
        /\ Unnamed' = Unnamed /\ Ordinary' = Ordinary
    BY <1>3 DEF ServerUp, Leaving, Unnamed, Ordinary
  <1>5. \A q, m : Held(q, m)' <=> Held(q, m)
    BY <1>3, SameQueues
  <1>6. OneSlotEach' /\ \A c \in Ordinary : c \in Listed' <=> c \in Listed /\ c # d
    BY <1>1, <1>3, UnlistEffect DEF SlotInv
  <1>7. d \in Unnamed => Leaving(d)
    BY <1>1, <1>3, <1>4 DEF StopInv, StopSent, Dismissed
  <1>8. d \in Unnamed => ~Talks(d)'
    BY <1>1, <1>3, <1>5 DEF StopInv, LastWord, Talks, Talk, LIST, TO_ALL, TO_ONE, STOP
  <1>9. ASSUME NEW c \in Unnamed
        PROVE  /\ Asked(c)' => Asked(c)
               /\ Accepted(c)' <=> Accepted(c)
               /\ StopSent(c)' => StopSent(c)
               /\ Talks(c)' => Talks(c)
    <2>1. (Asked(c)' => Asked(c)) /\ (StopSent(c)' => StopSent(c))
      BY <1>3, <1>5 DEF Asked, StopSent
    <2>2. Accepted(c)' <=> Accepted(c)
      BY <1>3, <1>5 DEF Accepted
    <2>3. Talks(c)' => Talks(c)
      BY <1>3, <1>5 DEF Talks
    <2> QED
      BY <2>1, <2>2, <2>3
  <1>10. SlotInv'
    BY <1>1, <1>2, <1>3, <1>4, <1>6, <1>7, <1>9 DEF SlotInv
  <1>11. StopInv'
    <2>1. LastWord'
      BY <1>3 DEF LastWord
    <2> QED
      BY <1>1, <1>2, <1>3, <1>4, <1>9, <2>1 DEF StopInv, Dismissed
  <1>12. TalkInv'
    BY <1>1, <1>2, <1>4, <1>6, <1>8, <1>9 DEF TalkInv
  <1> QED
    BY <1>10, <1>11, <1>12 DEF Standing

\* When the server shuts down, a STOP may also come from who was told to stop.
LEMMA TakeStopStanding ==
    ASSUME Assumptions, Inv, DrainStop \/ AwaitStop
    PROVE  Standing'
  <1> DEFINE i == OldestOf(queues[Server], STOP)
             x == queues[Server][i]
  <1>1. /\ QueuesTyped /\ srv \in SrvType /\ SlotInv /\ StopInv /\ TalkInv /\ ListType
        /\ Contents
    BY TypeParts DEF Inv, QueueInv
  <1>2. /\ Server \in Process /\ Server \notin Client /\ Client \subseteq Process
        /\ Unnamed \subseteq Client /\ Ordinary \subseteq Unnamed
    BY DEF Unnamed, Ordinary, Process, Assumptions, ChatAssumption
  <1>3. /\ OfType(queues[Server], STOP) # {} /\ msgrcv(Server, i) /\ Unlist(x.sender_id)
        /\ srv.at \in {"drain", "await_stop"} /\ srv'.at \in {"drain", "close"}
        /\ UNCHANGED <<pc, connected, named>>
    BY <1>1 DEF DrainStop, AwaitStop, TakeStop, SrvType, clientVars
  <1>4. i \in 1 .. Len(queues[Server]) /\ x.mtype = STOP
    BY <1>1, <1>2, <1>3, Taken
  <1> HIDE DEF i
  <1>5. /\ x \in Message /\ Held(Server, x)
        /\ \A q \in Process, m \in Message :
              /\ Held(q, m)' => Held(q, m)
              /\ Held(q, m) => Held(q, m)' \/ (q = Server /\ m = x)
    BY <1>1, <1>2, <1>3, <1>4, TakenEffect
  <1> HIDE DEF x
  <1>6. PICK d \in Client : d = x.sender_id
    BY <1>1, <1>5 DEF Contents
  <1>7. OneSlotEach' /\ \A c \in Ordinary : c \in Listed' <=> c \in Listed /\ c # d
    BY <1>1, <1>3, <1>6, UnlistEffect DEF SlotInv
  <1>8. /\ ~ServerUp' /\ LastWord' /\ \A c \in Client : Leaving(c)' <=> Leaving(c)
        /\ Unnamed' = Unnamed /\ Ordinary' = Ordinary
    BY <1>3 DEF ServerUp, LastWord, Leaving, Unnamed, Ordinary
  <1>9. d \in Unnamed => Leaving(d) \/ Dismissed(d)
    BY <1>1, <1>4, <1>5, <1>6 DEF StopInv, StopSent
  <1>10. d \in Unnamed => Leaving(d) \/ (~connected[d] /\ ~Accepted(d)')
    BY <1>2, <1>3, <1>5, <1>6, <1>9 DEF Dismissed, Accepted
  <1>11. ASSUME NEW c \in Unnamed
         PROVE  /\ Accepted(c)' => Accepted(c)
                /\ StopSent(c)' => StopSent(c)
                /\ Dismissed(c) => Dismissed(c)'
    BY <1>2, <1>3, <1>5, <1>8 DEF Accepted, StopSent, Dismissed
  <1>12. SlotInv'
    BY <1>1, <1>2, <1>3, <1>7, <1>8, <1>10, <1>11 DEF SlotInv
  <1>13. StopInv'
    BY <1>1, <1>2, <1>3, <1>8, <1>11 DEF StopInv
  <1>14. TalkInv'
    BY <1>8 DEF TalkInv
  <1> QED
    BY <1>12, <1>13, <1>14 DEF Standing

LEMMA ServerStanding ==
    ASSUME Assumptions, Inv, ServerStep \/ InterruptServer
    PROVE  Standing'
  BY ReceiveStanding, QuietStanding, SendStanding, BroadcastStanding, CloseStanding,
     AdmitStanding, ReactStopStanding, TakeStopStanding DEF ServerStep

\* A client that takes messages out of its queue, or only moves on.
LEMMA ClientTakes ==
    ASSUME Assumptions, Inv, NEW c \in Client,
           ClientStep(c) \/ UserCommand(c) \/ InterruptClient(c),
           \A m \in Message : Held(c, m)' => Held(c, m),
           \A q \in Process \ {c}, m \in Message : Held(q, m)' <=> Held(q, m),
           c \in Unnamed /\ ServerUp /\ ~Leaving(c)' /\ (connected[c] \/ Accepted(c))
                => connected'[c] \/ Accepted(c)',
           c \in Unnamed /\ ~Leaving(c)' /\ connected'[c] => connected[c] \/ Accepted(c),
           c \in Unnamed /\ Dismissed(c) => Dismissed(c)',
           c \in Unnamed /\ pc'[c] = "ack" => Dismissed(c)'
    PROVE  Standing'
  <1>1. /\ TypeOK /\ SlotInv /\ StopInv /\ TalkInv
        /\ Server \in Process \ {c} /\ Client \subseteq Process
    BY DEF Inv, Process, Assumptions, ChatAssumption
  <1>2. /\ UNCHANGED <<client_list, srv>> /\ named \subseteq named'
        /\ \A d \in Client \ {c} : pc'[d] = pc[d] /\ connected'[d] = connected[d]
        /\ Leaving(c) => Leaving(c)'
    BY <1>1, ClientMoves DEF serverVars
  <1>3. /\ ServerUp' <=> ServerUp
        /\ Listed' = Listed /\ (OneSlotEach => OneSlotEach')
        /\ Ordinary' \subseteq Ordinary /\ Unnamed' \subseteq Unnamed
        /\ Ordinary \subseteq Unnamed /\ Unnamed \subseteq Client
    BY <1>2 DEF ServerUp, Listed, OneSlotEach, Ordinary, Unnamed
  <1>4. ASSUME NEW d \in Client
        PROVE  /\ Asked(d)' <=> Asked(d)
               /\ StopSent(d)' <=> StopSent(d)
               /\ Talks(d)' <=> Talks(d)
               /\ Accepted(d)' => Accepted(d)
    BY <1>1, <1>2 DEF Asked, StopSent, Talks, Accepted
  <1>5. ASSUME NEW d \in Client \ {c}
        PROVE  /\ Accepted(d)' <=> Accepted(d)
               /\ Dismissed(d)' <=> Dismissed(d)
               /\ Leaving(d)' <=> Leaving(d)
    BY <1>1, <1>2, <1>3 DEF Accepted, Dismissed, Leaving
  <1>6. SlotInv'
    <2>1. ASSUME NEW d \in Ordinary \ {c}
          PROVE  /\ ServerUp' /\ Asked(d)' => d \notin Listed'
                 /\ ServerUp' /\ d \in Listed' /\ ~Leaving(d)' => connected'[d] \/ Accepted(d)'
                 /\ ~Leaving(d)' /\ (connected'[d] \/ Accepted(d)') => d \in Listed'
      BY <1>1, <1>2, <1>3, <1>4, <1>5 DEF SlotInv
    <2>2. ASSUME c \in Ordinary
          PROVE  /\ ServerUp' /\ Asked(c)' => c \notin Listed'
                 /\ ServerUp' /\ c \in Listed' /\ ~Leaving(c)' => connected'[c] \/ Accepted(c)'
                 /\ ~Leaving(c)' /\ (connected'[c] \/ Accepted(c)') => c \in Listed'
      BY <1>1, <1>2, <1>3, <1>4, <2>2 DEF SlotInv
    <2>3. \A d \in Ordinary' : d \in Ordinary \ {c} \/ (d = c /\ c \in Ordinary)
      BY <1>3
    <2> QED
      BY <1>1, <1>3, <2>1, <2>2, <2>3 DEF SlotInv
  <1>7. StopInv'
    <2>1. LastWord'
      BY <1>1, <1>2, <1>3 DEF StopInv, LastWord
    <2>2. \A d \in Unnamed : StopSent(d)' => Leaving(d)' \/ Dismissed(d)'
      BY <1>1, <1>2, <1>3, <1>4, <1>5 DEF StopInv
    <2>3. \A d \in Unnamed : pc'[d] = "ack" => Dismissed(d)'
      BY <1>1, <1>2, <1>3, <1>5 DEF StopInv
    <2> QED
      BY <1>3, <2>1, <2>2, <2>3 DEF StopInv
  <1>8. TalkInv'
    BY <1>1, <1>3, <1>4 DEF TalkInv
  <1> QED
    BY <1>6, <1>7, <1>8 DEF Standing

\* A client that sends: INIT when it has no slot, LIST and the rest when it has one,
\* and nothing after STOP.
LEMMA ClientSays ==
    ASSUME Assumptions, Inv, NEW c \in Client,
           ClientStep(c) \/ UserCommand(c) \/ InterruptClient(c),
           NEW x \in Message, x.sender_id = c, msgsnd(server_id[c], x),
           connected' = connected, named' = named, pc'[c] # "ack",
           c \in Ordinary /\ x.mtype = INIT /\ ServerUp => c \notin Listed,
           c \in Ordinary /\ x.mtype \in Talk /\ ServerUp => c \in Listed,
           c \in Unnamed /\ x.mtype = STOP => Leaving(c)' \/ Dismissed(c),
           x.mtype # STOP => ~Leaving(c)
    PROVE  Standing'
  <1>1. /\ TypeOK /\ QueueInv /\ SlotInv /\ StopInv /\ TalkInv
        /\ Unnamed \subseteq Client /\ Ordinary \subseteq Unnamed
        /\ Unnamed' = Unnamed /\ Ordinary' = Ordinary
    BY DEF Inv, Unnamed, Ordinary
  <1>2. /\ UNCHANGED <<client_list, srv>>
        /\ \A d \in Client \ {c} : pc'[d] = pc[d]
        /\ Leaving(c) => Leaving(c)'
    BY <1>1, ClientMoves DEF serverVars
  <1>3. (ServerUp' <=> ServerUp) /\ Listed' = Listed /\ (OneSlotEach' <=> OneSlotEach)
    BY <1>1, <1>2 DEF ServerUp, Listed, OneSlotEach
  <1>4. /\ \A m \in Message : /\ Held(Server, m)' => Held(Server, m) \/ m = x
                              /\ Held(Server, m) => Held(Server, m)'
        /\ \A q \in Unnamed, m \in Message : Held(q, m)' <=> Held(q, m)
    BY <1>1, SentAway
  <1>5. ASSUME NEW d \in Unnamed
        PROVE  /\ Asked(d)' => Asked(d) \/ (d = c /\ x.mtype = INIT)
               /\ StopSent(d)' => StopSent(d) \/ (d = c /\ x.mtype = STOP)
               /\ Talks(d)' => Talks(d) \/ (d = c /\ x.mtype \in Talk)
               /\ Accepted(d)' <=> Accepted(d)
               /\ Dismissed(d)' <=> Dismissed(d)
               /\ d # c => (Leaving(d)' <=> Leaving(d))
    <2>1. /\ Asked(d)' => Asked(d) \/ (d = c /\ x.mtype = INIT)
          /\ StopSent(d)' => StopSent(d) \/ (d = c /\ x.mtype = STOP)
      BY <1>2, <1>4 DEF Asked, StopSent
    <2>2. Talks(d)' => Talks(d) \/ (d = c /\ x.mtype \in Talk)
      BY <1>2, <1>4 DEF Talks
    <2>3. (Accepted(d)' <=> Accepted(d)) /\ (Dismissed(d)' <=> Dismissed(d))
      BY <1>2, <1>3, <1>4 DEF Accepted, Dismissed
    <2>4. d # c => (Leaving(d)' <=> Leaving(d))
      BY <1>1, <1>2 DEF Leaving
    <2> QED
      BY <2>1, <2>2, <2>3, <2>4
  <1>6. SlotInv'
    <2>1. ASSUME NEW d \in Ordinary
          PROVE  /\ ServerUp' /\ Asked(d)' => d \notin Listed'
                 /\ ServerUp' /\ d \in Listed' /\ ~Leaving(d)' => connected'[d] \/ Accepted(d)'
                 /\ ~Leaving(d)' /\ (connected'[d] \/ Accepted(d)') => d \in Listed'
      BY <1>1, <1>2, <1>3, <1>5 DEF SlotInv
    <2> QED
      BY <1>1, <1>3, <2>1 DEF SlotInv
  <1>7. StopInv'
    <2>1. LastWord'
      <3> SUFFICES ASSUME srv'.at = "react", srv'.msg.mtype = STOP,
                          srv'.msg.sender_id \in Unnamed, NEW m \in Message,
                          Held(Server, m)', m.sender_id = srv'.msg.sender_id
                   PROVE  m.mtype = STOP
        BY <1>1 DEF LastWord
      <3>1. srv' = srv
        BY <1>2
      <3>2. CASE Held(Server, m)
        BY <1>1, <3>1, <3>2 DEF StopInv, LastWord
      <3>3. CASE m = x
        <4>1. c \in Unnamed /\ StopSent(c) /\ ServerUp
          BY <3>1, <3>3 DEF StopSent, ServerUp
        <4>2. Leaving(c)
          BY <1>1, <4>1 DEF StopInv, Dismissed
        <4> QED
          BY <3>3, <4>2
      <3> QED
        BY <1>4, <3>2, <3>3
    <2>2. \A d \in Unnamed : StopSent(d)' => Leaving(d)' \/ Dismissed(d)'
      BY <1>1, <1>2, <1>5 DEF StopInv
    <2>3. \A d \in Unnamed : pc'[d] = "ack" => Dismissed(d)'
      BY <1>1, <1>2, <1>5 DEF StopInv
    <2> QED
      BY <1>1, <2>1, <2>2, <2>3 DEF StopInv
  <1>8. TalkInv'
    BY <1>1, <1>3, <1>5 DEF TalkInv
  <1> QED
    BY <1>6, <1>7, <1>8 DEF Standing

\* The news of a slot is the answer to a request that is still under way.
LEMMA AcceptedFlows ==
    ASSUME Assumptions, TypeOK, QueueInv, FlowInv, NEW c \in Unnamed,
           ~Leaving(c), pc[c] # "await_init"
    PROVE  ~Accepted(c) /\ \A m \in Message : Held(c, m) => m.mtype # INIT
  <1>1. QueuesTyped /\ Contents /\ FlowOf(c, INIT) /\ c \in Client
    BY TypeParts DEF QueueInv, FlowInv, Unnamed
  <1>2. Flow(c, INIT) = 0
    BY <1>1 DEF FlowOf, Wait
  <1>3. Requests(c, INIT) \in Nat /\ Answers(c, INIT) \in Nat
    BY <1>1, FlowType
  <1>4. Answers(c, INIT) = 0 /\ ~InHand(c, INIT)
    BY <1>2, <1>3 DEF Flow
  <1>5. \A m \in Message : ~(Held(c, m) /\ m.mtype = INIT /\ m.sender_id = Server)
    <2>1. ~(Answers(c, INIT) >= 1)
      BY <1>4
    <2> QED
      BY <1>1, <2>1, FlowType
  <1>6. \A m \in Message : Held(c, m) => m.mtype # INIT
    BY <1>1, <1>5 DEF Contents
  <1> QED
    BY <1>4, <1>6 DEF Accepted, InHand

LEMMA ClientStanding ==
    ASSUME Assumptions, Inv, NEW c \in Client,
           ClientStep(c) \/ UserCommand(c) \/ InterruptClient(c)
    PROVE  Standing'
  <1>1. /\ TypeOK /\ QueueInv /\ Contents /\ HostInv /\ FlowInv /\ SlotInv /\ StopInv
        /\ QueuesTyped /\ ClientsType
    BY TypeParts DEF Inv, QueueInv
  <1>2. /\ Server \in Process /\ c \in Process /\ Client \subseteq Process
        /\ Server \notin Client /\ Ordinary \subseteq Unnamed
    BY DEF Process, Ordinary, Unnamed, Assumptions, ChatAssumption
  <1>3. UNCHANGED srv
    BY <1>1, ClientMoves DEF serverVars
  <1>4. CASE UNCHANGED <<queues, connected>> /\ pc'[c] # "ack"
    <2>1. \A q, m : Held(q, m)' <=> Held(q, m)
      BY <1>4, SameQueues
    <2>2. (Accepted(c)' <=> Accepted(c)) /\ (Dismissed(c)' <=> Dismissed(c))
      BY <1>3, <1>4, <2>1 DEF Accepted, Dismissed, ServerUp
    <2> QED
      BY <1>1, <1>4, <2>1, <2>2, ClientTakes, Zenon
  <1>5. CASE \/ NoStop(c) \/ Drained(c) \/ EnterNothing(c) \/ UserCommand(c)
             \/ InterruptClient(c) \/ Exit(c)
    <2>1. UNCHANGED <<queues, connected>> /\ pc'[c] # "ack"
      BY <1>1, <1>5 DEF NoStop, Drained, EnterNothing, Exit, UserCommand, CommandInit,
                        CommandList, CommandToAll, CommandToOne, CommandStop, Command,
                        InterruptClient, Goes, clientRest, ClientsType
    <2> QED
      BY <1>4, <2>1
  <1>6. CASE NoticeStop(c)
    <2> DEFINE i == OldestOf(queues[c], STOP)
               x == queues[c][i]
    <2>1. /\ OfType(queues[c], STOP) # {} /\ msgrcv(c, i)
          /\ pc[c] = "check" /\ pc'[c] = "ack" /\ connected'[c] = FALSE
      BY <1>1, <1>6 DEF NoticeStop, Goes, ClientsType
    <2>2. i \in 1 .. Len(queues[c]) /\ x.mtype = STOP
      BY <1>1, <1>2, <2>1, Taken
    <2> HIDE DEF i
    <2>3. /\ x \in Message /\ Held(c, x)
          /\ \A q \in Process, m \in Message :
                /\ Held(q, m)' => Held(q, m)
                /\ Held(q, m) => Held(q, m)' \/ (q = c /\ m = x)
      BY <1>1, <1>2, <2>1, <2>2, TakenEffect
    <2> HIDE DEF x
    <2>4. c \in Unnamed => ~ServerUp /\ ~ServerUp'
      BY <1>1, <1>3, <2>2, <2>3 DEF Contents, ServerUp
    <2>5. c \in Unnamed => \A m \in Message : Held(c, m) => m.mtype # INIT
      BY <1>1, <2>1, AcceptedFlows DEF Leaving
    <2>6. c \in Unnamed => Dismissed(c)'
      BY <1>2, <2>1, <2>3, <2>4, <2>5 DEF Dismissed
    <2> QED
      BY <1>2, <2>1, <2>3, <2>4, <2>6, ClientTakes
  <1>7. CASE PrintMessage(c)
    <2> DEFINE x == queues[c][1]
    <2>1. /\ 1 \in 1 .. Len(queues[c]) /\ msgrcv(c, 1)
          /\ pc[c] = "drain" /\ pc'[c] = "drain" /\ connected' = connected
      BY <1>1, <1>2, <1>7, EmptySeq DEF PrintMessage, Goes, QueuesTyped, ClientsType, clientRest
    <2>2. \A q \in Process, m \in Message :
              /\ Held(q, m)' => Held(q, m)
              /\ Held(q, m) => Held(q, m)' \/ (q = c /\ m = x)
      BY <1>1, <1>2, <2>1, TakenEffect
    <2> HIDE DEF x
    <2>3. c \in Unnamed => ~Accepted(c)
      BY <1>1, <2>1, AcceptedFlows DEF Leaving
    <2>4. Dismissed(c) => Dismissed(c)'
      BY <1>2, <1>3, <2>1, <2>2 DEF Dismissed, ServerUp
    <2> QED
      BY <1>2, <2>1, <2>2, <2>3, <2>4, ClientTakes
  <1>8. CASE AwaitInit(c)
    <2> DEFINE i == OldestOf(queues[c], INIT)
               x == queues[c][i]
    <2>1. /\ OfType(queues[c], INIT) # {} /\ msgrcv(c, i)
          /\ pc[c] = "await_init" /\ pc'[c] = "check"
          /\ connected'[c] = (x.mtext # "refused")
      BY <1>1, <1>8 DEF AwaitInit, Goes, ClientsType
    <2>2. i \in 1 .. Len(queues[c]) /\ x.mtype = INIT
      BY <1>1, <1>2, <2>1, Taken
    <2> HIDE DEF i
    <2>3. /\ x \in Message /\ Held(c, x)
          /\ \A q \in Process, m \in Message :
                /\ Held(q, m)' => Held(q, m)
                /\ Held(q, m) => Held(q, m)' \/ (q = c /\ m = x)
      BY <1>1, <1>2, <2>1, <2>2, TakenEffect
    <2> HIDE DEF x
    <2>4. c \in Unnamed => x.sender_id = Server /\ x.mtext \in {"connected", "refused"}
      BY <1>1, <2>2, <2>3 DEF Contents
    <2>5. c \in Unnamed => (Accepted(c) <=> x.mtext = "connected")
      <3> SUFFICES ASSUME c \in Unnamed
                   PROVE  Accepted(c) <=> x.mtext = "connected"
        OBVIOUS
      <3>1. Requests(c, INIT) \in Nat /\ Answers(c, INIT) \in Nat /\ Answers(c, INIT) >= 1
        BY <1>1, <2>2, <2>3, <2>4, FlowType
      <3>2. Answers(c, INIT) <= 1 /\ ~InHand(c, INIT)
        BY <1>1, <3>1 DEF FlowInv, FlowOf, Flow
      <3>3. \A m \in Message : Held(c, m) /\ m.mtype = INIT => m = x
        BY <1>1, <2>2, <2>3, <2>4, <3>2, FlowType DEF Contents
      <3> QED
        BY <2>2, <2>3, <3>2, <3>3 DEF Accepted, InHand
    <2>6. ~connected[c] /\ ~Dismissed(c)
      BY <1>1, <2>1, <2>2, <2>3 DEF HostInv, Dismissed
    <2> QED
      BY <1>2, <2>1, <2>3, <2>4, <2>5, <2>6, ClientTakes
  <1>9. CASE AwaitList(c)
    <2> DEFINE i == OldestOf(queues[c], LIST)
               x == queues[c][i]
    <2>1. /\ OfType(queues[c], LIST) # {} /\ msgrcv(c, i)
          /\ pc[c] = "await_list" /\ pc'[c] = "check" /\ connected' = connected
      BY <1>1, <1>9 DEF AwaitList, Goes, ClientsType, clientRest
    <2>2. i \in 1 .. Len(queues[c])
      BY <1>1, <1>2, <2>1, Taken
    <2> HIDE DEF i
    <2>3. \A q \in Process, m \in Message :
              /\ Held(q, m)' => Held(q, m)
              /\ Held(q, m) => Held(q, m)' \/ (q = c /\ m = x)
      BY <1>1, <1>2, <2>1, <2>2, TakenEffect
    <2> HIDE DEF x
    <2>4. c \in Unnamed => ~Accepted(c)
      BY <1>1, <2>1, AcceptedFlows DEF Leaving
    <2>5. Dismissed(c) => Dismissed(c)'
      BY <1>2, <1>3, <2>1, <2>3 DEF Dismissed, ServerUp
    <2> QED
      BY <1>2, <2>1, <2>3, <2>4, <2>5, ClientTakes
  <1>10. CASE SendAck(c) \/ SayGoodbye(c)
    <2>1. /\ connected' = connected /\ named' = named
          /\ \/ pc[c] = "ack" /\ pc'[c] = "command"
             \/ pc'[c] \in {"remove_after_stop", "remove"}
          /\ \/ UNCHANGED queues
             \/ \E x \in Message : /\ x.sender_id = c /\ x.mtype = STOP
                                   /\ msgsnd(server_id[c], x)
      BY <1>1, <1>10, GoodbyeSays
    <2>2. c \in Unnamed => Leaving(c)' \/ Dismissed(c)
      BY <1>1, <2>1 DEF StopInv, Leaving
    <2>3. CASE UNCHANGED queues
      BY <1>4, <2>1, <2>3
    <2>4. ASSUME NEW x \in Message, x.sender_id = c, x.mtype = STOP, msgsnd(server_id[c], x)
          PROVE  Standing'
      <3>1. x.mtype # INIT /\ x.mtype \notin Talk
        BY <2>4 DEF INIT, LIST, TO_ALL, TO_ONE, STOP, Talk
      <3> QED
        BY <2>1, <2>2, <2>4, <3>1, ClientSays
    <2> QED
      BY <2>1, <2>3, <2>4
  <1>11. CASE SendInit(c) \/ SendList(c) \/ SendToAll(c) \/ SendToOne(c)
    <2>1. PICK x \in Message, u \in {INIT, LIST} :
             /\ x.sender_id = c /\ msgsnd(server_id[c], x)
             /\ \/ /\ x.mtype = u
                   /\ pc[c] = IF u = INIT THEN "send_init" ELSE "send_list"
                   /\ pc'[c] = IF NoQueue(server_id[c]) THEN "check" ELSE Wait(u)
                \/ /\ x.mtype \in {TO_ALL, TO_ONE} /\ pc'[c] = "check"
                   /\ pc[c] \in {"send_all", "send_one"}
      BY <1>1, <1>11, RequestSays
    <2>2. connected' = connected /\ named' = named
      BY <1>1, <1>11, RequestSays
    <2>3. /\ pc[c] \in {"send_init", "send_list", "send_all", "send_one"}
          /\ pc'[c] # "ack" /\ x.mtype # STOP
          /\ x.mtype = INIT => pc[c] = "send_init"
          /\ x.mtype \in Talk => pc[c] # "send_init"
      BY <2>1 DEF Wait, Talk, INIT, LIST, TO_ALL, TO_ONE, STOP
    <2>4. ~Leaving(c)
      BY <2>3 DEF Leaving
    <2>5. c \in Ordinary /\ pc[c] = "send_init" /\ ServerUp => c \notin Listed
      BY <1>1, <1>2, <2>4, AcceptedFlows DEF SlotInv, HostInv
    <2>6. c \in Ordinary /\ pc[c] \in {"send_list", "send_all", "send_one"} => c \in Listed
      BY <1>1, <2>4 DEF SlotInv, HostInv
    <2> QED
      BY <2>1, <2>2, <2>3, <2>4, <2>5, <2>6, ClientSays
  <1>12. CASE RemoveQueue(c)
    <2>1. /\ queues' = [queues EXCEPT ![c] = <<>>] /\ connected' = connected
          /\ pc'[c] \in {"gone", "exit"}
      BY <1>1, <1>12 DEF RemoveQueue, Goes, ClientsType
    <2>2. /\ \A m \in Message : ~Held(c, m)'
          /\ \A q \in Process \ {c}, m \in Message : Held(q, m)' <=> Held(q, m)
      BY <1>1, <1>2, <2>1, EmptiedEffect
    <2>3. Leaving(c)' /\ (Dismissed(c) => Dismissed(c)')
      BY <1>3, <2>1, <2>2 DEF Leaving, Dismissed, ServerUp
    <2> QED
      BY <2>1, <2>2, <2>3, ClientTakes
  <1> QED
    BY <1>5, <1>6, <1>7, <1>8, <1>9, <1>10, <1>11, <1>12 DEF ClientStep

-----------------------------------------------------------------------------
(* The theorems *)

LEMMA InitInv == ASSUME Assumptions, Init PROVE Inv
  BY InitType, InitQueue, InitFlow, InitStanding DEF Inv, Standing

LEMMA NextInv == ASSUME Assumptions, Inv, [Next]_vars PROVE Inv'
  <1>1. TypeOK' /\ QueueInv'
    BY NextType, NextQueue DEF Inv
  <1>2. FlowInv'
    BY <1>1, NextFlow
  <1>3. Standing'
    <2>1. CASE UNCHANGED vars
      <3>1. UNCHANGED <<queues, client_list, srv, pc, connected, named>>
        BY <2>1 DEF vars, serverVars, clientVars
      <3>2. \A q, m : Held(q, m)' <=> Held(q, m)
        BY <3>1, SameQueues
      <3>3. \A c \in Unnamed : /\ (Asked(c)' <=> Asked(c)) /\ (Accepted(c)' <=> Accepted(c))
                               /\ (StopSent(c)' <=> StopSent(c)) /\ (Talks(c)' <=> Talks(c))
                               /\ (Dismissed(c)' <=> Dismissed(c))
        BY <3>1, <3>2 DEF Asked, Accepted, StopSent, Talks, Dismissed, ServerUp
      <3>4. Standing /\ (ServerUp' <=> ServerUp)
        BY <3>1 DEF Inv, Standing, ServerUp
      <3>5. LastWord'
        BY <3>1, <3>2, <3>4 DEF Standing, StopInv, LastWord, Unnamed
      <3> QED
        BY <3>1, <3>3, <3>4, <3>5, ServerQuiet
    <2>2. CASE ServerStep \/ InterruptServer
      BY <2>2, ServerStanding
    <2>3. CASE \E c \in Client : ClientStep(c) \/ UserCommand(c) \/ InterruptClient(c)
      BY <2>3, ClientStanding
    <2> QED
      BY <2>1, <2>2, <2>3 DEF Next
  <1> QED
    BY <1>1, <1>2, <1>3 DEF Inv, Standing

\* All the theorems below follow from this invariant (server.c, client.c).
THEOREM InvHolds == Spec => []Inv
  <1> USE ChatAssumption, QueueSizeAssumption DEF Assumptions
  <1>1. Init => Inv
    BY InitInv
  <1>2. Inv /\ [Next]_vars => Inv'
    BY NextInv
  <1> QED
    BY <1>1, <1>2, PTL DEF Spec

\* The variables of the chat keep their types.
THEOREM TypeCorrect == Spec => []TypeOK
  BY InvHolds, PTL DEF Inv

\* No client has two slots, and a connected client has one until it takes its
\* leave, shut-down included (client.c 100-101, server.c 26-52), whatever ids users
\* type after INIT: only of a client whose own id was typed nothing is said, nor of
\* one whose id is 0.
THEOREM ConnectedAlwaysListed == Spec => []ConnectedIsListed
  <1>1. Inv => ConnectedIsListed
    BY DEF Inv, SlotInv, OneSlotEach, ConnectedIsListed
  <1> QED
    BY <1>1, InvHolds, PTL

\* Whose LIST, 2ALL or 2ONE the server handles is on the list (server.c 141).
THEOREM HandlesOnlyTheListed == Spec => []HandlesOnlyListed
  <1>1. Inv => HandlesOnlyListed
    <2> SUFFICES ASSUME Inv, srv.at \in {"react", "broadcast"},
                        srv.msg.mtype \in {LIST, TO_ALL, TO_ONE},
                        srv.msg.sender_id \in Ordinary
                 PROVE  srv.msg.sender_id \in Listed
      BY DEF HandlesOnlyListed
    <2>1. Talks(srv.msg.sender_id) /\ ServerUp
      BY DEF Talks, Talk, ServerUp
    <2> QED
      BY <2>1 DEF Inv, TalkInv
  <1> QED
    BY <1>1, InvHolds, PTL

\* The requests and answers the property counts are those the proof counts.
LEMMA InFlightFlow ==
    ASSUME QueuesTyped, NEW c \in Client, NEW t
    PROVE  InFlight(c, t) = Flow(c, t)
  <1>1. queues[Server] \in Seq(Message) /\ queues[c] \in Seq(Message)
    BY DEF QueuesTyped, Process
  <1>2. From(c, t, Server) = Places(queues[Server], MessagesOf(c, t))
    BY <1>1 DEF From, OfType, Places, MessagesOf
  <1>3. From(Server, t, c) = Places(queues[c], MessagesOf(Server, t))
    BY <1>1 DEF From, OfType, Places, MessagesOf
  <1> QED
    BY <1>2, <1>3 DEF InFlight, Flow, Requests, Answers, HowMany, InHand

\* Every answer to INIT or LIST meets the one client that waits for it, if it asked
\* the server, and none meets a client that asked somebody else (client.c 85-101,
\* 115-123).
THEOREM AnswersMeetRequests == Spec => []AnswerMeetsRequest
  <1>1. Inv => AnswerMeetsRequest
    <2> SUFFICES ASSUME Inv, NEW c \in Ordinary
                 PROVE  /\ pc[c] = "await_init" =>
                              InFlight(c, INIT) \in (IF server_id[c] # Server THEN {0}
                                                     ELSE IF ServerUp THEN {1} ELSE {0, 1})
                        /\ pc[c] = "await_list" =>
                              InFlight(c, LIST) \in (IF ServerUp THEN {1} ELSE {0, 1})
                        /\ ~Leaving(c) /\ pc[c] # "await_init" => InFlight(c, INIT) = 0
                        /\ ~Leaving(c) /\ pc[c] # "await_list" => InFlight(c, LIST) = 0
      BY DEF AnswerMeetsRequest
    <2>1. c \in Client /\ c \in Unnamed
      BY DEF Ordinary, Unnamed
    <2>2. /\ InFlight(c, INIT) = Flow(c, INIT) /\ InFlight(c, LIST) = Flow(c, LIST)
          /\ FlowOf(c, INIT) /\ FlowOf(c, LIST)
          /\ (connected[c] => server_id[c] = Server)
      BY <2>1, InFlightFlow, TypeParts DEF Inv, FlowInv
    <2>3. pc[c] = "await_list" => connected[c]
      BY <2>1 DEF Inv, QueueInv, HostInv
    <2>4. Wait(INIT) = "await_init" /\ Wait(LIST) = "await_list"
      BY DEF Wait, INIT, LIST
    <2> QED
      BY <2>2, <2>3, <2>4 DEF FlowOf, Leaving
  <1> QED
    BY <1>1, InvHolds, PTL

\* While the server waits on an empty queue, every answer that a client which asked
\* it waits for is in the client's queue (server.c 141-147, client.c 90-101,
\* 115-123).  Of clients that wait while the server is at work, or that asked
\* somebody else, nothing is said.
THEOREM IdleServerNeverKeeps == Spec => []IdleServerKeepsNobody
  <1>1. Inv /\ AnswerMeetsRequest => IdleServerKeepsNobody
    <2> SUFFICES ASSUME Inv, AnswerMeetsRequest, srv.at = "receive",
                        queues[Server] = <<>>, NEW c \in Ordinary, NEW t,
                        InFlight(c, t) = 1, OfType(queues[c], t) = {}
                 PROVE  FALSE
      BY DEF IdleServerKeepsNobody, WaitsForAnswer, AnswerMeetsRequest, ServerUp
    <2>1. From(c, t, Server) = {} /\ From(Server, t, c) = {}
      BY DEF From, OfType
    <2> QED
      BY <2>1, FS_EmptySet DEF InFlight
  <1> QED
    BY <1>1, InvHolds, AnswersMeetRequests, PTL

-----------------------------------------------------------------------------
(* The slots of those who are gone *)

\* Where a client has said goodbye.
Parted == {"remove_after_stop", "remove", "exit", "gone"}

\* A client that knows it is connected asks no more, and has said goodbye before
\* it goes: the server still has its STOP, or has freed its slot.
OwedInv ==
    \A c \in Ordinary : ServerUp /\ connected[c] =>
        /\ ~Asked(c)
        /\ pc[c] \in Parted /\ c \in Listed => StopSent(c)

LEMMA InitOwed == ASSUME Init PROVE OwedInv
  BY DEF Init, OwedInv, Ordinary

\* While the server is up, a client comes to the list by asking, and leaves it,
\* or its STOP leaves the server, only by that STOP.
LEMMA ServerKeepsWord ==
    ASSUME Assumptions, Inv, ServerStep \/ InterruptServer, ServerUp', NEW c \in Ordinary
    PROVE  /\ ServerUp /\ UNCHANGED <<pc, connected, named>>
           /\ Asked(c)' => Asked(c)
           /\ c \in Listed' => c \in Listed \/ Asked(c)
           /\ StopSent(c) /\ c \in Listed' => StopSent(c)'
  <1>1. /\ QueuesTyped /\ srv \in SrvType /\ ListType /\ Contents /\ AtHand /\ OneSlotEach
        /\ Server \in Process /\ Server \notin Client /\ Client \subseteq Process
        /\ c \in Client
    BY TypeParts DEF Inv, QueueInv, SlotInv, Ordinary, Process, Assumptions, ChatAssumption
  <1>2. CASE Receive
    <2> DEFINE i == LowestType(queues[Server])
               x == queues[Server][i]
    <2>1. /\ i \in 1 .. Len(queues[Server]) /\ msgrcv(Server, i) /\ srv.at = "receive"
          /\ srv' = [srv EXCEPT !.at = "react", !.msg = x]
          /\ UNCHANGED <<client_list, pc, connected, named>>
      BY <1>1, <1>2, TakenFirst DEF Receive, clientVars
    <2> HIDE DEF i
    <2>2. /\ x \in Message /\ Held(Server, x)
          /\ \A m \in Message : /\ Held(Server, m)' => Held(Server, m)
                                /\ Held(Server, m) => Held(Server, m)' \/ m = x
      BY <1>1, <2>1, TakenEffect
    <2> HIDE DEF x
    <2>3. srv'.at = "react" /\ srv'.msg = x /\ Listed' = Listed
      BY <1>1, <2>1 DEF SrvType, Listed
    <2> QED
      BY <2>1, <2>2, <2>3 DEF Asked, StopSent, ServerUp
  <1>3. CASE Refuse \/ ReactList \/ ReactToOne \/ ReactToAll \/ BroadcastDone
    <2>1. /\ UNCHANGED <<queues, client_list, pc, connected, named>>
          /\ srv.at = "broadcast" \/ (srv.at = "react" /\ srv.msg.mtype # STOP)
      BY <1>3 DEF Refuse, ReactList, ReactToOne, ReactToAll, BroadcastDone, Reacting,
         ServerGoes, ServerDone, clientVars, INIT, LIST, TO_ONE, TO_ALL, STOP
    <2>2. srv'.at \in {"send", "broadcast", "receive"}
      <3>1. CASE Refuse \/ ReactList
        BY <1>1, <3>1 DEF Refuse, ReactList, Answer, SrvType
      <3>2. CASE ReactToOne \/ ReactToAll
        BY <1>1, <3>2 DEF ReactToOne, ReactToAll, ServerGoes, SrvType
      <3>3. CASE BroadcastDone
        BY <3>3 DEF BroadcastDone, ServerDone, Idle
      <3> QED
        BY <1>3, <3>1, <3>2, <3>3
    <2>3. Listed' = Listed
      BY <2>1 DEF Listed
    <2>4. \A q, m : Held(q, m)' <=> Held(q, m)
      BY <2>1, SameQueues
    <2> QED
      BY <2>1, <2>2, <2>3, <2>4 DEF Asked, StopSent, ServerUp
  <1>4. CASE Send
    <2> DEFINE p == srv.msg.send_to
               x == srv.msg
    <2>1. /\ srv.at = "send" /\ srv'.at = "receive" /\ msgsnd(p, x)
          /\ p \in Process \cup {Nobody}
          /\ x \in Message /\ UNCHANGED <<client_list, pc, connected, named>>
      BY <1>1, <1>4, MessageFields DEF Send, ServerDone, Idle, clientVars, SrvType
    <2>2. \A q \in Process, m \in Message :
              Held(q, m)' <=> Held(q, m) \/ (~NoQueue(p) /\ q = p /\ m = x)
      BY <1>1, <2>1, SentEffect
    <2>3. p = Server => x.mtype = TO_ONE
      BY <1>1, <2>1 DEF AtHand
    <2>4. Listed' = Listed
      BY <2>1 DEF Listed
    <2> QED
      BY <1>1, <2>1, <2>2, <2>3, <2>4 DEF Asked, StopSent, ServerUp, INIT, TO_ONE
  <1>5. CASE Broadcast
    <2> DEFINE d == client_list[srv.i]
               x == [srv.msg EXCEPT !.send_to = d]
    <2>1. /\ srv.at = "broadcast" /\ srv'.at = "broadcast" /\ srv'.msg = srv.msg
          /\ UNCHANGED <<client_list, pc, connected, named>> /\ srv.msg \in Message
      BY <1>1, <1>5 DEF Broadcast, SrvType, clientVars
    <2>2. \A m \in Message : Held(Server, m)' <=> Held(Server, m)
      <3>1. CASE UNCHANGED queues
        BY <3>1, SameQueues
      <3>2. CASE d \notin {Free, srv.msg.sender_id}
        <4>1. d \in Client /\ x \in Message /\ msgsnd(d, x)
          BY <1>1, <1>5, <2>1, <3>2 DEF Broadcast, ListType, Message
        <4> HIDE DEF x, d
        <4> QED
          BY <1>1, <4>1, SentEffect
      <3> QED
        BY <1>5, <3>1, <3>2 DEF Broadcast
    <2>3. Listed' = Listed
      BY <2>1 DEF Listed
    <2> QED
      BY <2>1, <2>2, <2>3 DEF Asked, StopSent, ServerUp
  <1>6. CASE Admit
    <2>1. PICK d \in Client :
             /\ d = srv.msg.sender_id /\ srv.at = "react" /\ srv.msg.mtype = INIT
             /\ UNCHANGED <<queues, pc, connected, named>> /\ srv'.at = "send"
             /\ FreeSlots # {} /\ client_list' = [client_list EXCEPT ![Min(FreeSlots)] = d]
      BY <1>1, <1>6 DEF Admit, Reacting, Answer, AtHand, clientVars, SrvType
    <2>2. (c \in Listed' <=> c \in Listed \/ c = d) /\ Asked(d)
      BY <1>1, <2>1, EnlistEffect DEF Asked
    <2>3. \A q, m : Held(q, m)' <=> Held(q, m)
      BY <2>1, SameQueues
    <2> QED
      BY <2>1, <2>2, <2>3 DEF Asked, StopSent, ServerUp, INIT, STOP
  <1>7. CASE ReactStop
    <2>1. PICK d \in Client :
             /\ d = srv.msg.sender_id /\ srv.at = "react" /\ srv.msg.mtype = STOP /\ Unlist(d)
             /\ UNCHANGED <<queues, pc, connected, named>> /\ srv'.at = "receive"
      BY <1>1, <1>7 DEF ReactStop, Reacting, ServerDone, Idle, AtHand, clientVars
    <2>2. c \in Listed' <=> c \in Listed /\ c # d
      BY <1>1, <2>1, UnlistEffect
    <2>3. \A q, m : Held(q, m)' <=> Held(q, m)
      BY <2>1, SameQueues
    <2> QED
      BY <2>1, <2>2, <2>3 DEF Asked, StopSent, ServerUp
  <1>8. ~(\/ InterruptServer \/ DrainStop \/ NoMoreStops \/ CloseSlot \/ AwaitStop
          \/ CloseServer)
    BY <1>1 DEF InterruptServer, DrainStop, NoMoreStops, CloseSlot, AwaitStop, TakeStop,
                CloseServer, Idle, ServerUp, SrvType
  <1> QED
    BY <1>2, <1>3, <1>4, <1>5, <1>6, <1>7, <1>8 DEF ServerStep

\* A client takes nothing out of the server's queue, and once it is leaving puts
\* nothing there but STOP.
LEMMA ClientKeepsWord ==
    ASSUME Assumptions, Inv, NEW c \in Client,
           ClientStep(c) \/ UserCommand(c) \/ InterruptClient(c), NEW m \in Message
    PROVE  /\ Held(Server, m) => Held(Server, m)'
           /\ Held(Server, m)' => \/ Held(Server, m)
                                  \/ /\ m.sender_id = c
                                     /\ m.mtype = STOP \/ ~Leaving(c)'
  <1>1. /\ QueuesTyped /\ ClientsType /\ TypeOK /\ QueueInv /\ c \in Process
        /\ Server \in Process \ {c} /\ Server \notin Client
    BY TypeParts DEF Inv, Process, Assumptions, ChatAssumption
  <1>2. CASE UNCHANGED queues
    BY <1>2, SameQueues
  <1>3. CASE \E i \in 1 .. Len(queues[c]) : msgrcv(c, i)
    BY <1>1, <1>3, TakenEffect
  <1>4. CASE queues' = [queues EXCEPT ![c] = <<>>]
    BY <1>1, <1>4, EmptiedEffect
  <1>5. ASSUME NEW x \in Message, x.sender_id = c, msgsnd(server_id[c], x)
        PROVE  Held(Server, m)' => Held(Server, m) \/ m = x
    BY <1>1, <1>5, SentAway
  <1>6. ASSUME NEW x \in Message, x.sender_id = c, msgsnd(server_id[c], x)
        PROVE  Held(Server, m) => Held(Server, m)'
    BY <1>1, <1>6, SentAway
  <1>7. CASE SendAck(c) \/ SayGoodbye(c)
    <2>1. \/ UNCHANGED queues
          \/ \E x \in Message : /\ x.sender_id = c /\ x.mtype = STOP
                                /\ msgsnd(server_id[c], x)
      BY <1>1, <1>7, GoodbyeSays
    <2> QED
      BY <1>2, <1>5, <1>6, <2>1
  <1>8. CASE SendInit(c) \/ SendList(c) \/ SendToAll(c) \/ SendToOne(c)
    <2>1. /\ \E x \in Message : x.sender_id = c /\ msgsnd(server_id[c], x)
          /\ pc'[c] \in {"check", "await_init", "await_list"}
      BY <1>1, <1>8, RequestSays DEF Wait
    <2>2. ~Leaving(c)'
      BY <2>1 DEF Leaving
    <2> QED
      BY <1>5, <1>6, <2>1, <2>2
  <1>9. CASE ~(\/ SendAck(c) \/ SayGoodbye(c)
               \/ SendInit(c) \/ SendList(c) \/ SendToAll(c) \/ SendToOne(c))
    <2>1. CASE NoticeStop(c) \/ AwaitInit(c) \/ AwaitList(c)
      <3>1. \E t : /\ OfType(queues[c], t) # {}
                   /\ msgrcv(c, OldestOf(queues[c], t))
        BY <2>1 DEF NoticeStop, AwaitInit, AwaitList
      <3> QED
        BY <1>1, <1>3, <3>1, Taken
    <2>2. CASE PrintMessage(c)
      <3>1. 1 \in 1 .. Len(queues[c]) /\ msgrcv(c, 1)
        BY <1>1, <2>2, EmptySeq DEF PrintMessage, QueuesTyped
      <3> QED
        BY <1>3, <3>1
    <2>3. CASE RemoveQueue(c)
      BY <1>4, <2>3 DEF RemoveQueue
    <2>4. CASE \/ NoStop(c) \/ Drained(c) \/ EnterNothing(c) \/ Exit(c) \/ InterruptClient(c)
               \/ UserCommand(c)
      BY <1>2, <2>4 DEF NoStop, Drained, EnterNothing, Exit, InterruptClient, UserCommand,
         CommandInit, CommandList, CommandToAll, CommandToOne, CommandStop, Command
    <2> QED
      BY <1>9, <2>1, <2>2, <2>3, <2>4 DEF ClientStep
  <1> QED
    BY <1>7, <1>8, <1>9

LEMMA ClientOwed ==
    ASSUME Assumptions, Inv, Inv', OwedInv, NEW c \in Client,
           ClientStep(c) \/ UserCommand(c) \/ InterruptClient(c)
    PROVE  OwedInv'
  <1>1. /\ UNCHANGED <<client_list, srv>> /\ pc[c] # "gone" /\ (Leaving(c) => Leaving(c)')
        /\ \A d \in Client \ {c} : pc'[d] = pc[d] /\ connected'[d] = connected[d]
        /\ named \subseteq named' /\ Ordinary' \subseteq Ordinary /\ Ordinary \subseteq Client
        /\ ClientsType /\ QueuesTyped /\ RemovedInv /\ FlowInv /\ TypeOK /\ QueueInv
        /\ Server \in Process /\ Server \notin Client /\ c \in Process /\ Nobody # Server
    BY ClientMoves, TypeParts
       DEF serverVars, Ordinary, Inv, QueueInv, Process, Assumptions, ChatAssumption
  <1>2. (ServerUp' <=> ServerUp) /\ Listed' = Listed
    BY <1>1 DEF ServerUp, Listed
  <1>3. \A d \in Client : StopSent(d) => StopSent(d)'
    BY <1>1, ClientKeepsWord DEF StopSent
  <1>4. ASSUME NEW d \in Ordinary' \ {c}, ServerUp', connected'[d]
        PROVE  /\ ~Asked(d)'
               /\ pc'[d] \in Parted /\ d \in Listed' => StopSent(d)'
    <2>1. Asked(d)' => Asked(d)
      BY <1>1, ClientKeepsWord DEF Asked
    <2> QED
      BY <1>1, <1>2, <1>3, <1>4, <2>1 DEF OwedInv
  <1>5. ASSUME c \in Ordinary', ServerUp', connected'[c]
        PROVE  /\ ~Asked(c)'
               /\ pc'[c] \in Parted /\ c \in Listed' => StopSent(c)'
    <2>1. CASE ~Leaving(c)'
      <3>1. pc'[c] \notin Parted /\ ~Asked(c)'
        BY <1>5, <2>1 DEF Leaving, Parted, Inv, SlotInv
      <3> QED
        BY <3>1
    <2>2. CASE Leaving(c)'
      <3>1. \/ SayGoodbye(c) \/ RemoveQueue(c) \/ Exit(c) \/ CommandStop(c)
            \/ InterruptClient(c)
        <4>1. ~(SendInit(c) \/ SendList(c) \/ SendToAll(c) \/ SendToOne(c))
          BY <1>1, <2>2, RequestSays DEF Leaving, Wait
        <4> QED
          BY <1>1, <2>2, <4>1 DEF ClientStep, UserCommand, NoticeStop, SendAck, NoStop,
             PrintMessage, Drained, EnterNothing, AwaitInit, AwaitList, CommandInit,
             CommandList, CommandToAll, CommandToOne, Command, Goes, Leaving, ClientsType
      <3>2. connected' = connected
        BY <3>1 DEF SayGoodbye, RemoveQueue, Exit, CommandStop, InterruptClient, clientRest
      <3>3. c \in Ordinary /\ ~Asked(c)
        BY <1>1, <1>2, <1>5, <3>2 DEF OwedInv
      <3>4. ~Asked(c)'
        BY <1>1, <2>2, <3>3, ClientKeepsWord DEF Asked, INIT, STOP
      <3>5. CASE RemoveQueue(c) \/ Exit(c)
        <4>1. pc[c] \in Parted
          BY <3>5 DEF RemoveQueue, Exit, Goes, Parted
        <4> QED
          BY <1>2, <1>3, <1>5, <3>2, <3>3, <3>4, <4>1 DEF OwedInv
      <3>6. CASE SayGoodbye(c)
        <4>1. PICK x \in Message : x = Msg(STOP, "text", c, server_id[c])
          BY <1>1, MsgType DEF ClientsType
        <4>2. x.sender_id = c /\ x.mtype = STOP
          BY <1>1, <4>1, MsgType DEF ClientsType
        <4>3. server_id[c] = Server /\ Server \notin removed
          BY <1>1, <1>2, <1>5, <3>2, <3>3
             DEF FlowInv, Ordinary, Unnamed, RemovedInv, ServerUp
        <4>4. msgsnd(server_id[c], x)
          BY <1>5, <3>2, <3>6, <4>1 DEF SayGoodbye
        <4>5. \A m \in Message : Held(Server, m)' <=> Held(Server, m) \/ m = x
          BY <1>1, <4>2, <4>3, <4>4, SentAway
        <4>6. Held(Server, x)'
          BY <4>5
        <4>7. StopSent(c)'
          BY <4>2, <4>6 DEF StopSent
        <4> QED
          BY <3>4, <4>7
      <3>7. CASE CommandStop(c) \/ InterruptClient(c)
        <4>1. pc'[c] \notin Parted
          BY <1>1, <3>7 DEF CommandStop, InterruptClient, Goes, Parted, ClientsType
        <4> QED
          BY <3>4, <4>1
      <3> QED
        BY <3>1, <3>5, <3>6, <3>7
    <2> QED
      BY <2>1, <2>2
  <1> QED
    BY <1>4, <1>5 DEF OwedInv

LEMMA NextOwed == ASSUME Assumptions, Inv, Inv', OwedInv, [Next]_vars PROVE OwedInv'
  <1>1. CASE ServerStep \/ InterruptServer
    <2> SUFFICES ASSUME NEW c \in Ordinary', ServerUp', connected'[c]
                 PROVE  /\ ~Asked(c)'
                        /\ pc'[c] \in Parted /\ c \in Listed' => StopSent(c)'
      BY DEF OwedInv
    <2>1. UNCHANGED clientVars
      BY <1>1 DEF ServerStep, InterruptServer, Receive, Admit, Refuse, ReactStop,
         ReactList, ReactToOne, ReactToAll, Send, Broadcast, BroadcastDone, DrainStop,
         NoMoreStops, CloseSlot, AwaitStop, CloseServer
    <2>2. c \in Ordinary
      BY <2>1 DEF Ordinary, clientVars
    <2> HIDE DEF Ordinary
    <2> QED
      BY <1>1, <2>2, ServerKeepsWord DEF OwedInv
  <1>2. CASE UNCHANGED vars
    <2>1. UNCHANGED <<queues, client_list, srv, pc, connected, named>>
      BY <1>2 DEF vars, serverVars, clientVars
    <2>2. \A q, m : Held(q, m)' <=> Held(q, m)
      BY <2>1, SameQueues
    <2> QED
      BY <2>1, <2>2 DEF OwedInv, Asked, StopSent, ServerUp, Listed, Ordinary
  <1>3. CASE \E c \in Client : ClientStep(c) \/ UserCommand(c) \/ InterruptClient(c)
    BY <1>3, ClientOwed
  <1> QED
    BY <1>1, <1>2, <1>3 DEF Next

\* A slot is lost for good only to a client that was gone before it knew it was
\* connected, whatever the number of slots and the size of the queues (client.c
\* 8-18, server.c 46-52).
THEOREM SlotOnlyLostUnaware == Spec => []SlotLostOnlyUnaware
  <1> USE ChatAssumption, QueueSizeAssumption DEF Assumptions
  <1>1. Init => OwedInv
    BY InitOwed
  <1>2. Inv /\ Inv' /\ OwedInv /\ [Next]_vars => OwedInv'
    BY NextOwed
  <1>3. Inv /\ OwedInv => SlotLostOnlyUnaware
    <2> SUFFICES ASSUME Inv, OwedInv, NEW c \in Ordinary, ServerUp, pc[c] = "gone",
                        c \in Listed, connected[c]
                 PROVE  StopUnderWay(c)
      BY DEF SlotLostOnlyUnaware
    <2>1. StopSent(c) /\ queues[Server] \in Seq(Message)
      BY TypeParts DEF OwedInv, Parted, Inv, QueuesTyped, Process
    <2> QED
      BY <2>1 DEF StopSent, StopUnderWay, From, OfType, Held, Contains
  <1> QED
    BY <1>1, <1>2, <1>3, InvHolds, PTL DEF Spec
=============================================================================
