----------------------------- MODULE SalonProofs -----------------------------
(***************************************************************************)
(* Theorems about the salon, for every number of hairdressers, clients,    *)
(* chairs and seats: the accounts of its semaphores; what is left behind;  *)
(* the shape of the shared queue, and that every hairdresser serves a      *)
(* client of their own who is waiting for it; that the salon implements    *)
(* the barbershop; and, with naps as long as the code's, that the last     *)
(* hairdresser to go home leaves nobody behind.                            *)
(***************************************************************************)
EXTENDS TimedSalon, FiniteSetTheorems, SequenceTheorems, TLAPS

\* A step of one process changes the number of processes at given labels by
\* what the process itself leaves and enters.
LEMMA CountStep ==
    ASSUME NEW S, IsFiniteSet(S), S \subseteq Client \cup Hairdresser, NEW L,
           TypeOK,
           NEW p \in Client \cup Hairdresser, NEW from, NEW to, Goes(p, from, to)
    PROVE  /\ Cardinality(At(S, L)) \in Nat
           /\ Cardinality(At(S, L)') \in Nat
           /\ Cardinality(At(S, L)') = Cardinality(At(S, L))
                + (IF p \in S /\ to \in L THEN 1 ELSE 0)
                - (IF p \in S /\ from \in L THEN 1 ELSE 0)
  <1> DEFINE A == At(S, L)
             B == At(S, L)'
  <1>1. A \subseteq S /\ B \subseteq S
    BY DEF At
  <1>2. IsFiniteSet(A) /\ IsFiniteSet(B) 
    BY <1>1, FS_Subset
  <1>3. Cardinality(A) \in Nat /\ Cardinality(B) \in Nat
    BY <1>2, FS_CardinalityType
  <1>4. pc[p] = from /\ pc' = [pc EXCEPT ![p] = to] /\ p \in DOMAIN pc
    BY DEF Goes, TypeOK
  <1>5. CASE p \notin S \/ (to \in L <=> from \in L)
    <2>1. A = B
      BY <1>4, <1>5 DEF At
    <2> QED
      BY <2>1, <1>3, <1>5
  <1>6. CASE p \in S /\ to \in L /\ from \notin L
    <2>1. B = A \cup {p} /\ p \notin A
      BY <1>4, <1>6 DEF At, TypeOK
    <2>2. Cardinality(B) = Cardinality(A) + 1
      BY <2>1, <1>2, FS_AddElement
    <2> QED
      BY <2>2, <1>3, <1>6
  <1>7. CASE p \in S /\ to \notin L /\ from \in L
    <2>1. B = A \ {p} /\ p \in A
      BY <1>4, <1>7 DEF At, TypeOK
    <2>2. Cardinality(B) = Cardinality(A) - 1
      BY <2>1, <1>2, FS_RemoveElement
    <2> QED
      BY <2>2, <1>3, <1>7
  <1> QED
    BY <1>5, <1>6, <1>7

\* The processes of a salon are finitely many, and no client cuts hair.
LEMMA Processes ==
    ASSUME SalonAssumption
    PROVE  /\ IsFiniteSet(Client) /\ IsFiniteSet(Hairdresser)
           /\ IsFiniteSet(Client \cup Hairdresser)
           /\ Client \cap Hairdresser = {}
  BY FS_Union DEF SalonAssumption

\* The operations of the queue keep its type, and only counting and dropping
\* change its length (haircut_queue.c 3-21).
LEMMA PlaceType ==
    ASSUME QueueAssumption, NEW Q \in QueueType, NEW c \in Client
    PROVE  Place(Q, c) \in QueueType /\ Place(Q, c).length = Q.length
  <1>1. Q.tail \in Indices /\ Q.q \in [Indices -> Client \cup {NoClient}]
    BY DEF QueueType
  <1>2. (Q.tail + 1) % MAX_QUEUE_SIZE \in Indices
    BY <1>1 DEF QueueAssumption, Indices
  <1> QED
    BY <1>1, <1>2 DEF Place, QueueType

\* The second half of push adds one to the length (haircut_queue.c 8).
LEMMA CountType ==
    ASSUME NEW Q \in QueueType
    PROVE  Count(Q) \in QueueType /\ Count(Q).length = Q.length + 1
  BY DEF Count, QueueType

\* The second half of pop takes one from the length and moves nothing but the
\* head (haircut_queue.c 17-18).
LEMMA DropType ==
    ASSUME NEW Q \in QueueType
    PROVE  /\ Drop(Q) \in QueueType
           /\ Drop(Q).head = IF Q.length > 1 THEN Q.head + 1 ELSE Q.head
           /\ Drop(Q).length = Q.length - 1
           /\ Drop(Q).tail = Q.tail /\ Drop(Q).q = Q.q
  <1> DEFINE Moved(hd, len) == [Q EXCEPT !.head = hd, !.length = len]
             newHead == IF Q.length > 1 THEN Q.head + 1 ELSE Q.head
  <1>1. ASSUME NEW hd \in Nat, NEW len \in Int
        PROVE  /\ Moved(hd, len) \in QueueType
               /\ Moved(hd, len).head = hd /\ Moved(hd, len).length = len
               /\ Moved(hd, len).tail = Q.tail /\ Moved(hd, len).q = Q.q
    BY DEF QueueType
  <1>2. newHead \in Nat /\ Q.length - 1 \in Int
    BY DEF QueueType
  <1>3. Drop(Q) = Moved(newHead, Q.length - 1)
    BY DEF Drop
  <1> HIDE DEF Moved
  <1> QED
    BY <1>1, <1>2, <1>3

\* What pop reads is a client or nobody (haircut_queue.c 16).
LEMMA HeadType ==
    ASSUME NEW Q \in QueueType
    PROVE  HeadValues(Q) \subseteq Client \cup {NoClient}
  BY DEF HeadValues, QueueType

-----------------------------------------------------------------------------
(* Type correctness *)

\* The salon opens with variables of their types (hair_salon.c 58-78).
LEMMA InitTypeOK ==
    ASSUME QueueAssumption, SalonAssumption, Init
    PROVE  TypeOK
  <1>1. M \in Nat
    BY Processes, FS_CardinalityType DEF M
  <1>2. EmptyQueue \in QueueType
    BY DEF QueueAssumption, EmptyQueue, QueueType, Indices
  <1>3. sem \in [Semaphore -> Nat]
    BY <1>1 DEF Init, Semaphore, SalonAssumption
  <1> QED
    BY <1>2, <1>3, Processes DEF Init, TypeOK, ClientLabel, BarberLabel

\* No step of a client leaves the types (client.c 12-44).
LEMMA ClientTypeOK ==
    ASSUME QueueAssumption, SalonAssumption, TypeOK, NEW c \in Client,
           SpawnClient(c) \/ ClientStep(c)
    PROVE  TypeOK'
  <1> USE Processes DEF Goes, TypeOK, ClientLabel
  <1>1. CASE SpawnClient(c)
    BY <1>1 DEF SpawnClient
  <1>2. CASE CreateSelfMutex(c)
    BY <1>2 DEF CreateSelfMutex, NoMutex
  <1>3. CASE GetHairdresser(c)
    BY <1>3 DEF GetHairdresser, acquire, Semaphore
  <1>4. CASE AllOccupied(c)
    BY <1>4 DEF AllOccupied
  <1>5. CASE TakeSeat(c)
    BY <1>5 DEF TakeSeat, acquire, Semaphore
  <1>6. CASE ComeAnotherTime(c)
    BY <1>6 DEF ComeAnotherTime
  <1>7. CASE AwaitHairdresser(c)
    BY <1>7 DEF AwaitHairdresser, acquire, Semaphore
  <1>8. CASE LockQueue(c)
    BY <1>8 DEF LockQueue, acquire, Semaphore
  <1>9. CASE PushPlace(c)
    BY <1>9, PlaceType DEF PushPlace
  <1>10. CASE PushCount(c)
    BY <1>10, CountType DEF PushCount
  <1>11. CASE UnlockQueue(c)
    BY <1>11 DEF UnlockQueue, release, Semaphore
  <1>12. CASE AnnounceHaircut(c)
    BY <1>12 DEF AnnounceHaircut, release, Semaphore
  <1>13. CASE AwaitHaircut(c)
    BY <1>13 DEF AwaitHaircut, NoMutex
  <1>14. CASE DeleteSelfMutex(c)
    BY <1>14 DEF DeleteSelfMutex, NoMutex
  <1> QED
    BY <1>1, <1>2, <1>3, <1>4, <1>5, <1>6, <1>7, <1>8, <1>9, <1>10, <1>11, <1>12, <1>13, <1>14 DEF ClientStep

\* No step of a hairdresser leaves the types (hairdresser.c 14-56).
LEMMA HairdresserTypeOK ==
    ASSUME QueueAssumption, SalonAssumption, TypeOK, NEW h \in Hairdresser,
           SpawnHairdresser(h) \/ HairdresserStep(h) \/ WakeUp(h)
    PROVE  TypeOK'
  <1> USE Processes DEF Goes, TypeOK, BarberLabel
  <1>1. CASE SpawnHairdresser(h)
    BY <1>1 DEF SpawnHairdresser
  <1>2. CASE AwaitClient(h)
    BY <1>2 DEF AwaitClient, acquire, Semaphore
  <1>3. CASE LookAtRoom(h)
    BY <1>3 DEF LookAtRoom
  <1>4. CASE FreeSeat(h)
    BY <1>4 DEF FreeSeat, release, Semaphore
  <1>5. CASE LockForPop(h)
    BY <1>5 DEF LockForPop, acquire, Semaphore
  <1>6. CASE PopRead(h)
    BY <1>6, HeadType DEF PopRead
  <1>7. CASE PopDrop(h)
    BY <1>7, DropType DEF PopDrop
  <1>8. CASE UnlockAfterPop(h)
    BY <1>8 DEF UnlockAfterPop, release, Semaphore
  <1>9. CASE TakeChair(h)
    BY <1>9 DEF TakeChair, acquire, Semaphore
  <1>10. CASE OpenClientMutex(h)
    BY <1>10 DEF OpenClientMutex
  <1>11. CASE CutAndFreeChair(h)
    BY <1>11 DEF CutAndFreeChair, release, Semaphore
  <1>12. CASE ReleaseClient(h)
    BY <1>12 DEF ReleaseClient, NoMutex, HasMutex
  <1>13. CASE FreeHairdresser(h)
    BY <1>13 DEF FreeHairdresser, release, Semaphore
  <1>14. CASE CheckRoom(h)
    BY <1>14 DEF CheckRoom
  <1>15. CASE CheckHaircuts(h)
    BY <1>15 DEF CheckHaircuts
  <1>16. CASE WakeUp(h)
    BY <1>16 DEF WakeUp
  <1>17. CASE CheckRoomAgain(h)
    BY <1>17 DEF CheckRoomAgain
  <1>18. CASE CheckHaircutsAgain(h)
    BY <1>18 DEF CheckHaircutsAgain
  <1> QED
    BY <1>1, <1>2, <1>3, <1>4, <1>5, <1>6, <1>7, <1>8, <1>9, <1>10, <1>11, <1>12, <1>13, <1>14, <1>15, <1>16, <1>17, <1>18 DEF HairdresserStep

\* Every variable keeps its type: no semaphore ever drops below zero, and
\* pop puts nothing but pids and -1 into new_haircut.
THEOREM TypeCorrect == Spec => []TypeOK
  <1>1. Init => TypeOK
    BY InitTypeOK, QueueAssumption, SalonAssumption
  <1>2. TypeOK /\ [Next]_vars => TypeOK'
    <2> SUFFICES ASSUME TypeOK, [Next]_vars PROVE TypeOK'
      OBVIOUS
    <2>1. CASE ClearUp
      BY <2>1 DEF ClearUp, TypeOK
    <2>2. CASE UNCHANGED vars
      BY <2>2 DEF vars, TypeOK
    <2> QED
      BY <2>1, <2>2, ClientTypeOK, HairdresserTypeOK, QueueAssumption,
         SalonAssumption DEF Next, Stopped
  <1> QED
    BY <1>1, <1>2, PTL DEF Spec

-----------------------------------------------------------------------------
(* The accounts: what each semaphore counts.  Together with TypeOK they are  *)
(* inductive; none of them is so alone, since a hairdresser that finds the   *)
(* queue empty would skip the drop that HaircutsCounted relies on.           *)

Accounts == /\ QueueMutexHeld
            /\ HaircutsCounted
            /\ ChairsAccounted
            /\ HairdressersPromised
            /\ SeatNeverLost

\* A hairdresser past sem_haircuts has a client counted in the queue to pop
\* (hairdresser.c 21-31).
LEMMA PopHasClient ==
    ASSUME SalonAssumption, TypeOK, HaircutsCounted,
           NEW h \in At(Hairdresser, {"read", "drop"})
    PROVE  queue.length > 0
  <1> DEFINE Fetching == At(Hairdresser,
                            {"look", "free_seat", "pop", "read", "drop"})
             Pushed   == At(Client, {"unlock", "announce"})
  <1>1. /\ Fetching \subseteq Hairdresser /\ h \in Fetching
        /\ Pushed \subseteq Client
    BY DEF At
  <1>2. IsFiniteSet(Fetching) /\ IsFiniteSet(Pushed)
    BY <1>1, Processes, FS_Subset
  <1>3. Cardinality(Fetching) # 0
    BY <1>1, <1>2, FS_EmptySet
  <1>4. Cardinality(Fetching) \in Nat /\ Cardinality(Pushed) \in Nat
    BY <1>2, FS_CardinalityType
  <1> HIDE DEF Fetching, Pushed
  <1>5. sem["haircuts"] \in Nat
    BY DEF TypeOK, Semaphore
  <1>6. queue.length = sem["haircuts"] + Cardinality(Pushed)
                           + Cardinality(Fetching)
    BY DEF HaircutsCounted, Pushed, Fetching
  <1> QED
    BY <1>3, <1>4, <1>5, <1>6

\* What is counted implies what pop needs: a queue that is not empty.
LEMMA ReadFindsClient ==
    ASSUME SalonAssumption, TypeOK, HaircutsCounted
    PROVE  PopFindsClient
  BY PopHasClient DEF PopFindsClient, queue_empty, At

\* Every account balances when the salon opens.
LEMMA InitAccounts ==
    ASSUME QueueAssumption, SalonAssumption, Init
    PROVE  Accounts
  <1>1. \A p \in Client : pc[p] = "outside"
    BY DEF Init
  <1>2. \A p \in Hairdresser : pc[p] = "away"
    BY Processes DEF Init
  <1>3. ASSUME NEW S \in SUBSET (Client \cup Hairdresser), NEW L,
               "outside" \notin L, "away" \notin L
        PROVE  Cardinality(At(S, L)) = 0
    <2>1. At(S, L) = {}
      BY <1>1, <1>2, <1>3 DEF At
    <2> QED
      BY <2>1, FS_EmptySet
  <1>4. M \in Nat
    BY Processes, FS_CardinalityType DEF M
  <1>5. /\ sem["hairdresser"] = M /\ sem["chairs"] = N
        /\ sem["wait"] = WAITING_ROOM /\ sem["haircuts"] = 0
        /\ sem["queue_mutex"] = 1 /\ queue.length = 0
    BY DEF Init, Semaphore, EmptyQueue
  <1>6. QueueMutexHeld /\ ChairsAccounted /\ HaircutsCounted
    BY <1>3, <1>5 DEF QueueMutexHeld, ChairsAccounted, HaircutsCounted,
                      InQueue, SalonAssumption
  <1>7. HairdressersPromised /\ SeatNeverLost
    BY <1>3, <1>4, <1>5 DEF HairdressersPromised, SeatNeverLost,
                            SalonAssumption
  <1> QED
    BY <1>6, <1>7 DEF Accounts

\* Every step of a client keeps the accounts (client.c 18-37).
LEMMA ClientAccounts ==
    ASSUME QueueAssumption, SalonAssumption, TypeOK, Accounts, TypeOK',
           NEW c \in Client, SpawnClient(c) \/ ClientStep(c)
    PROVE  Accounts'
  <1> USE Processes, CountStep DEF Accounts, QueueMutexHeld, InQueue,
          HaircutsCounted, ChairsAccounted, HairdressersPromised,
          SeatNeverLost
  <1> c \in Client \cup Hairdresser
    OBVIOUS
  <1>0. /\ sem \in [Semaphore -> Nat] /\ sem' \in [Semaphore -> Nat]
        /\ queue.length \in Int /\ WAITING_ROOM \in Nat
        /\ N \in Nat /\ M \in Nat /\ queue \in QueueType
    BY FS_CardinalityType DEF TypeOK, QueueType, M, SalonAssumption
  <1>1. CASE SpawnClient(c)
    BY <1>0, <1>1 DEF SpawnClient, Semaphore
  <1>2. CASE CreateSelfMutex(c)
    BY <1>0, <1>2 DEF CreateSelfMutex, Semaphore
  <1>3. CASE GetHairdresser(c)
    BY <1>0, <1>3 DEF GetHairdresser, acquire, Semaphore
  <1>4. CASE AllOccupied(c)
    <2>1. Goes(c, "ask", "sit") /\ UNCHANGED <<sem, queue>>
      BY <1>4 DEF AllOccupied
    <2> QED
      BY <1>0, <2>1 DEF Semaphore
  <1>5. CASE TakeSeat(c)
    BY <1>0, <1>5 DEF TakeSeat, acquire, Semaphore
  <1>6. CASE ComeAnotherTime(c)
    BY <1>0, <1>6 DEF ComeAnotherTime, Semaphore
  <1>7. CASE AwaitHairdresser(c)
    BY <1>0, <1>7 DEF AwaitHairdresser, acquire, Semaphore
  <1>8. CASE LockQueue(c)
    BY <1>0, <1>8 DEF LockQueue, acquire, Semaphore
  <1>9. CASE PushPlace(c)
    BY <1>0, <1>9, PlaceType DEF PushPlace, Semaphore
  <1>10. CASE PushCount(c)
    BY <1>0, <1>10, CountType DEF PushCount, Semaphore
  <1>11. CASE UnlockQueue(c)
    BY <1>0, <1>11 DEF UnlockQueue, release, Semaphore
  <1>12. CASE AnnounceHaircut(c)
    BY <1>0, <1>12 DEF AnnounceHaircut, release, Semaphore
  <1>13. CASE AwaitHaircut(c)
    BY <1>0, <1>13 DEF AwaitHaircut, Semaphore
  <1>14. CASE DeleteSelfMutex(c)
    BY <1>0, <1>14 DEF DeleteSelfMutex, Semaphore
  <1> QED
    BY <1>1, <1>2, <1>3, <1>4, <1>5, <1>6, <1>7, <1>8, <1>9, <1>10, <1>11, <1>12, <1>13, <1>14 DEF ClientStep

\* Every step of a hairdresser keeps the accounts (hairdresser.c 21-52).
LEMMA HairdresserAccounts ==
    ASSUME QueueAssumption, SalonAssumption, TypeOK, Accounts, TypeOK',
           NEW h \in Hairdresser, SpawnHairdresser(h) \/ HairdresserStep(h) \/ WakeUp(h)
    PROVE  Accounts'
  <1> USE Processes, CountStep DEF Accounts, QueueMutexHeld, InQueue,
          HaircutsCounted, ChairsAccounted, HairdressersPromised,
          SeatNeverLost
  <1> h \in Client \cup Hairdresser
    OBVIOUS
  <1>0. /\ sem \in [Semaphore -> Nat] /\ sem' \in [Semaphore -> Nat]
        /\ queue.length \in Int /\ WAITING_ROOM \in Nat
        /\ N \in Nat /\ M \in Nat /\ queue \in QueueType
    BY FS_CardinalityType DEF TypeOK, QueueType, M, SalonAssumption
  <1>1. CASE SpawnHairdresser(h)
    BY <1>0, <1>1 DEF SpawnHairdresser, Semaphore
  <1>2. CASE AwaitClient(h)
    BY <1>0, <1>2 DEF AwaitClient, acquire, Semaphore
  <1>3. CASE LookAtRoom(h)
    <2>1. CASE waiting_room_empty
      <3>1. Goes(h, "look", "pop") /\ UNCHANGED <<sem, queue>>
        BY <1>3, <2>1 DEF LookAtRoom
      <3> QED
        BY <1>0, <2>1, <3>1 DEF waiting_room_empty, Semaphore
    <2>2. CASE ~waiting_room_empty
      <3>1. Goes(h, "look", "free_seat") /\ UNCHANGED <<sem, queue>>
        BY <1>3, <2>2 DEF LookAtRoom
      <3> QED
        BY <1>0, <3>1 DEF Semaphore
    <2> QED
      BY <2>1, <2>2
  <1>4. CASE FreeSeat(h)
    BY <1>0, <1>4 DEF FreeSeat, release, Semaphore
  <1>5. CASE LockForPop(h)
    BY <1>0, <1>5 DEF LockForPop, acquire, Semaphore
  <1>6. CASE PopRead(h)
    <2>1. ~queue_empty(queue)
      BY <1>6, ReadFindsClient DEF PopRead, Goes, PopFindsClient, At
    <2>2. Goes(h, "read", "drop") /\ UNCHANGED <<sem, queue>>
      BY <1>6, <2>1 DEF PopRead
    <2> QED
      BY <1>0, <2>2 DEF Semaphore
  <1>7. CASE PopDrop(h)
    <2>1. /\ Goes(h, "drop", "popped") /\ UNCHANGED sem
          /\ queue'.length = queue.length - 1
      BY <1>0, <1>7, DropType DEF PopDrop
    <2> QED
      BY <1>0, <2>1 DEF Semaphore
  <1>8. CASE UnlockAfterPop(h)
    BY <1>0, <1>8 DEF UnlockAfterPop, release, Semaphore
  <1>9. CASE TakeChair(h)
    BY <1>0, <1>9 DEF TakeChair, acquire, Semaphore
  <1>10. CASE OpenClientMutex(h)
    <2>1. /\ Goes(h, "call", "cut") \/ Goes(h, "call", "failed")
          /\ UNCHANGED <<sem, queue>>
      BY <1>10 DEF OpenClientMutex
    <2> QED
      BY <1>0, <2>1 DEF Semaphore
  <1>11. CASE CutAndFreeChair(h)
    BY <1>0, <1>11 DEF CutAndFreeChair, release, Semaphore
  <1>12. CASE ReleaseClient(h)
    BY <1>0, <1>12 DEF ReleaseClient, Semaphore
  <1>13. CASE FreeHairdresser(h)
    BY <1>0, <1>13 DEF FreeHairdresser, release, Semaphore
  <1>14. CASE CheckRoom(h)
    BY <1>0, <1>14 DEF CheckRoom, Semaphore
  <1>15. CASE CheckHaircuts(h)
    BY <1>0, <1>15 DEF CheckHaircuts, Semaphore
  <1>16. CASE WakeUp(h)
    BY <1>0, <1>16 DEF WakeUp, Semaphore
  <1>17. CASE CheckRoomAgain(h)
    BY <1>0, <1>17 DEF CheckRoomAgain, Semaphore
  <1>18. CASE CheckHaircutsAgain(h)
    BY <1>0, <1>18 DEF CheckHaircutsAgain, Semaphore
  <1> QED
    BY <1>1, <1>2, <1>3, <1>4, <1>5, <1>6, <1>7, <1>8, <1>9, <1>10, <1>11, <1>12, <1>13, <1>14, <1>15, <1>16, <1>17, <1>18 DEF HairdresserStep

\* The five equations about the semaphores hold in every reachable state.
THEOREM AccountsHold == Spec => []Accounts
  <1>1. Init => Accounts
    BY InitAccounts, QueueAssumption, SalonAssumption
  <1>2. TypeOK /\ TypeOK' /\ Accounts /\ [Next]_vars => Accounts'
    <2> SUFFICES ASSUME TypeOK, TypeOK', Accounts, [Next]_vars
                 PROVE  Accounts'
      OBVIOUS
    <2> USE DEF Accounts, QueueMutexHeld, InQueue, HaircutsCounted,
                ChairsAccounted, HairdressersPromised, SeatNeverLost, At
    <2>1. CASE ClearUp
      BY <2>1 DEF ClearUp
    <2>2. CASE UNCHANGED vars
      BY <2>2 DEF vars
    <2> QED
      BY <2>1, <2>2, ClientAccounts, HairdresserAccounts, QueueAssumption,
         SalonAssumption DEF Next, Stopped
  <1> QED
    BY <1>1, <1>2, TypeCorrect, PTL DEF Spec

\* A woken hairdresser never finds the queue empty (haircut_queue.c 12-15,
\* hairdresser.c 29-31).
THEOREM PopAlwaysFindsClient == Spec => []PopFindsClient
  <1>1. TypeOK /\ Accounts => PopFindsClient
    BY ReadFindsClient, SalonAssumption DEF Accounts
  <1> QED
    BY <1>1, TypeCorrect, AccountsHold, PTL

\* No chair is ever lost or made up (hairdresser.c 34-40).
THEOREM ChairsAlwaysAccounted == Spec => []ChairsAccounted
  BY AccountsHold, PTL DEF Accounts

\* A hairdresser is never promised to two clients at once (client.c 18-26,
\* hairdresser.c 45).
THEOREM HairdressersAlwaysPromised == Spec => []HairdressersPromised
  BY AccountsHold, PTL DEF Accounts

\* No seat stays taken after the salon has run empty (hairdresser.c 24).
THEOREM SeatsNeverLost == Spec => []SeatNeverLost
  BY AccountsHold, PTL DEF Accounts

-----------------------------------------------------------------------------
(* What is left behind *)

\* A client's semaphore is there from its creation to its deletion.
MutexWhileInside ==
    \A c \in Client : selfMutex[c] = NoMutex
                        <=> pc[c] \in {"outside", "enter", "shorn"}

\* The salon is cleared up when the last client is gone.
ClosedLast ==
    salon = "closed" => \A c \in Client : pc[c] \in {"shorn", "turned_away"}

Leaks == MutexWhileInside /\ ClosedLast

\* A hairdresser finds a client's semaphore or leaves it missing.
LEMMA HairdresserKeepsMutexes ==
    ASSUME SalonAssumption, TypeOK, Leaks, NEW h \in Hairdresser,
           SpawnHairdresser(h) \/ HairdresserStep(h) \/ WakeUp(h)
    PROVE  Leaks'
  <1>1. salon' = salon /\ \A c \in Client : pc'[c] = pc[c]
    BY DEF SpawnHairdresser, HairdresserStep, WakeUp, AwaitClient, LookAtRoom,
           FreeSeat, LockForPop, PopRead, PopDrop, UnlockAfterPop, TakeChair,
           OpenClientMutex, CutAndFreeChair, ReleaseClient, FreeHairdresser,
           CheckRoom, CheckHaircuts, CheckRoomAgain, CheckHaircutsAgain, Goes,
           TypeOK, SalonAssumption
  <1>2. \A c \in Client : selfMutex'[c] = NoMutex <=> selfMutex[c] = NoMutex
    <2>1. CASE ReleaseClient(h)
      <3> DEFINE d == newHaircut[h]
      <3>1. CASE HasMutex(d)
        <4>1. selfMutex' = [selfMutex EXCEPT ![d] = @ + 1]
          BY <2>1, <3>1 DEF ReleaseClient
        <4>2. d \in Client /\ selfMutex[d] \in Nat
          BY <3>1 DEF HasMutex, TypeOK
        <4> HIDE DEF d
        <4> QED
          BY <4>1, <4>2 DEF TypeOK, NoMutex
      <3>2. CASE ~HasMutex(d)
        BY <2>1, <3>2 DEF ReleaseClient
      <3> QED
        BY <3>1, <3>2
    <2>2. CASE ~ReleaseClient(h)
      <3>1. selfMutex' = selfMutex
        BY <2>2 DEF SpawnHairdresser, HairdresserStep, WakeUp, AwaitClient,
                    LookAtRoom, FreeSeat, LockForPop, PopRead, PopDrop,
                    UnlockAfterPop, TakeChair, OpenClientMutex, CutAndFreeChair,
                    FreeHairdresser, CheckRoom, CheckHaircuts, CheckRoomAgain,
                    CheckHaircutsAgain
      <3> QED
        BY <3>1
    <2> QED
      BY <2>1, <2>2
  <1> QED
    BY <1>1, <1>2 DEF Leaks, MutexWhileInside, ClosedLast

LEMMA ClientKeepsMutexes ==
    ASSUME SalonAssumption, TypeOK, Leaks, NEW c \in Client,
           SpawnClient(c) \/ ClientStep(c)
    PROVE  Leaks'
  <1>1. /\ salon' = salon /\ pc[c] \notin {"shorn", "turned_away"}
        /\ \A d \in Client \ {c} : pc'[d] = pc[d] /\ selfMutex'[d] = selfMutex[d]
        /\ pc[c] \in ClientLabel /\ selfMutex[c] \in Nat \cup {NoMutex}
        /\ selfMutex \in [Client -> Nat \cup {NoMutex}]
        /\ pc \in [Client \cup Hairdresser -> ClientLabel \cup BarberLabel]
    BY DEF SpawnClient, ClientStep, CreateSelfMutex, GetHairdresser, AllOccupied,
           TakeSeat, ComeAnotherTime, AwaitHairdresser, LockQueue, PushPlace,
           PushCount, UnlockQueue, AnnounceHaircut, AwaitHaircut, DeleteSelfMutex,
           Goes, TypeOK
  <1>2. selfMutex'[c] = NoMutex <=> pc'[c] \in {"outside", "enter", "shorn"}
    <2>1. CASE SpawnClient(c)
      BY <1>1, <2>1 DEF SpawnClient, Goes, Leaks, MutexWhileInside
    <2>2. CASE CreateSelfMutex(c)
      BY <1>1, <2>2 DEF CreateSelfMutex, Goes, NoMutex
    <2>3. CASE AwaitHaircut(c)
      BY <1>1, <2>3 DEF AwaitHaircut, Goes, NoMutex
    <2>4. CASE DeleteSelfMutex(c)
      BY <1>1, <2>4 DEF DeleteSelfMutex, Goes
    <2>5. CASE \/ GetHairdresser(c) \/ AllOccupied(c) \/ TakeSeat(c)
               \/ ComeAnotherTime(c) \/ AwaitHairdresser(c) \/ LockQueue(c)
               \/ PushPlace(c) \/ PushCount(c) \/ UnlockQueue(c)
               \/ AnnounceHaircut(c)
      BY <1>1, <2>5 DEF GetHairdresser, AllOccupied, TakeSeat, ComeAnotherTime,
                        AwaitHairdresser, LockQueue, PushPlace, PushCount,
                        UnlockQueue, AnnounceHaircut, Goes, Leaks,
                        MutexWhileInside
    <2> QED
      BY <2>1, <2>2, <2>3, <2>4, <2>5 DEF ClientStep
  <1> QED
    BY <1>1, <1>2 DEF Leaks, MutexWhileInside, ClosedLast

\* What outlives the salon is the semaphores of the clients that were turned
\* away, and all of them (client.c 19-22, 41-42).
THEOREM OnlyTurnedAwayEverLeak == Spec => []OnlyTurnedAwayLeak
  <1>1. Init => Leaks
    BY SalonAssumption DEF Init, Leaks, MutexWhileInside, ClosedLast, NoMutex
  <1>2. TypeOK /\ Leaks /\ [Next]_vars => Leaks'
    <2> SUFFICES ASSUME TypeOK, Leaks, [Next]_vars
                 PROVE  Leaks'
      OBVIOUS
    <2>1. CASE ClearUp \/ UNCHANGED vars
      BY <2>1 DEF ClearUp, vars, Leaks, MutexWhileInside, ClosedLast
    <2> QED
      BY <2>1, HairdresserKeepsMutexes, ClientKeepsMutexes, SalonAssumption DEF Next, Stopped
  <1>3. Leaks => OnlyTurnedAwayLeak
    BY DEF Leaks, MutexWhileInside, ClosedLast, OnlyTurnedAwayLeak
  <1> QED
    BY <1>1, <1>2, <1>3, TypeCorrect, PTL DEF Spec

-----------------------------------------------------------------------------
(* Who is served *)

\* Clients counted in the queue at some time, and those not yet released.
Entered == At(Client, {"unlock", "announce", "being_cut", "leave", "shorn"})
Waiting == At(Client, {"unlock", "announce", "being_cut"})

\* The slots of the array that hold the line.
Slots == queue.head .. queue.head + queue.length - 1

\* Nobody is ever alone with the queue but the holder of its mutex.
QueueExclusive == \A p, q \in InQueue : p = q

\* The line starts at the head and ends at the tail, with no wrapping round:
\* as many slots were used as clients came in.
LineInPlace ==
    /\ queue.length \in Nat
    /\ queue.head + queue.length <= Cardinality(Entered)
    /\ queue.head = 0 \/ queue.head < Cardinality(Entered)
    /\ At(Client, {"count"}) = {} =>
          queue.tail = IF queue.length = 0 THEN queue.head
                       ELSE queue.head + queue.length - 1
    /\ \A c \in At(Client, {"count"}) :
          /\ queue.tail = queue.head + queue.length
          /\ queue.q[queue.tail] = c
    /\ \A h \in At(Hairdresser, {"drop"}) :
          newHaircut[h] = queue.q[queue.head]

\* Those in line wait for their haircut, are in line once, and nobody serves
\* them already.
LineWaits ==
    /\ \A i \in Slots : /\ queue.q[i] \in Waiting
                        /\ selfMutex[queue.q[i]] = 0
                        /\ \A h \in Busy : newHaircut[h] # queue.q[i]
    /\ \A i, j \in Slots : queue.q[i] = queue.q[j] => i = j

\* Nobody touches the semaphore of a client who is not in line yet.
MutexFresh ==
    /\ \A c \in At(Client, {"outside", "enter"}) : selfMutex[c] = NoMutex
    /\ \A c \in At(Client, {"ask", "sit", "wait", "lock", "place", "count"}) :
          selfMutex[c] = 0

Service == /\ LineInPlace
           /\ LineWaits
           /\ ServesWaitingClient
           /\ MutexFresh

-----------------------------------------------------------------------------
(* The mutex *)

\* The account of sem_queue_mutex is mutual exclusion.
LEMMA MutexExcludes ==
    ASSUME SalonAssumption, TypeOK, QueueMutexHeld
    PROVE  QueueExclusive
  <1> SUFFICES ASSUME NEW p \in InQueue, NEW q \in InQueue, p # q
               PROVE  FALSE
    BY DEF QueueExclusive
  <1>1. IsFiniteSet(InQueue)
    BY Processes, FS_Subset DEF InQueue, At
  <1>2. sem["queue_mutex"] \in Nat /\ Cardinality(InQueue) \in Nat
    BY <1>1, FS_CardinalityType DEF TypeOK, Semaphore
  <1>3. IsFiniteSet({p}) /\ Cardinality({p}) = 1
    BY FS_Singleton
  <1>4. Cardinality({p} \cup {q}) = 2 /\ IsFiniteSet({p} \cup {q})
    <2>1. q \notin {p}
      OBVIOUS
    <2>2. /\ IsFiniteSet({p} \cup {q})
          /\ Cardinality({p} \cup {q}) = Cardinality({p}) + 1
      BY <1>3, <2>1, FS_AddElement
    <2> QED
      BY <1>3, <2>2
  <1>5. Cardinality({p} \cup {q}) <= Cardinality(InQueue)
    BY <1>1, FS_Subset
  <1> QED
    BY <1>2, <1>4, <1>5 DEF QueueMutexHeld

\* push and pop exclude each other (client.c 27-32, hairdresser.c 27-32).
THEOREM QueueAlwaysExclusive == Spec => []QueueExclusive
  <1>1. TypeOK /\ Accounts => QueueExclusive
    BY MutexExcludes, SalonAssumption DEF Accounts
  <1> QED
    BY <1>1, TypeCorrect, AccountsHold, PTL

-----------------------------------------------------------------------------
(* The line *)

\* An empty queue is in place and serves nobody (hair_salon.c 66-78).
LEMMA InitService ==
    ASSUME QueueAssumption, SalonAssumption, Init
    PROVE  Service
  <1>1. \A c \in Client : pc[c] = "outside"
    BY DEF Init
  <1>2. \A h \in Hairdresser : pc[h] = "away"
    BY Processes DEF Init
  <1>3. Busy = {} /\ Entered = {} /\ At(Client, {"count"}) = {}
        /\ At(Hairdresser, {"drop"}) = {}
    BY <1>1, <1>2 DEF At, Busy, Entered
  <1>4. queue.length = 0 /\ queue.head = 0 /\ queue.tail = 0
    BY DEF Init, EmptyQueue
  <1>5. Cardinality(Entered) = 0 /\ Slots = {}
    BY <1>3, <1>4, FS_EmptySet DEF Slots
  <1>6. \A c \in Client : selfMutex[c] = NoMutex
    BY DEF Init
  <1> QED
    BY <1>1, <1>3, <1>4, <1>5, <1>6 DEF Service, LineInPlace, LineWaits,
                            ServesWaitingClient, MutexFresh, At

\* Most steps leave the queue, the clients' semaphores and new_haircut alone,
\* and move nobody in or out of the sets Service is about.
LEMMA QuietStep ==
    ASSUME SalonAssumption, TypeOK, Service,
           UNCHANGED <<queue, selfMutex, newHaircut>>,
           NEW p \in Client \cup Hairdresser, NEW from, NEW to,
           Goes(p, from, to),
           p \in Client =>
              /\ from \in {"unlock", "announce", "being_cut", "leave", "shorn"}
                   <=> to \in {"unlock", "announce", "being_cut", "leave",
                               "shorn"}
              /\ from \in {"unlock", "announce", "being_cut"}
                   => to \in {"unlock", "announce", "being_cut"}
              /\ from # "count" /\ to # "count"
              /\ to \in {"ask", "sit", "wait", "lock", "place"}
                   => from \in {"ask", "sit", "wait", "lock", "place"}
              /\ to \in {"outside", "enter"} => from \in {"outside", "enter"},
           p \in Hairdresser =>
              /\ from # "drop" /\ to # "drop"
              /\ to \in {"popped", "chair", "call", "cut", "finish"} =>
                    from \in {"popped", "chair", "call", "cut", "finish"}
    PROVE  Service'
  <1>0. Client \cap Hairdresser = {} /\ p \in DOMAIN pc
    BY DEF SalonAssumption, TypeOK
  <1>1. Entered' = Entered /\ Waiting \subseteq Waiting'
    BY <1>0 DEF Entered, Waiting, At, Goes, TypeOK
  <1>2. /\ At(Client, {"count"})' = At(Client, {"count"})
        /\ At(Hairdresser, {"drop"})' = At(Hairdresser, {"drop"})
    BY <1>0 DEF At, Goes, TypeOK
  <1>3. Busy' \subseteq Busy
    BY <1>0 DEF Busy, At, Goes, TypeOK
  <1>4. LineInPlace'
    BY <1>1, <1>2 DEF Service, LineInPlace
  <1>5. LineWaits'
    BY <1>1, <1>3 DEF Service, LineWaits, Slots
  <1>6. ServesWaitingClient'
    BY <1>1, <1>3 DEF Service, ServesWaitingClient, Waiting
  <1>7. MutexFresh'
    BY <1>0 DEF Service, MutexFresh, At, Goes, TypeOK
  <1> QED
    BY <1>4, <1>5, <1>6, <1>7 DEF Service

\* There is room in the array for a client who has not been counted yet.
LEMMA RoomForOneMore ==
    ASSUME QueueAssumption, SalonAssumption, LineInPlace, TypeOK
    PROVE  /\ IsFiniteSet(Entered) /\ Cardinality(Entered) \in Nat
           /\ queue.head \in Indices
           /\ \A c \in Client \ Entered :
                 queue.head + queue.length \in Indices
  <1>1. Entered \subseteq Client /\ IsFiniteSet(Client)
    BY DEF Entered, At, SalonAssumption
  <1>2. /\ IsFiniteSet(Entered)
        /\ Cardinality(Entered) \in Nat /\ Cardinality(Client) \in Nat
        /\ Cardinality(Entered) <= Cardinality(Client)
    BY <1>1, FS_Subset, FS_CardinalityType
  <1>3. /\ queue.head \in Nat /\ queue.length \in Nat
        /\ Cardinality(Client) <= MAX_QUEUE_SIZE /\ MAX_QUEUE_SIZE \in Nat \ {0}
    BY DEF TypeOK, QueueType, LineInPlace, SalonAssumption, QueueAssumption
  <1>4. queue.head \in Indices
    BY <1>2, <1>3 DEF LineInPlace, Indices
  <1>5. ASSUME NEW c \in Client \ Entered
        PROVE  queue.head + queue.length \in Indices
    <2>1. Cardinality(Entered \cup {c}) = Cardinality(Entered) + 1
      BY <1>2, FS_AddElement
    <2>2. Cardinality(Entered \cup {c}) <= Cardinality(Client)
      BY <1>1, FS_Subset
    <2> QED
      BY <1>2, <1>3, <2>1, <2>2 DEF LineInPlace, Indices
  <1> QED
    BY <1>2, <1>4, <1>5

\* Where the first half of push puts a client: right after the line
\* (haircut_queue.c 4-7).
LEMMA PlaceEffect ==
    ASSUME QueueAssumption, NEW Q \in QueueType, NEW c \in Client,
           Q.length \in Nat, Q.head + Q.length \in Indices,
           Q.tail = IF Q.length = 0 THEN Q.head ELSE Q.head + Q.length - 1
    PROVE  /\ Place(Q, c).head = Q.head
           /\ Place(Q, c).length = Q.length
           /\ Place(Q, c).tail = Q.head + Q.length
           /\ Place(Q, c).q = [Q.q EXCEPT ![Q.head + Q.length] = c]
  <1> DEFINE t == IF queue_empty(Q) THEN Q.tail
                  ELSE (Q.tail + 1) % MAX_QUEUE_SIZE
  <1>1. Q.head \in Nat /\ Q.tail \in Nat
    BY DEF QueueType, Indices
  <1>2. CASE Q.length = 0
    BY <1>1, <1>2 DEF Place, QueueType, queue_empty
  <1>3. CASE Q.length # 0
    <2>1. (Q.tail + 1) % MAX_QUEUE_SIZE = Q.head + Q.length
      BY <1>1, <1>3 DEF QueueAssumption, Indices
    <2> QED
      BY <1>3, <2>1 DEF Place, QueueType, queue_empty
  <1> QED
    BY <1>2, <1>3

\* The first half of push keeps the line in place (client.c 30).
LEMMA PushPlaceStep ==
    ASSUME QueueAssumption, SalonAssumption, TypeOK, QueueExclusive, Service,
           NEW c \in Client, PushPlace(c)
    PROVE  Service'
  <1>1. /\ pc[c] = "place" /\ pc' = [pc EXCEPT ![c] = "count"]
        /\ queue' = Place(queue, c)
        /\ UNCHANGED <<selfMutex, newHaircut>>
        /\ c \in DOMAIN pc /\ Client \cap Hairdresser = {}
    BY DEF PushPlace, Goes, TypeOK, SalonAssumption
  <1>2. c \in InQueue /\ c \in Client \ Entered
    BY <1>1 DEF InQueue, Entered, At
  <1>3. At(Client, {"count"}) = {} /\ At(Hairdresser, {"drop"}) = {}
    BY <1>1, <1>2 DEF QueueExclusive, InQueue, At
  <1>4. queue.head + queue.length \in Indices /\ queue \in QueueType
    BY <1>2, RoomForOneMore DEF Service, TypeOK
  <1>5. /\ queue'.head = queue.head /\ queue'.length = queue.length
        /\ queue'.tail = queue.head + queue.length
        /\ queue'.q = [queue.q EXCEPT ![queue.head + queue.length] = c]
    BY <1>1, <1>3, <1>4, PlaceEffect DEF Service, LineInPlace
  <1>6. /\ Entered' = Entered /\ Waiting' = Waiting /\ Busy' = Busy
        /\ At(Client, {"count"})' = {c}
        /\ At(Hairdresser, {"drop"})' = {}
    BY <1>1, <1>3 DEF Entered, Waiting, Busy, At, TypeOK
  <1>7. queue'.q[queue'.tail] = c
    BY <1>4, <1>5 DEF QueueType
  <1>8. LineInPlace'
    BY <1>5, <1>6, <1>7 DEF Service, LineInPlace
  <1>9. LineWaits'
    <2>1. Slots' = Slots /\ queue.head + queue.length \notin Slots
      BY <1>4, <1>5 DEF Slots, QueueType, Indices
    <2>2. \A i \in Slots : queue'.q[i] = queue.q[i]
      BY <1>4, <1>5, <2>1 DEF QueueType
    <2> QED
      BY <1>1, <1>6, <2>1, <2>2 DEF Service, LineWaits
  <1>10. ServesWaitingClient'
    BY <1>1, <1>6 DEF Service, ServesWaitingClient, Waiting
  <1>11. MutexFresh'
    BY <1>1 DEF Service, MutexFresh, At, TypeOK
  <1> QED
    BY <1>8, <1>9, <1>10, <1>11 DEF Service

\* The second half of push lengthens the line by a client who waits
\* (client.c 30).
LEMMA PushCountStep ==
    ASSUME QueueAssumption, SalonAssumption, TypeOK, QueueExclusive, Service,
           NEW c \in Client, PushCount(c)
    PROVE  Service'
  <1>1. /\ pc[c] = "count" /\ pc' = [pc EXCEPT ![c] = "unlock"]
        /\ queue' = Count(queue)
        /\ UNCHANGED <<selfMutex, newHaircut>>
        /\ c \in DOMAIN pc /\ Client \cap Hairdresser = {}
    BY DEF PushCount, Goes, TypeOK, SalonAssumption
  <1>2. c \in InQueue /\ c \in Client \ Entered /\ c \notin Waiting
    BY <1>1 DEF InQueue, Entered, Waiting, At
  <1>3. /\ At(Client, {"count"})' = {} /\ c \in At(Client, {"count"})
        /\ At(Hairdresser, {"drop"})' = {}
    BY <1>1, <1>2 DEF QueueExclusive, InQueue, At, TypeOK
  <1>4. /\ queue'.head = queue.head /\ queue'.length = queue.length + 1
        /\ queue'.tail = queue.tail /\ queue'.q = queue.q
        /\ queue.head \in Nat /\ queue.length \in Nat
    BY <1>1 DEF Count, TypeOK, QueueType, Service, LineInPlace
  <1>5. /\ Entered' = Entered \cup {c} /\ Waiting' = Waiting \cup {c}
        /\ Busy' = Busy
    BY <1>1 DEF Entered, Waiting, Busy, At, TypeOK
  <1>6. /\ Cardinality(Entered') = Cardinality(Entered) + 1
        /\ Cardinality(Entered) \in Nat
    BY <1>2, <1>5, RoomForOneMore, FS_AddElement DEF Service
  <1>7. queue.tail = queue.head + queue.length /\ queue.q[queue.tail] = c
    BY <1>3 DEF Service, LineInPlace
  <1>8. LineInPlace'
    BY <1>3, <1>4, <1>6, <1>7 DEF Service, LineInPlace
  <1>9. LineWaits'
    <2>1. Slots' = Slots \cup {queue.tail} /\ queue.tail \notin Slots
      BY <1>4, <1>7 DEF Slots
    <2>2. selfMutex[c] = 0
      BY <1>3 DEF Service, MutexFresh, At
    <2>3. \A h \in Busy : newHaircut[h] # c
      BY <1>2 DEF Service, ServesWaitingClient, Waiting
    <2>4. \A i \in Slots : queue.q[i] # c
      BY <1>2 DEF Service, LineWaits
    <2> QED
      BY <1>1, <1>4, <1>5, <1>7, <2>1, <2>2, <2>3, <2>4 DEF Service, LineWaits
  <1>10. ServesWaitingClient'
    BY <1>1, <1>5 DEF Service, ServesWaitingClient, Waiting
  <1>11. MutexFresh'
    BY <1>1 DEF Service, MutexFresh, At, TypeOK
  <1> QED
    BY <1>8, <1>9, <1>10, <1>11 DEF Service

\* A hairdresser reads the first client of the line (hairdresser.c 28-31).
LEMMA PopReadStep ==
    ASSUME QueueAssumption, SalonAssumption, TypeOK, HaircutsCounted,
           QueueExclusive, Service, NEW h \in Hairdresser, PopRead(h)
    PROVE  Service'
  <1>1. pc[h] = "read" /\ h \in DOMAIN pc /\ Client \cap Hairdresser = {}
    BY DEF PopRead, Goes, TypeOK, SalonAssumption
  <1>2. ~queue_empty(queue)
    BY <1>1, ReadFindsClient DEF PopFindsClient, At
  <1>3. /\ pc' = [pc EXCEPT ![h] = "drop"]
        /\ \E c \in HeadValues(queue) :
              newHaircut' = [newHaircut EXCEPT ![h] = c]
        /\ UNCHANGED <<queue, selfMutex>>
    BY <1>2 DEF PopRead, Goes
  <1>4. newHaircut' = [newHaircut EXCEPT ![h] = queue.q[queue.head]]
    BY <1>3, RoomForOneMore DEF HeadValues, Service
  <1>5. newHaircut'[h] = queue.q[queue.head]
        /\ \A g \in Hairdresser \ {h} : newHaircut'[g] = newHaircut[g]
    BY <1>4 DEF TypeOK
  <1>6. At(Hairdresser, {"drop"})' = At(Hairdresser, {"drop"}) \cup {h}
    BY <1>1, <1>3 DEF At, TypeOK
  <1>7. /\ Entered' = Entered /\ Waiting' = Waiting
        /\ At(Client, {"count"})' = At(Client, {"count"})
        /\ Busy' = Busy /\ h \notin Busy /\ Busy \subseteq Hairdresser
        /\ At(Hairdresser, {"drop"}) \subseteq Hairdresser
    BY <1>1, <1>3 DEF Entered, Waiting, Busy, At, TypeOK
  <1>8. LineInPlace'
    BY <1>3, <1>5, <1>6, <1>7 DEF Service, LineInPlace
  <1>9. LineWaits'
    BY <1>3, <1>5, <1>7 DEF Service, LineWaits, Slots
  <1>10. ServesWaitingClient'
    BY <1>3, <1>5, <1>7 DEF Service, ServesWaitingClient, Waiting
  <1>11. MutexFresh'
    BY <1>1, <1>3 DEF Service, MutexFresh, At, TypeOK
  <1> QED
    BY <1>8, <1>9, <1>10, <1>11 DEF Service

\* The client read leaves the line to its hairdresser (hairdresser.c 28-31).
LEMMA PopDropStep ==
    ASSUME QueueAssumption, SalonAssumption, TypeOK, HaircutsCounted,
           QueueExclusive, Service, NEW h \in Hairdresser, PopDrop(h)
    PROVE  Service'
  <1>1. /\ pc[h] = "drop" /\ pc' = [pc EXCEPT ![h] = "popped"]
        /\ queue' = Drop(queue)
        /\ UNCHANGED <<selfMutex, newHaircut>>
        /\ h \in DOMAIN pc /\ Client \cap Hairdresser = {}
    BY DEF PopDrop, Goes, TypeOK, SalonAssumption
  <1>2. /\ h \in InQueue /\ h \in At(Hairdresser, {"drop"})
        /\ h \in At(Hairdresser, {"read", "drop"})
    BY <1>1 DEF InQueue, At
  <1>3. At(Client, {"count"}) = {} /\ At(Client, {"count"})' = {}
        /\ At(Hairdresser, {"drop"})' = {}
    BY <1>1, <1>2 DEF QueueExclusive, InQueue, At, TypeOK
  <1>4. /\ queue.length > 0 /\ queue.length \in Nat /\ queue.head \in Nat
        /\ Cardinality(Entered) \in Nat
    <2>1. queue.length > 0 /\ Cardinality(Entered) \in Nat
      BY <1>2, PopHasClient, RoomForOneMore DEF Service
    <2> QED
      BY <2>1 DEF TypeOK, QueueType, Service, LineInPlace
  <1>5. /\ queue'.length = queue.length - 1
        /\ queue'.head = IF queue.length > 1 THEN queue.head + 1 ELSE queue.head
        /\ queue'.tail = queue.tail /\ queue'.q = queue.q
    <2>1. queue \in QueueType
      BY DEF TypeOK
    <2> QED
      BY <1>1, <2>1, DropType
  <1>6. /\ Entered' = Entered /\ Waiting' = Waiting
        /\ Busy' = Busy \cup {h} /\ h \notin Busy
    BY <1>1 DEF Entered, Waiting, Busy, At, TypeOK
  <1>7. newHaircut[h] = queue.q[queue.head]
    BY <1>2 DEF Service, LineInPlace
  <1>8. LineInPlace'
    BY <1>3, <1>4, <1>5, <1>6 DEF Service, LineInPlace
  <1>9. Slots' = Slots \ {queue.head} /\ queue.head \in Slots
    BY <1>4, <1>5 DEF Slots
  <1>10. LineWaits'
    BY <1>1, <1>5, <1>6, <1>7, <1>9 DEF Service, LineWaits
  <1>11. ServesWaitingClient'
    <2>1. /\ newHaircut[h] \in Waiting /\ selfMutex[newHaircut[h]] = 0
          /\ \A g \in Busy : newHaircut[g] # newHaircut[h]
      BY <1>7, <1>9 DEF Service, LineWaits
    <2> QED
      BY <1>1, <1>6, <2>1 DEF Service, ServesWaitingClient, Waiting
  <1>12. MutexFresh'
    BY <1>1 DEF Service, MutexFresh, At, TypeOK
  <1> QED
    BY <1>8, <1>10, <1>11, <1>12 DEF Service

\* The three steps that change a client's semaphore alone.
LEMMA SelfMutexStep ==
    ASSUME SalonAssumption, TypeOK, Service, NEW c \in Client,
           CreateSelfMutex(c) \/ AwaitHaircut(c) \/ DeleteSelfMutex(c)
    PROVE  Service'
  <1>1. /\ \E to \in {"ask", "leave", "shorn"} : pc' = [pc EXCEPT ![c] = to]
        /\ pc[c] \in {"enter", "being_cut", "leave"}
        /\ pc[c] = "being_cut" => selfMutex[c] > 0 /\ pc'[c] = "leave"
        /\ pc[c] = "enter" => selfMutex'[c] = 0 /\ pc'[c] = "ask"
        /\ pc[c] = "leave" => pc'[c] = "shorn"
        /\ \A d \in Client \ {c} : selfMutex'[d] = selfMutex[d]
        /\ UNCHANGED <<queue, newHaircut>>
        /\ c \in DOMAIN pc /\ Client \cap Hairdresser = {}
    BY DEF CreateSelfMutex, AwaitHaircut, DeleteSelfMutex, Goes, TypeOK,
           SalonAssumption, ClientLabel
  <1>2. /\ Entered' = Entered /\ Waiting' = Waiting \ {c}
        /\ At(Client, {"count"})' = At(Client, {"count"})
        /\ At(Hairdresser, {"drop"})' = At(Hairdresser, {"drop"})
        /\ Busy' = Busy
    BY <1>1 DEF Entered, Waiting, Busy, At, TypeOK
  <1>3. \A i \in Slots : queue.q[i] # c /\ queue.q[i] \in Client
    BY <1>1 DEF Service, LineWaits, Waiting, At
  <1>4. \A h \in Busy : newHaircut[h] # c /\ newHaircut[h] \in Client
    BY <1>1 DEF Service, ServesWaitingClient, Waiting, At
  <1>5. LineInPlace'
    BY <1>1, <1>2 DEF Service, LineInPlace
  <1>6. LineWaits'
    BY <1>1, <1>2, <1>3 DEF Service, LineWaits, Slots
  <1>7. ServesWaitingClient'
    BY <1>1, <1>2, <1>4 DEF Service, ServesWaitingClient, Waiting
  <1>8. MutexFresh'
    BY <1>1 DEF Service, MutexFresh, At, TypeOK
  <1> QED
    BY <1>5, <1>6, <1>7, <1>8 DEF Service

\* A client released is served by nobody any more (hairdresser.c 43).
LEMMA ReleaseClientStep ==
    ASSUME SalonAssumption, TypeOK, Service, NEW h \in Hairdresser,
           ReleaseClient(h)
    PROVE  Service'
  <1>1. /\ pc[h] = "finish" /\ pc' = [pc EXCEPT ![h] = "ready"]
        /\ UNCHANGED <<queue, newHaircut>>
        /\ \A d \in Client \ {newHaircut[h]} : selfMutex'[d] = selfMutex[d]
        /\ h \in DOMAIN pc /\ Client \cap Hairdresser = {}
    BY DEF ReleaseClient, Goes, TypeOK, SalonAssumption
  <1>2. h \in Busy /\ newHaircut[h] \in Waiting
    BY <1>1 DEF Busy, At, Service, ServesWaitingClient, Waiting
  <1>3. /\ Entered' = Entered /\ Waiting' = Waiting
        /\ At(Client, {"count"})' = At(Client, {"count"})
        /\ At(Hairdresser, {"drop"})' = At(Hairdresser, {"drop"})
        /\ Busy' = Busy \ {h} /\ Waiting \subseteq Client
    BY <1>1 DEF Entered, Waiting, Busy, At, TypeOK
  <1>4. LineInPlace'
    BY <1>1, <1>3 DEF Service, LineInPlace
  <1>5. LineWaits'
    BY <1>1, <1>2, <1>3 DEF Service, LineWaits, Slots
  <1>6. ServesWaitingClient'
    BY <1>1, <1>2, <1>3 DEF Service, ServesWaitingClient, Waiting
  <1>7. MutexFresh'
    BY <1>1, <1>2 DEF Service, MutexFresh, At, TypeOK, Waiting
  <1> QED
    BY <1>4, <1>5, <1>6, <1>7 DEF Service

\* No step of a client disturbs who is served (client.c 12-44).
LEMMA ClientService ==
    ASSUME QueueAssumption, SalonAssumption, TypeOK, QueueExclusive, Service,
           NEW c \in Client, SpawnClient(c) \/ ClientStep(c)
    PROVE  Service'
  <1> c \in Client \cup Hairdresser /\ c \notin Hairdresser
    BY DEF SalonAssumption
  <1>1. CASE SpawnClient(c)
    BY <1>1, QuietStep DEF SpawnClient
  <1>2. CASE CreateSelfMutex(c)
    BY <1>2, SelfMutexStep
  <1>3. CASE GetHairdresser(c)
    BY <1>3, QuietStep DEF GetHairdresser
  <1>4. CASE AllOccupied(c)
    BY <1>4, QuietStep DEF AllOccupied
  <1>5. CASE TakeSeat(c)
    BY <1>5, QuietStep DEF TakeSeat
  <1>6. CASE ComeAnotherTime(c)
    BY <1>6, QuietStep DEF ComeAnotherTime
  <1>7. CASE AwaitHairdresser(c)
    BY <1>7, QuietStep DEF AwaitHairdresser
  <1>8. CASE LockQueue(c)
    BY <1>8, QuietStep DEF LockQueue
  <1>9. CASE PushPlace(c)
    BY <1>9, PushPlaceStep
  <1>10. CASE PushCount(c)
    BY <1>10, PushCountStep
  <1>11. CASE UnlockQueue(c)
    BY <1>11, QuietStep DEF UnlockQueue
  <1>12. CASE AnnounceHaircut(c)
    BY <1>12, QuietStep DEF AnnounceHaircut
  <1>13. CASE AwaitHaircut(c)
    BY <1>13, SelfMutexStep
  <1>14. CASE DeleteSelfMutex(c)
    BY <1>14, SelfMutexStep
  <1> QED
    BY <1>1, <1>2, <1>3, <1>4, <1>5, <1>6, <1>7, <1>8, <1>9, <1>10, <1>11, <1>12, <1>13, <1>14 DEF ClientStep

\* No step of a hairdresser disturbs who is served (hairdresser.c 14-56).
LEMMA HairdresserService ==
    ASSUME QueueAssumption, SalonAssumption, TypeOK, HaircutsCounted,
           QueueExclusive, Service, NEW h \in Hairdresser,
           SpawnHairdresser(h) \/ HairdresserStep(h) \/ WakeUp(h)
    PROVE  Service'
  <1> h \in Client \cup Hairdresser /\ h \notin Client
    BY DEF SalonAssumption
  <1>1. CASE SpawnHairdresser(h)
    BY <1>1, QuietStep DEF SpawnHairdresser
  <1>2. CASE AwaitClient(h)
    BY <1>2, QuietStep DEF AwaitClient
  <1>3. CASE LookAtRoom(h)
    BY <1>3, QuietStep DEF LookAtRoom
  <1>4. CASE FreeSeat(h)
    BY <1>4, QuietStep DEF FreeSeat
  <1>5. CASE LockForPop(h)
    BY <1>5, QuietStep DEF LockForPop
  <1>6. CASE PopRead(h)
    BY <1>6, PopReadStep
  <1>7. CASE PopDrop(h)
    BY <1>7, PopDropStep
  <1>8. CASE UnlockAfterPop(h)
    BY <1>8, QuietStep DEF UnlockAfterPop
  <1>9. CASE TakeChair(h)
    BY <1>9, QuietStep DEF TakeChair
  <1>10. CASE OpenClientMutex(h)
    <2>1. Goes(h, "call", "cut") \/ Goes(h, "call", "failed")
      BY <1>10 DEF OpenClientMutex
    <2> QED
      BY <1>10, <2>1, QuietStep DEF OpenClientMutex
  <1>11. CASE CutAndFreeChair(h)
    BY <1>11, QuietStep DEF CutAndFreeChair
  <1>12. CASE ReleaseClient(h)
    BY <1>12, ReleaseClientStep
  <1>13. CASE FreeHairdresser(h)
    BY <1>13, QuietStep DEF FreeHairdresser
  <1>14. CASE CheckRoom(h)
    BY <1>14, QuietStep DEF CheckRoom
  <1>15. CASE CheckHaircuts(h)
    BY <1>15, QuietStep DEF CheckHaircuts
  <1>16. CASE WakeUp(h)
    BY <1>16, QuietStep DEF WakeUp
  <1>17. CASE CheckRoomAgain(h)
    BY <1>17, QuietStep DEF CheckRoomAgain
  <1>18. CASE CheckHaircutsAgain(h)
    BY <1>18, QuietStep DEF CheckHaircutsAgain
  <1> QED
    BY <1>1, <1>2, <1>3, <1>4, <1>5, <1>6, <1>7, <1>8, <1>9, <1>10, <1>11, <1>12, <1>13, <1>14, <1>15, <1>16, <1>17, <1>18 DEF HairdresserStep

\* The line keeps its shape and its clients keep waiting in it.
THEOREM ServiceHolds == Spec => []Service
  <1>1. Init => Service
    BY InitService, QueueAssumption, SalonAssumption
  <1>2. TypeOK /\ HaircutsCounted /\ QueueExclusive /\ Service /\ [Next]_vars
            => Service'
    <2> SUFFICES ASSUME TypeOK, HaircutsCounted, QueueExclusive, Service,
                        [Next]_vars
                 PROVE  Service'
      OBVIOUS
    <2>1. CASE UNCHANGED vars \/ ClearUp
      <3>1. UNCHANGED <<pc, queue, selfMutex, newHaircut>>
        BY <2>1 DEF vars, ClearUp
      <3> QED
        BY <3>1 DEF Service, LineInPlace, LineWaits, ServesWaitingClient,
                    MutexFresh, Entered, Waiting, Busy, Slots, At
    <2> QED
      BY <2>1, ClientService, HairdresserService, QueueAssumption,
         SalonAssumption DEF Next, Stopped
  <1>3. Spec => []HaircutsCounted
    BY AccountsHold, PTL DEF Accounts
  <1> QED
    BY <1>1, <1>2, <1>3, TypeCorrect, QueueAlwaysExclusive, PTL DEF Spec

\* Every hairdresser at work serves a client of their own, who is waiting and
\* whose semaphore is in place (hairdresser.c 37-43).
THEOREM AlwaysServesWaitingClient == Spec => []ServesWaitingClient
  BY ServiceHolds, PTL DEF Service

\* The head of the queue stays in the array although it never wraps round:
\* there are no more clients than slots (haircut_queue.c 16-17).
THEOREM HeadAlwaysInBounds == Spec => []HeadInBounds
  <1>1. TypeOK /\ Service => HeadInBounds
    BY RoomForOneMore, QueueAssumption, SalonAssumption
       DEF Service, HeadInBounds
  <1> QED
    BY <1>1, TypeCorrect, ServiceHolds, PTL

-----------------------------------------------------------------------------
(* The barbershop *)

\* Three facts about sequences given by their elements.
LEMMA SeqByElements ==
    ASSUME NEW S, NEW n \in Nat, NEW s,
           s = [i \in 1 .. n |-> s[i]], \A i \in 1 .. n : s[i] \in S
    PROVE  s \in Seq(S) /\ Len(s) = n
  <1>1. s \in [1 .. n -> S]
    OBVIOUS
  <1> QED
    BY <1>1

\* A sequence with one more element at the end is the old one appended to.
LEMMA AppendByElements ==
    ASSUME NEW S, NEW s \in Seq(S), NEW t \in Seq(S), NEW e \in S,
           Len(t) = Len(s) + 1, t[Len(s) + 1] = e,
           \A i \in 1 .. Len(s) : t[i] = s[i]
    PROVE  t = Append(s, e)
  <1>1. Len(s) \in Nat
    BY LenProperties
  <1>2. \A i \in 1 .. Len(t) : t[i] = Append(s, e)[i]
    BY <1>1, AppendProperties
  <1> QED
    BY <1>2, AppendProperties, SeqEqual

\* A sequence whose elements moved up by one is the tail of the old one.
LEMMA TailByElements ==
    ASSUME NEW S, NEW s \in Seq(S), s # <<>>, NEW t \in Seq(S),
           Len(t) = Len(s) - 1, \A i \in 1 .. Len(t) : t[i] = s[i + 1]
    PROVE  t = Tail(s)
  BY HeadTailProperties, SeqEqual

\* The line of the barbershop is a sequence of clients.
LEMMA LineType ==
    ASSUME QueueAssumption, SalonAssumption, TypeOK, Service
    PROVE  /\ Line \in Seq(Client)
           /\ Len(Line) = queue.length
           /\ \A i \in 1 .. queue.length :
                 /\ queue.head + i - 1 \in Slots
                 /\ Line[i] = queue.q[queue.head + i - 1]
                 /\ Line[i] \in Waiting
  <1>1. queue.length \in Nat /\ queue.head \in Nat
    BY DEF Service, LineInPlace, TypeOK, QueueType
  <1>2. ASSUME NEW i \in 1 .. queue.length
        PROVE  /\ queue.head + i - 1 \in Slots
               /\ Line[i] = queue.q[queue.head + i - 1]
               /\ Line[i] \in Waiting
    <2>1. queue.head + i - 1 \in Slots
      BY <1>1 DEF Slots
    <2>2. Line[i] = queue.q[queue.head + i - 1]
      BY DEF Line, Contents
    <2> QED
      BY <2>1, <2>2 DEF Service, LineWaits
  <1>3. Waiting \subseteq Client
    BY DEF Waiting, At
  <1>4. Line = [i \in 1 .. queue.length |-> Line[i]]
    BY DEF Line, Contents
  <1>5. \A i \in 1 .. queue.length : Line[i] \in Client
    BY <1>2, <1>3
  <1>6. Line \in Seq(Client) /\ Len(Line) = queue.length
    BY <1>1, <1>4, <1>5, SeqByElements
  <1> QED
    BY <1>2, <1>6

\* An open salon is an empty barbershop.
LEMMA InitRefines ==
    ASSUME QueueAssumption, SalonAssumption, Init
    PROVE  Shop!Init
  <1>1. Line = <<>>
    BY DEF Init, EmptyQueue, Line, Contents
  <1>2. \A p \in Client : pc[p] = "outside" /\ selfMutex[p] = -1
    BY DEF Init, NoMutex
  <1>3. \A p \in Hairdresser : pc[p] = "away"
    BY Processes DEF Init
  <1>4. Serving = [h \in Hairdresser |-> NoClient] /\ Done = {}
    BY <1>2, <1>3 DEF Serving, Done, Busy, At
  <1> QED
    BY <1>1, <1>4 DEF Shop!Init

\* Steps the barbershop does not see.
LEMMA StutterRefines ==
    ASSUME TypeOK, UNCHANGED <<queue, newHaircut, selfMutex>>,
           SalonAssumption,
           NEW p \in Client \cup Hairdresser, NEW from, NEW to,
           Goes(p, from, to),
           p \in Client =>
              (from \in {"leave", "shorn"} <=> to \in {"leave", "shorn"}),
           p \in Hairdresser =>
              (from \in {"popped", "chair", "call", "cut", "finish"} <=>
               to   \in {"popped", "chair", "call", "cut", "finish"})
    PROVE  UNCHANGED Shop!vars
  <1>1. /\ pc[p] = from /\ pc' = [pc EXCEPT ![p] = to] /\ p \in DOMAIN pc
        /\ Client \cap Hairdresser = {}
    BY DEF Goes, TypeOK, SalonAssumption
  <1>2. Busy' = Busy
    BY <1>1 DEF Busy, At, TypeOK
  <1>3. Done' = Done
    BY <1>1 DEF Done, TypeOK
  <1> QED
    BY <1>2, <1>3 DEF Shop!vars, Line, Serving

\* A client placed but not counted is not in line yet: a stutter
\* (haircut_queue.c 4-7).
LEMMA PushPlaceRefines ==
    ASSUME QueueAssumption, SalonAssumption, TypeOK, QueueExclusive, Service,
           NEW c \in Client, PushPlace(c)
    PROVE  UNCHANGED Shop!vars
  <1>1. /\ pc[c] = "place" /\ pc' = [pc EXCEPT ![c] = "count"]
        /\ queue' = Place(queue, c)
        /\ UNCHANGED <<selfMutex, newHaircut>>
        /\ c \in DOMAIN pc /\ Client \cap Hairdresser = {}
    BY DEF PushPlace, Goes, TypeOK, SalonAssumption
  <1>2. c \in InQueue /\ c \in Client \ Entered
    BY <1>1 DEF InQueue, Entered, At
  <1>3. At(Client, {"count"}) = {}
    BY <1>1, <1>2 DEF QueueExclusive, InQueue, At
  <1>4. queue.head + queue.length \in Indices /\ queue \in QueueType
    BY <1>2, RoomForOneMore DEF Service, TypeOK
  <1>5. /\ queue'.head = queue.head /\ queue'.length = queue.length
        /\ queue'.q = [queue.q EXCEPT ![queue.head + queue.length] = c]
    BY <1>1, <1>3, <1>4, PlaceEffect DEF Service, LineInPlace
  <1>6. \A i \in 1 .. queue.length :
           queue'.q[queue.head + i - 1] = queue.q[queue.head + i - 1]
    BY <1>4, <1>5 DEF QueueType, Indices, Service, LineInPlace
  <1>7. Line' = Line
    BY <1>5, <1>6 DEF Line, Contents
  <1>8. Busy' = Busy /\ Done' = Done
    BY <1>1 DEF Busy, At, Done, TypeOK
  <1> QED
    BY <1>1, <1>7, <1>8 DEF Shop!vars, Serving

\* Counting a client in is joining the line.
LEMMA PushCountRefines ==
    ASSUME QueueAssumption, SalonAssumption, TypeOK, Service,
           NEW c \in Client, PushCount(c)
    PROVE  Shop!Join(c)
  <1>1. /\ pc[c] = "count" /\ pc' = [pc EXCEPT ![c] = "unlock"]
        /\ queue' = Count(queue)
        /\ UNCHANGED <<selfMutex, newHaircut>>
        /\ c \in DOMAIN pc /\ Client \cap Hairdresser = {}
    BY DEF PushCount, Goes, TypeOK, SalonAssumption
  <1>2. c \notin Waiting /\ c \in At(Client, {"count"}) /\ selfMutex[c] = 0
    BY <1>1 DEF Waiting, At, Service, MutexFresh
  <1>3. /\ queue'.head = queue.head /\ queue'.length = queue.length + 1
        /\ queue'.q = queue.q /\ queue.q[queue.head + queue.length] = c
        /\ queue.length \in Nat /\ queue.head \in Nat
    BY <1>1, <1>2 DEF Count, TypeOK, QueueType, Service, LineInPlace
  <1>4. Line' = Append(Line, c)
    <2>1. Line \in Seq(Client) /\ Len(Line) = queue.length
          /\ \A i \in 1 .. queue.length : Line[i] = queue.q[queue.head + i - 1]
      BY LineType
    <2>2. Line' = [i \in 1 .. queue.length + 1 |-> queue.q[queue.head + i - 1]]
      BY <1>3 DEF Line, Contents
    <2>3. Line'[queue.length + 1] = c
      BY <1>3, <2>2
    <2>4. \A i \in 1 .. queue.length : Line'[i] = Line[i]
      BY <1>3, <2>1, <2>2
    <2>5. \A i \in 1 .. queue.length + 1 : Line'[i] \in Client
      BY <1>3, <2>1, <2>3, <2>4, ElementOfSeq
    <2>6. Line' \in Seq(Client) /\ Len(Line') = queue.length + 1
      <3>1. Line' = [i \in 1 .. queue.length + 1 |-> Line'[i]]
        BY <2>2
      <3> QED
        BY <1>3, <2>5, <3>1, SeqByElements
    <2> QED
      BY <2>1, <2>3, <2>4, <2>6, AppendByElements
  <1>5. ~Shop!Present(c)
    <2>1. \A i \in DOMAIN Line : Line[i] # c
      BY <1>2, LineType
    <2>2. \A h \in Hairdresser : Serving[h] # c
      BY <1>2 DEF Serving, Service, ServesWaitingClient, Waiting,
                  QueueAssumption
    <2> QED
      BY <2>1, <2>2 DEF Shop!Present
  <1>6. c \notin Done /\ Done' = Done
    BY <1>1, <1>2 DEF Done, TypeOK
  <1>7. Serving' = Serving
    BY <1>1 DEF Serving, Busy, At, TypeOK
  <1> QED
    BY <1>4, <1>5, <1>6, <1>7 DEF Shop!Join

\* Dropping the head is taking the first of the line.
LEMMA PopDropRefines ==
    ASSUME QueueAssumption, SalonAssumption, TypeOK, HaircutsCounted, Service,
           NEW h \in Hairdresser, PopDrop(h)
    PROVE  Shop!Take(h)
  <1>1. /\ pc[h] = "drop" /\ pc' = [pc EXCEPT ![h] = "popped"]
        /\ queue' = Drop(queue) /\ queue \in QueueType
        /\ UNCHANGED <<selfMutex, newHaircut>>
        /\ h \in DOMAIN pc /\ Client \cap Hairdresser = {}
    BY DEF PopDrop, Goes, TypeOK, SalonAssumption
  <1>2. /\ h \in At(Hairdresser, {"drop"}) /\ h \notin Busy
        /\ h \in At(Hairdresser, {"read", "drop"})
    BY <1>1 DEF At, Busy
  <1>3. queue.length > 0 /\ queue.length \in Nat /\ queue.head \in Nat
    <2>1. queue.length > 0
      BY <1>2, PopHasClient
    <2> QED
      BY <2>1 DEF TypeOK, QueueType, Service, LineInPlace
  <1>4. newHaircut[h] = queue.q[queue.head]
    BY <1>2 DEF Service, LineInPlace
  <1>5. Line \in Seq(Client) /\ Len(Line) = queue.length
        /\ \A i \in 1 .. queue.length : Line[i] = queue.q[queue.head + i - 1]
    BY LineType
  <1>6. Line # <<>> /\ Head(Line) = newHaircut[h]
    BY <1>3, <1>4, <1>5
  <1>7. Line' = Tail(Line)
    <2>1. /\ queue'.length = queue.length - 1 /\ queue'.q = queue.q
          /\ queue.length > 1 => queue'.head = queue.head + 1
      BY <1>1, DropType
    <2>2. Line' = [i \in 1 .. queue.length - 1 |-> queue.q[queue.head + i]]
      <3>1. CASE queue.length > 1
        BY <1>3, <2>1, <3>1 DEF Line, Contents
      <3>2. CASE queue.length = 1
        BY <2>1, <3>2 DEF Line, Contents
      <3> QED
        BY <1>3, <3>1, <3>2
    <2>3. \A i \in 1 .. queue.length - 1 :
             Line'[i] = Line[i + 1] /\ Line'[i] \in Client
      <3>1. ASSUME NEW i \in 1 .. queue.length - 1
            PROVE  Line'[i] = Line[i + 1] /\ Line'[i] \in Client
        <4>1. i + 1 \in 1 .. queue.length /\ queue.head + (i + 1) - 1 = queue.head + i
          BY <1>3
        <4>2. Line[i + 1] = queue.q[queue.head + i]
          BY <1>5, <4>1
        <4> QED
          BY <1>5, <2>2, <4>1, <4>2, ElementOfSeq
      <3> QED
        BY <3>1
    <2>4. Line' \in Seq(Client) /\ Len(Line') = queue.length - 1
      <3>1. Line' = [i \in 1 .. queue.length - 1 |-> Line'[i]]
        BY <2>2
      <3> QED
        BY <1>3, <2>3, <3>1, SeqByElements
    <2> QED
      BY <1>5, <1>6, <2>3, <2>4, TailByElements
  <1>8. Serving[h] = NoClient
    BY <1>2 DEF Serving
  <1>9. Serving' = [Serving EXCEPT ![h] = newHaircut[h]]
    <2>1. Busy' = Busy \cup {h}
      BY <1>1 DEF Busy, At, TypeOK
    <2> QED
      BY <1>1, <1>2, <2>1 DEF Serving
  <1>10. Done' = Done
    BY <1>1 DEF Done, TypeOK
  <1> QED
    BY <1>6, <1>7, <1>8, <1>9, <1>10 DEF Shop!Take

\* Releasing the client is finishing the haircut.
LEMMA ReleaseClientRefines ==
    ASSUME QueueAssumption, SalonAssumption, TypeOK, Service,
           NEW h \in Hairdresser, ReleaseClient(h)
    PROVE  Shop!Finish(h)
  <1>1. /\ pc[h] = "finish" /\ pc' = [pc EXCEPT ![h] = "ready"]
        /\ UNCHANGED <<queue, newHaircut>>
        /\ h \in DOMAIN pc /\ Client \cap Hairdresser = {}
    BY DEF ReleaseClient, Goes, TypeOK, SalonAssumption
  <1>2. /\ h \in Busy /\ newHaircut[h] \in Client
        /\ selfMutex[newHaircut[h]] = 0
    BY <1>1 DEF Busy, At, Service, ServesWaitingClient
  <1>3. selfMutex' = [selfMutex EXCEPT ![newHaircut[h]] = 1]
    BY <1>2 DEF ReleaseClient, HasMutex, NoMutex, TypeOK
  <1>4. Serving[h] = newHaircut[h] /\ newHaircut[h] # NoClient
    BY <1>2 DEF Serving, QueueAssumption
  <1>5. Serving' = [Serving EXCEPT ![h] = NoClient]
    <2>1. Busy' = Busy \ {h}
      BY <1>1 DEF Busy, At, TypeOK
    <2> QED
      BY <1>1, <2>1 DEF Serving
  <1>6. Done' = Done \cup {newHaircut[h]}
    <2>1. \A c \in Client : pc'[c] = pc[c]
      BY <1>1 DEF TypeOK
    <2> QED
      BY <1>2, <1>3, <2>1 DEF Done, TypeOK
  <1>7. Line' = Line
    BY <1>1 DEF Line
  <1> QED
    BY <1>4, <1>5, <1>6, <1>7 DEF Shop!Finish

\* A client who was told is done for good, whatever becomes of the client's
\* semaphore (client.c 37-41).
LEMMA SelfMutexRefines ==
    ASSUME SalonAssumption, TypeOK, Service, NEW c \in Client,
           CreateSelfMutex(c) \/ AwaitHaircut(c) \/ DeleteSelfMutex(c)
    PROVE  UNCHANGED Shop!vars
  <1>1. UNCHANGED <<queue, newHaircut>> /\ Client \cap Hairdresser = {}
    BY DEF CreateSelfMutex, AwaitHaircut, DeleteSelfMutex, SalonAssumption
  <1>2. Busy' = Busy
    BY <1>1 DEF CreateSelfMutex, AwaitHaircut, DeleteSelfMutex, Goes, Busy, At,
                TypeOK
  <1>3. Done' = Done
    <2>1. CASE CreateSelfMutex(c)
      BY <2>1 DEF CreateSelfMutex, Goes, Done, TypeOK, Service, MutexFresh, At,
                  NoMutex
    <2>2. CASE AwaitHaircut(c)
      BY <2>2 DEF AwaitHaircut, Goes, Done, TypeOK
    <2>3. CASE DeleteSelfMutex(c)
      BY <2>3 DEF DeleteSelfMutex, Goes, Done, TypeOK, NoMutex
    <2> QED
      BY <2>1, <2>2, <2>3
  <1> QED
    BY <1>1, <1>2, <1>3 DEF Shop!vars, Line, Serving

\* Every step of a client is a client joining the line, or a stutter.
LEMMA ClientRefines ==
    ASSUME QueueAssumption, SalonAssumption, TypeOK, QueueExclusive, Service,
           NEW c \in Client, SpawnClient(c) \/ ClientStep(c)
    PROVE  Shop!Join(c) \/ UNCHANGED Shop!vars
  <1> c \in Client \cup Hairdresser /\ c \notin Hairdresser
    BY DEF SalonAssumption
  <1>1. CASE SpawnClient(c)
    BY <1>1, StutterRefines DEF SpawnClient
  <1>2. CASE CreateSelfMutex(c)
    BY <1>2, SelfMutexRefines
  <1>3. CASE GetHairdresser(c)
    BY <1>3, StutterRefines DEF GetHairdresser
  <1>4. CASE AllOccupied(c)
    BY <1>4, StutterRefines DEF AllOccupied
  <1>5. CASE TakeSeat(c)
    BY <1>5, StutterRefines DEF TakeSeat
  <1>6. CASE ComeAnotherTime(c)
    BY <1>6, StutterRefines DEF ComeAnotherTime
  <1>7. CASE AwaitHairdresser(c)
    BY <1>7, StutterRefines DEF AwaitHairdresser
  <1>8. CASE LockQueue(c)
    BY <1>8, StutterRefines DEF LockQueue
  <1>9. CASE PushPlace(c)
    BY <1>9, PushPlaceRefines
  <1>10. CASE PushCount(c)
    BY <1>10, PushCountRefines
  <1>11. CASE UnlockQueue(c)
    BY <1>11, StutterRefines DEF UnlockQueue
  <1>12. CASE AnnounceHaircut(c)
    BY <1>12, StutterRefines DEF AnnounceHaircut
  <1>13. CASE AwaitHaircut(c)
    BY <1>13, SelfMutexRefines
  <1>14. CASE DeleteSelfMutex(c)
    BY <1>14, SelfMutexRefines
  <1> QED
    BY <1>1, <1>2, <1>3, <1>4, <1>5, <1>6, <1>7, <1>8, <1>9, <1>10, <1>11, <1>12, <1>13, <1>14 DEF ClientStep

\* Every step of a hairdresser takes the first of the line, finishes a
\* haircut, or is a stutter.
LEMMA HairdresserRefines ==
    ASSUME QueueAssumption, SalonAssumption, TypeOK, HaircutsCounted,
           QueueExclusive, Service, NEW h \in Hairdresser,
           SpawnHairdresser(h) \/ HairdresserStep(h) \/ WakeUp(h)
    PROVE  Shop!Take(h) \/ Shop!Finish(h) \/ UNCHANGED Shop!vars
  <1> h \in Client \cup Hairdresser /\ h \notin Client
    BY DEF SalonAssumption
  <1>1. CASE SpawnHairdresser(h)
    BY <1>1, StutterRefines DEF SpawnHairdresser
  <1>2. CASE AwaitClient(h)
    BY <1>2, StutterRefines DEF AwaitClient
  <1>3. CASE LookAtRoom(h)
    BY <1>3, StutterRefines DEF LookAtRoom
  <1>4. CASE FreeSeat(h)
    BY <1>4, StutterRefines DEF FreeSeat
  <1>5. CASE LockForPop(h)
    BY <1>5, StutterRefines DEF LockForPop
  <1>6. CASE PopRead(h)
    <2>1. Goes(h, "read", "drop") /\ UNCHANGED <<queue, selfMutex>>
      BY <1>6, ReadFindsClient DEF PopRead, Goes, PopFindsClient, At
    <2>2. \A g \in Hairdresser \ {h} : newHaircut'[g] = newHaircut[g]
      BY <1>6 DEF PopRead, TypeOK
    <2>3. Busy' = Busy /\ h \notin Busy /\ Done' = Done
      BY <2>1 DEF Goes, Busy, At, Done, TypeOK
    <2> QED
      BY <2>1, <2>2, <2>3 DEF Shop!vars, Line, Serving
  <1>7. CASE PopDrop(h)
    BY <1>7, PopDropRefines
  <1>8. CASE UnlockAfterPop(h)
    BY <1>8, StutterRefines DEF UnlockAfterPop
  <1>9. CASE TakeChair(h)
    BY <1>9, StutterRefines DEF TakeChair
  <1>10. CASE OpenClientMutex(h)
    <2>1. Goes(h, "call", "cut")
      <3>1. pc[h] = "call" /\ h \in Busy
        BY <1>10 DEF OpenClientMutex, Goes, Busy, At
      <3>2. HasMutex(newHaircut[h])
        BY <3>1 DEF HasMutex, NoMutex, Service, ServesWaitingClient, At
      <3> QED
        BY <1>10, <3>2 DEF OpenClientMutex
    <2> QED
      BY <1>10, <2>1, StutterRefines DEF OpenClientMutex
  <1>11. CASE CutAndFreeChair(h)
    BY <1>11, StutterRefines DEF CutAndFreeChair
  <1>12. CASE ReleaseClient(h)
    BY <1>12, ReleaseClientRefines
  <1>13. CASE FreeHairdresser(h)
    BY <1>13, StutterRefines DEF FreeHairdresser
  <1>14. CASE CheckRoom(h)
    BY <1>14, StutterRefines DEF CheckRoom
  <1>15. CASE CheckHaircuts(h)
    BY <1>15, StutterRefines DEF CheckHaircuts
  <1>16. CASE WakeUp(h)
    BY <1>16, StutterRefines DEF WakeUp
  <1>17. CASE CheckRoomAgain(h)
    BY <1>17, StutterRefines DEF CheckRoomAgain
  <1>18. CASE CheckHaircutsAgain(h)
    BY <1>18, StutterRefines DEF CheckHaircutsAgain
  <1> QED
    BY <1>1, <1>2, <1>3, <1>4, <1>5, <1>6, <1>7, <1>8, <1>9, <1>10, <1>11, <1>12, <1>13, <1>14, <1>15, <1>16, <1>17, <1>18 DEF HairdresserStep

\* First come, first served, every client at most once, nobody done without
\* having been in line: the processes of client.c and hairdresser.c, with their
\* semaphores and their array, implement the barbershop.
THEOREM SalonImplementsBarbershop == Spec => ImplementsBarbershop
  <1>1. Init => Shop!Init
    BY InitRefines, QueueAssumption, SalonAssumption
  <1>2. TypeOK /\ HaircutsCounted /\ QueueExclusive /\ Service /\ [Next]_vars
            => [Shop!Next]_(Shop!vars)
    <2> SUFFICES ASSUME TypeOK, HaircutsCounted, QueueExclusive, Service,
                        [Next]_vars
                 PROVE  Shop!Next \/ UNCHANGED Shop!vars
      OBVIOUS
    <2>1. CASE UNCHANGED vars \/ ClearUp
      <3>1. UNCHANGED <<pc, queue, selfMutex, newHaircut>>
        BY <2>1 DEF vars, ClearUp
      <3> QED
        BY <3>1 DEF Shop!vars, Line, Serving, Done, Busy, At
    <2> QED
      BY <2>1, ClientRefines, HairdresserRefines, QueueAssumption,
         SalonAssumption DEF Next, Stopped, Shop!Next
  <1>3. Spec => []HaircutsCounted
    BY AccountsHold, PTL DEF Accounts
  <1> QED
    BY <1>1, <1>2, <1>3, TypeCorrect, QueueAlwaysExclusive, ServiceHolds, PTL
       DEF Spec, Shop!Spec, ImplementsBarbershop

-----------------------------------------------------------------------------
(* Nobody is forgotten *)

\* A client who has been counted and not told is in the line or with a
\* hairdresser (client.c 30-37, hairdresser.c 28-43).
NobodyForgotten ==
    \A c \in Waiting : selfMutex[c] = 0 =>
        \/ \E i \in Slots : queue.q[i] = c
        \/ \E h \in Busy : newHaircut[h] = c

\* A hairdresser at work finds the semaphore of the client (hairdresser.c 37).
LEMMA AlwaysFindsMutex ==
    ASSUME SalonAssumption, TypeOK, Service, NEW h \in Hairdresser,
           OpenClientMutex(h)
    PROVE  Goes(h, "call", "cut")
  <1>1. pc[h] = "call" /\ h \in Busy
    BY DEF OpenClientMutex, Goes, Busy, At
  <1>2. HasMutex(newHaircut[h])
    BY <1>1 DEF HasMutex, NoMutex, Service, ServesWaitingClient, At
  <1> QED
    BY <1>2 DEF OpenClientMutex

\* A step that leaves the queue, the clients' semaphores and new_haircut alone,
\* and moves no client into line and no hairdresser off a client.
LEMMA QuietRemembers ==
    ASSUME SalonAssumption, TypeOK, NobodyForgotten,
           UNCHANGED <<queue, selfMutex, newHaircut>>,
           NEW p \in Client \cup Hairdresser, NEW from, NEW to,
           Goes(p, from, to),
           p \in Client =>
              (to \in {"unlock", "announce", "being_cut"}
                  => from \in {"unlock", "announce", "being_cut"}),
           p \in Hairdresser =>
              (from \in {"popped", "chair", "call", "cut", "finish"}
                  => to \in {"popped", "chair", "call", "cut", "finish"})
    PROVE  NobodyForgotten'
  <1>1. Client \cap Hairdresser = {} /\ p \in DOMAIN pc
    BY DEF SalonAssumption, TypeOK
  <1>2. Waiting' \subseteq Waiting /\ Busy \subseteq Busy'
    BY <1>1 DEF Waiting, Busy, At, Goes, TypeOK
  <1>3. Slots' = Slots
    BY DEF Slots
  <1> QED
    BY <1>2, <1>3 DEF NobodyForgotten

\* The two halves of push: the slot written is behind the line, and then it is
\* the end of it (haircut_queue.c 4-8).
LEMMA PushRemembers ==
    ASSUME QueueAssumption, SalonAssumption, TypeOK, QueueExclusive, Service,
           NobodyForgotten, NEW c \in Client, PushPlace(c) \/ PushCount(c)
    PROVE  NobodyForgotten'
  <1>1. Client \cap Hairdresser = {} /\ queue.length \in Nat /\ queue.head \in Nat
    BY DEF SalonAssumption, Service, LineInPlace, TypeOK, QueueType
  <1>2. CASE PushPlace(c)
    <2>1. /\ pc[c] = "place" /\ pc' = [pc EXCEPT ![c] = "count"]
          /\ queue' = Place(queue, c)
          /\ UNCHANGED <<selfMutex, newHaircut>> /\ c \in DOMAIN pc
      BY <1>2 DEF PushPlace, Goes, TypeOK
    <2>2. c \in InQueue /\ c \in Client \ Entered
      BY <2>1 DEF InQueue, Entered, At
    <2>3. At(Client, {"count"}) = {}
      BY <2>1, <2>2 DEF QueueExclusive, InQueue, At
    <2>4. queue.head + queue.length \in Indices /\ queue \in QueueType
      BY <2>2, RoomForOneMore DEF Service, TypeOK
    <2>5. /\ queue'.head = queue.head /\ queue'.length = queue.length
          /\ queue'.q = [queue.q EXCEPT ![queue.head + queue.length] = c]
      BY <2>1, <2>3, <2>4, PlaceEffect DEF Service, LineInPlace
    <2>6. Slots' = Slots /\ \A i \in Slots : queue'.q[i] = queue.q[i]
      BY <1>1, <2>4, <2>5 DEF Slots, QueueType, Indices
    <2>7. Waiting' = Waiting /\ Busy' = Busy
      BY <1>1, <2>1 DEF Waiting, Busy, At, TypeOK
    <2> QED
      BY <2>1, <2>6, <2>7 DEF NobodyForgotten
  <1>3. CASE PushCount(c)
    <2>1. /\ pc[c] = "count" /\ pc' = [pc EXCEPT ![c] = "unlock"]
          /\ queue' = Count(queue)
          /\ UNCHANGED <<selfMutex, newHaircut>> /\ c \in DOMAIN pc
      BY <1>3 DEF PushCount, Goes, TypeOK
    <2>2. /\ queue'.head = queue.head /\ queue'.length = queue.length + 1
          /\ queue'.q = queue.q
      BY <2>1 DEF Count, TypeOK, QueueType
    <2>3. c \in At(Client, {"count"})
      BY <2>1 DEF At
    <2>4. queue.q[queue.head + queue.length] = c
      BY <2>3 DEF Service, LineInPlace
    <2>5. Slots \subseteq Slots' /\ queue.head + queue.length \in Slots'
      BY <1>1, <2>2 DEF Slots
    <2>6. Waiting' = Waiting \cup {c} /\ Busy' = Busy
      BY <1>1, <2>1 DEF Waiting, Busy, At, TypeOK
    <2>7. queue'.q[queue.head + queue.length] = c
      BY <2>2, <2>4
    <2> QED
      BY <2>1, <2>2, <2>5, <2>6, <2>7 DEF NobodyForgotten
  <1> QED
    BY <1>2, <1>3

\* The two halves of pop: the head is read, and leaves the line as it is taken
\* over by the hairdresser (haircut_queue.c 16-18).
LEMMA PopRemembers ==
    ASSUME QueueAssumption, SalonAssumption, TypeOK, HaircutsCounted, Service,
           NobodyForgotten, NEW h \in Hairdresser, PopRead(h) \/ PopDrop(h)
    PROVE  NobodyForgotten'
  <1>1. Client \cap Hairdresser = {} /\ queue.length \in Nat /\ queue.head \in Nat
    BY DEF SalonAssumption, Service, LineInPlace, TypeOK, QueueType
  <1>2. CASE PopRead(h)
    <2>1. Goes(h, "read", "drop") /\ UNCHANGED <<queue, selfMutex>>
      BY <1>2, ReadFindsClient DEF PopRead, Goes, PopFindsClient, At
    <2>2. \A g \in Hairdresser \ {h} : newHaircut'[g] = newHaircut[g]
      BY <1>2 DEF PopRead, TypeOK
    <2>3. Busy' = Busy /\ h \notin Busy /\ Busy \subseteq Hairdresser
      BY <2>1 DEF Goes, Busy, At, TypeOK
    <2>4. Waiting' = Waiting /\ Slots' = Slots
      BY <1>1, <2>1 DEF Goes, Waiting, Slots, At, TypeOK
    <2> QED
      BY <2>1, <2>2, <2>3, <2>4 DEF NobodyForgotten
  <1>3. CASE PopDrop(h)
    <2>1. /\ pc[h] = "drop" /\ pc' = [pc EXCEPT ![h] = "popped"]
          /\ queue' = Drop(queue) /\ queue \in QueueType
          /\ UNCHANGED <<selfMutex, newHaircut>> /\ h \in DOMAIN pc
      BY <1>3 DEF PopDrop, Goes, TypeOK
    <2>2. /\ h \in At(Hairdresser, {"drop"})
          /\ h \in At(Hairdresser, {"read", "drop"})
      BY <2>1 DEF At
    <2>3. queue.length > 0 /\ newHaircut[h] = queue.q[queue.head]
      BY <2>2, PopHasClient DEF Service, LineInPlace
    <2>4. /\ queue'.length = queue.length - 1
          /\ queue'.head = IF queue.length > 1 THEN queue.head + 1 ELSE queue.head
          /\ queue'.q = queue.q
      BY <2>1, DropType
    <2>5. Slots' = Slots \ {queue.head}
      BY <1>1, <2>3, <2>4 DEF Slots
    <2>6. Waiting' = Waiting /\ Busy' = Busy \cup {h}
      BY <1>1, <2>1 DEF Waiting, Busy, At, TypeOK
    <2> QED
      BY <2>1, <2>3, <2>4, <2>5, <2>6 DEF NobodyForgotten
  <1> QED
    BY <1>2, <1>3

\* A client's own semaphore is lowered only as the client leaves
\* (client.c 37).
LEMMA SelfMutexRemembers ==
    ASSUME SalonAssumption, TypeOK, NobodyForgotten, NEW c \in Client,
           CreateSelfMutex(c) \/ AwaitHaircut(c) \/ DeleteSelfMutex(c)
    PROVE  NobodyForgotten'
  <1>1. /\ \E to \in {"ask", "leave", "shorn"} : pc' = [pc EXCEPT ![c] = to]
        /\ \A d \in Client \ {c} : selfMutex'[d] = selfMutex[d]
        /\ UNCHANGED <<queue, newHaircut>>
        /\ c \in DOMAIN pc /\ Client \cap Hairdresser = {}
    BY DEF CreateSelfMutex, AwaitHaircut, DeleteSelfMutex, Goes, TypeOK,
           SalonAssumption
  <1>2. /\ Waiting' = Waiting \ {c} /\ Busy' = Busy /\ Slots' = Slots
        /\ Waiting \subseteq Client
    BY <1>1 DEF Waiting, Busy, Slots, At, TypeOK
  <1> QED
    BY <1>1, <1>2 DEF NobodyForgotten

\* A client's own semaphore is raised only as the hairdresser lets the client
\* go (hairdresser.c 43).
LEMMA ReleaseRemembers ==
    ASSUME SalonAssumption, TypeOK, Service, NobodyForgotten,
           NEW h \in Hairdresser, ReleaseClient(h)
    PROVE  NobodyForgotten'
  <1> DEFINE d == newHaircut[h]
  <1>1. /\ pc[h] = "finish" /\ pc' = [pc EXCEPT ![h] = "ready"]
        /\ UNCHANGED <<queue, newHaircut>>
        /\ h \in DOMAIN pc /\ Client \cap Hairdresser = {}
    BY DEF ReleaseClient, Goes, TypeOK, SalonAssumption
  <1>2. h \in Busy
    BY <1>1 DEF Busy, At
  <1>3. d \in Client /\ selfMutex[d] = 0
    BY <1>2 DEF Service, ServesWaitingClient, At
  <1>4. selfMutex' = [selfMutex EXCEPT ![d] = 1]
    BY <1>3 DEF ReleaseClient, HasMutex, NoMutex, TypeOK
  <1>5. /\ Waiting' = Waiting /\ Busy' = Busy \ {h} /\ Slots' = Slots
        /\ Waiting \subseteq Client
    BY <1>1 DEF Waiting, Busy, Slots, At, TypeOK
  <1>6. ASSUME NEW e \in Waiting', selfMutex'[e] = 0
        PROVE  \/ \E i \in Slots : queue.q[i] = e
               \/ \E g \in Busy \ {h} : newHaircut[g] = e
    <2>1. e # d /\ e \in Waiting /\ selfMutex[e] = 0
      BY <1>3, <1>4, <1>5, <1>6 DEF TypeOK
    <2> QED
      BY <2>1 DEF NobodyForgotten
  <1> QED
    BY <1>1, <1>5, <1>6 DEF NobodyForgotten

LEMMA ClientRemembers ==
    ASSUME QueueAssumption, SalonAssumption, TypeOK, QueueExclusive, Service,
           NobodyForgotten, NEW c \in Client, SpawnClient(c) \/ ClientStep(c)
    PROVE  NobodyForgotten'
  <1> c \in Client \cup Hairdresser /\ c \notin Hairdresser
    BY DEF SalonAssumption
  <1>1. CASE SpawnClient(c)
    BY <1>1, QuietRemembers DEF SpawnClient
  <1>2. CASE CreateSelfMutex(c) \/ AwaitHaircut(c) \/ DeleteSelfMutex(c)
    BY <1>2, SelfMutexRemembers
  <1>3. CASE PushPlace(c) \/ PushCount(c)
    BY <1>3, PushRemembers
  <1>4. CASE GetHairdresser(c)
    BY <1>4, QuietRemembers DEF GetHairdresser
  <1>5. CASE AllOccupied(c)
    BY <1>5, QuietRemembers DEF AllOccupied
  <1>6. CASE TakeSeat(c)
    BY <1>6, QuietRemembers DEF TakeSeat
  <1>7. CASE ComeAnotherTime(c)
    BY <1>7, QuietRemembers DEF ComeAnotherTime
  <1>8. CASE AwaitHairdresser(c)
    BY <1>8, QuietRemembers DEF AwaitHairdresser
  <1>9. CASE LockQueue(c)
    BY <1>9, QuietRemembers DEF LockQueue
  <1>10. CASE UnlockQueue(c)
    BY <1>10, QuietRemembers DEF UnlockQueue
  <1>11. CASE AnnounceHaircut(c)
    BY <1>11, QuietRemembers DEF AnnounceHaircut
  <1> QED
    BY <1>1, <1>2, <1>3, <1>4, <1>5, <1>6, <1>7, <1>8, <1>9, <1>10, <1>11
       DEF ClientStep

LEMMA HairdresserRemembers ==
    ASSUME QueueAssumption, SalonAssumption, TypeOK, HaircutsCounted, Service,
           NobodyForgotten, NEW h \in Hairdresser,
           SpawnHairdresser(h) \/ HairdresserStep(h) \/ WakeUp(h)
    PROVE  NobodyForgotten'
  <1> h \in Client \cup Hairdresser /\ h \notin Client
    BY DEF SalonAssumption
  <1>1. CASE PopRead(h) \/ PopDrop(h)
    BY <1>1, PopRemembers
  <1>2. CASE ReleaseClient(h)
    BY <1>2, ReleaseRemembers
  <1>3. CASE OpenClientMutex(h)
    BY <1>3, AlwaysFindsMutex, QuietRemembers DEF OpenClientMutex
  <1>4. CASE SpawnHairdresser(h)
    BY <1>4, QuietRemembers DEF SpawnHairdresser
  <1>5. CASE AwaitClient(h)
    BY <1>5, QuietRemembers DEF AwaitClient
  <1>6. CASE LookAtRoom(h)
    BY <1>6, QuietRemembers DEF LookAtRoom
  <1>7. CASE FreeSeat(h)
    BY <1>7, QuietRemembers DEF FreeSeat
  <1>8. CASE LockForPop(h)
    BY <1>8, QuietRemembers DEF LockForPop
  <1>9. CASE UnlockAfterPop(h)
    BY <1>9, QuietRemembers DEF UnlockAfterPop
  <1>10. CASE TakeChair(h)
    BY <1>10, QuietRemembers DEF TakeChair
  <1>11. CASE CutAndFreeChair(h)
    BY <1>11, QuietRemembers DEF CutAndFreeChair
  <1>12. CASE FreeHairdresser(h)
    BY <1>12, QuietRemembers DEF FreeHairdresser
  <1>13. CASE CheckRoom(h)
    BY <1>13, QuietRemembers DEF CheckRoom
  <1>14. CASE CheckHaircuts(h)
    BY <1>14, QuietRemembers DEF CheckHaircuts
  <1>15. CASE WakeUp(h)
    BY <1>15, QuietRemembers DEF WakeUp
  <1>16. CASE CheckRoomAgain(h)
    BY <1>16, QuietRemembers DEF CheckRoomAgain
  <1>17. CASE CheckHaircutsAgain(h)
    BY <1>17, QuietRemembers DEF CheckHaircutsAgain
  <1> QED
    BY <1>1, <1>2, <1>3, <1>4, <1>5, <1>6, <1>7, <1>8, <1>9, <1>10, <1>11,
       <1>12, <1>13, <1>14, <1>15, <1>16, <1>17 DEF HairdresserStep

\* Between the push and the haircut a client is always in somebody's books: in
\* the line or in new_haircut of a hairdresser at work.
THEOREM NobodyEverForgotten == Spec => []NobodyForgotten
  <1>1. Init => NobodyForgotten
    BY DEF Init, NobodyForgotten, Waiting, At
  <1>2. TypeOK /\ HaircutsCounted /\ QueueExclusive /\ Service
            /\ NobodyForgotten /\ [Next]_vars => NobodyForgotten'
    <2> SUFFICES ASSUME TypeOK, HaircutsCounted, QueueExclusive, Service,
                        NobodyForgotten, [Next]_vars
                 PROVE  NobodyForgotten'
      OBVIOUS
    <2>1. CASE UNCHANGED vars \/ ClearUp
      <3>1. UNCHANGED <<pc, queue, selfMutex, newHaircut>>
        BY <2>1 DEF vars, ClearUp
      <3> QED
        BY <3>1 DEF NobodyForgotten, Waiting, Busy, Slots, At
    <2> QED
      BY <2>1, ClientRemembers, HairdresserRemembers, QueueAssumption,
         SalonAssumption DEF Next, Stopped
  <1>3. Spec => []HaircutsCounted
    BY AccountsHold, PTL DEF Accounts
  <1> QED
    BY <1>1, <1>2, <1>3, TypeCorrect, QueueAlwaysExclusive, ServiceHolds, PTL
       DEF Spec

-----------------------------------------------------------------------------
(* Everybody waits *)

\* No hairdresser ever exits for want of a client's semaphore (hairdresser.c
\* 66-69).
NobodyFailed == \A h \in Hairdresser : pc[h] # "failed"

THEOREM NobodyEverFails == Spec => []NobodyFailed
  <1>1. Init => NobodyFailed
    BY Processes, SalonAssumption DEF Init, NobodyFailed
  <1>2. TypeOK /\ Service /\ NobodyFailed /\ [Next]_vars => NobodyFailed'
    <2> SUFFICES ASSUME TypeOK, Service, NobodyFailed, [Next]_vars,
                        NEW g \in Hairdresser
                 PROVE  pc'[g] # "failed"
      BY DEF NobodyFailed
    <2>1. /\ pc \in [Client \cup Hairdresser -> ClientLabel \cup BarberLabel]
          /\ Client \cap Hairdresser = {} /\ pc[g] # "failed"
      BY SalonAssumption DEF TypeOK, NobodyFailed, SalonAssumption
    <2>2. CASE UNCHANGED vars \/ ClearUp
      BY <2>1, <2>2 DEF vars, ClearUp
    <2>3. ASSUME NEW c \in Client, SpawnClient(c) \/ ClientStep(c)
          PROVE  pc'[g] # "failed"
      BY <2>1, <2>3 DEF SpawnClient, ClientStep, CreateSelfMutex,
         GetHairdresser, AllOccupied, TakeSeat, ComeAnotherTime,
         AwaitHairdresser, LockQueue, PushPlace, PushCount, UnlockQueue,
         AnnounceHaircut, AwaitHaircut, DeleteSelfMutex, Goes
    <2>4. ASSUME NEW h \in Hairdresser,
                 SpawnHairdresser(h) \/ HairdresserStep(h) \/ WakeUp(h)
          PROVE  pc'[g] # "failed"
      <3>1. CASE OpenClientMutex(h)
        BY <2>1, <3>1, AlwaysFindsMutex, SalonAssumption DEF Goes
      <3>2. CASE ~OpenClientMutex(h)
        BY <2>1, <2>4, <3>2 DEF SpawnHairdresser, HairdresserStep, WakeUp,
           AwaitClient, LookAtRoom, FreeSeat, LockForPop, PopRead, PopDrop,
           UnlockAfterPop, TakeChair, CutAndFreeChair, ReleaseClient,
           FreeHairdresser, CheckRoom, CheckHaircuts, CheckRoomAgain,
           CheckHaircutsAgain, Goes
      <3> QED
        BY <3>1, <3>2
    <2> QED
      BY <2>2, <2>3, <2>4 DEF Next, Stopped
  <1> QED
    BY <1>1, <1>2, TypeCorrect, ServiceHolds, PTL DEF Spec

\* If every process waits, the mutex and the chairs are free, so nobody waits
\* for them.  A hairdresser who waits has seen no haircut announced: the line is
\* empty, then, and with nobody in it every hairdresser is free, for whom the
\* clients in the waiting room would not have to wait.
LEMMA WaitingIsDeserted ==
    ASSUME SalonAssumption, TypeOK, Accounts, NobodyForgotten, NobodyFailed,
           EverybodyWaits
    PROVE  Deserted
  <1>1. /\ sem \in [Semaphore -> Nat] /\ queue.length \in Int
        /\ queue.head \in Nat /\ N \in Nat \ {0}
    BY DEF TypeOK, QueueType, SalonAssumption
  <1>2. InQueue = {} /\ Client \cap Hairdresser = {}
    BY DEF EverybodyWaits, InQueue, At, SalonAssumption
  <1>3. sem["queue_mutex"] = 1
    BY <1>1, <1>2, FS_EmptySet DEF Accounts, QueueMutexHeld, Semaphore
  <1>4. At(Hairdresser, {"call", "cut", "failed"}) = {}
    BY DEF EverybodyWaits, NobodyFailed, At
  <1>5. sem["chairs"] = N
    BY <1>1, <1>4, FS_EmptySet DEF Accounts, ChairsAccounted, Semaphore
  <1>6. \A h \in Hairdresser :
           pc[h] = "home" \/ (pc[h] = "idle" /\ sem["haircuts"] = 0)
    BY <1>1, <1>3, <1>5 DEF EverybodyWaits, NobodyFailed
  <1>7. \A c \in Client : \/ pc[c] \in {"shorn", "turned_away"}
                          \/ pc[c] = "wait" /\ sem["hairdresser"] = 0
                          \/ pc[c] = "being_cut" /\ selfMutex[c] = 0
    BY <1>3 DEF EverybodyWaits
  <1>8. CASE \A h \in Hairdresser : pc[h] = "home"
    BY <1>8 DEF Deserted
  <1>9. CASE \E h \in Hairdresser : pc[h] # "home"
    <2>1. Hairdresser # {} /\ sem["haircuts"] = 0
      BY <1>6, <1>9
    <2>2. \A L : L \cap {"home", "idle"} = {} =>
                    Cardinality(At(Hairdresser, L)) = 0
      BY <1>6, FS_EmptySet DEF At
    <2>3. \A L : L \cap {"wait", "being_cut", "shorn", "turned_away"} = {} =>
                    Cardinality(At(Client, L)) = 0
      BY <1>7, FS_EmptySet DEF At
    <2>4. queue.length = 0
      BY <1>1, <2>1, <2>2, <2>3 DEF Accounts, HaircutsCounted, Semaphore
    <2>5. sem["hairdresser"] = M
      BY <1>1, <2>2, <2>3, <2>4 DEF Accounts, HairdressersPromised, Semaphore
    <2>6. M # 0
      BY <2>1, FS_EmptySet DEF M, SalonAssumption
    <2>7. Slots = {} /\ Busy = {}
      BY <1>1, <1>6, <2>4 DEF Slots, Busy, At
    <2>8. \A c \in Client : pc[c] = "being_cut" => selfMutex[c] # 0
      BY <2>7 DEF NobodyForgotten, Waiting, At
    <2> QED
      BY <1>6, <1>7, <2>5, <2>6, <2>8 DEF Deserted
  <1> QED
    BY <1>8, <1>9

\* Clients and hairdressers never come to wait on each other: when every
\* process is gone or blocked in semop, the salon is deserted (client.c 24-37,
\* hairdresser.c 21-34).
THEOREM NeverWaitOnEachOther == Spec => []StuckOnlyWhenDeserted
  <1>1. TypeOK /\ Accounts /\ NobodyForgotten /\ NobodyFailed
            => StuckOnlyWhenDeserted
    BY WaitingIsDeserted, SalonAssumption DEF StuckOnlyWhenDeserted
  <1> QED
    BY <1>1, TypeCorrect, AccountsHold, NobodyEverForgotten, NobodyEverFails,
       PTL

-----------------------------------------------------------------------------
(* The last one locks up *)

\* Hairdressers who sent their last client out and found nobody else.
Off     == {"nap", "room_again", "haircuts_again", "home"}
Checked == Off \cup {"haircuts"}
AllOff  == \A h \in Hairdresser : pc[h] \in Off

Outside   == At(Client, {"outside"})
Gone      == At(Client, {"shorn", "turned_away"})
Unsettled == {c \in Client \ Outside : ~Settled(c)}

\* Clients on the way to a seat, a haircut or the door, blocked by nobody.
Coming == At(Client, {"enter", "ask", "sit", "lock", "place", "count",
                      "unlock", "announce"})

\* Two hairdressers can give one seat back twice (hairdresser.c 24), but the
\* last to pass the first look saw as many seats free as there are, and nobody
\* gives one back while all are past it.
RoomInv == (\A h \in Hairdresser : pc[h] \in Checked) =>
              sem["wait"] <= WAITING_ROOM

\* A nap that will outlast the next client to come, or one that is coming.
Watches(h) ==
    /\ pc[h] = "nap"
    /\ \/ (Outside # {} => expected[h]) /\ Unsettled \subseteq owing[h]
       \/ owing[h] \cap Coming # {}

HaircutSeen == /\ sem["haircuts"] > 0
               /\ \E h \in Hairdresser :
                     pc[h] \in {"nap", "room_again", "haircuts_again"}
SeatSeen == /\ sem["wait"] < WAITING_ROOM
            /\ \E h \in Hairdresser : pc[h] \in {"nap", "room_again"}

\* When every hairdresser is off, either nobody is left to cut, or some
\* hairdresser has yet to see what calls them back, or naps until there is
\* something to see.
LastToKnow == AllOff => \/ Gone = Client \/ HaircutSeen \/ SeatSeen
                        \/ \E h \in Hairdresser : Watches(h)

\* The timed salon takes no step that the untimed one could not take.
LEMMA TimedIsSalon == TimedSpec => Spec
  <1>1. TimedInit => Init
    BY DEF TimedInit
  <1>2. [TimedNext]_tvars => [Next]_vars
    BY DEF TimedNext, TimedHairdresser, TimedClient, NapOver, Next, tvars, vars
  <1> QED
    BY <1>1, <1>2, PTL DEF TimedSpec, Spec

\* What the steps do to the hairdressers' labels and to sem_wait.
LEMMA RoomKept ==
    ASSUME SalonAssumption, TypeOK, RoomInv, Next
    PROVE  RoomInv'
  <1> SUFFICES ASSUME \A h \in Hairdresser : pc'[h] \in Checked
               PROVE  sem'["wait"] <= WAITING_ROOM
    BY DEF RoomInv
  <1>1. /\ Client \cap Hairdresser = {} /\ sem \in [Semaphore -> Nat]
        /\ pc \in [Client \cup Hairdresser -> ClientLabel \cup BarberLabel]
        /\ WAITING_ROOM \in Nat
    BY DEF SalonAssumption, TypeOK
  <1>2. CASE \E c \in Client : SpawnClient(c) \/ ClientStep(c)
    <2>1. PICK c \in Client : SpawnClient(c) \/ ClientStep(c)
      BY <1>2
    <2>2. \A h \in Hairdresser : pc[h] = pc'[h]
      BY <1>1, <2>1 DEF SpawnClient, ClientStep, CreateSelfMutex,
         GetHairdresser, AllOccupied, TakeSeat, ComeAnotherTime,
         AwaitHairdresser, LockQueue, PushPlace, PushCount, UnlockQueue,
         AnnounceHaircut, AwaitHaircut, DeleteSelfMutex, Goes
    <2>3. sem["wait"] <= WAITING_ROOM
      BY <2>2 DEF RoomInv
    <2>4. sem'["wait"] <= sem["wait"]
      BY <1>1, <2>1 DEF SpawnClient, ClientStep, CreateSelfMutex,
         GetHairdresser, AllOccupied, TakeSeat, ComeAnotherTime,
         AwaitHairdresser, LockQueue, PushPlace, PushCount, UnlockQueue,
         AnnounceHaircut, AwaitHaircut, DeleteSelfMutex, acquire, release,
         Semaphore
    <2>5. sem'["wait"] \in Nat
      BY <1>1, <2>1 DEF SpawnClient, ClientStep, CreateSelfMutex,
         GetHairdresser, AllOccupied, TakeSeat, ComeAnotherTime,
         AwaitHairdresser, LockQueue, PushPlace, PushCount, UnlockQueue,
         AnnounceHaircut, AwaitHaircut, DeleteSelfMutex, acquire, release,
         Semaphore
    <2> QED
      BY <1>1, <2>3, <2>4, <2>5 DEF Semaphore
  <1>3. CASE \E h \in Hairdresser :
                SpawnHairdresser(h) \/ HairdresserStep(h) \/ WakeUp(h)
    <2>1. PICK h \in Hairdresser :
                  SpawnHairdresser(h) \/ HairdresserStep(h) \/ WakeUp(h)
      BY <1>3
    <2>2. pc'[h] \in Checked /\ h \in DOMAIN pc
      BY <1>1
    <2>3. \/ CheckRoom(h) /\ waiting_room_empty
          \/ CheckHaircuts(h) \/ WakeUp(h) \/ CheckRoomAgain(h)
          \/ CheckHaircutsAgain(h)
      BY <1>1, <2>1, <2>2 DEF SpawnHairdresser, HairdresserStep, WakeUp,
         AwaitClient, LookAtRoom, FreeSeat, LockForPop, PopRead, PopDrop,
         UnlockAfterPop, TakeChair, OpenClientMutex, CutAndFreeChair,
         ReleaseClient, FreeHairdresser, CheckRoom, Goes, Checked, Off
    <2>4. CASE CheckRoom(h) /\ waiting_room_empty
      BY <1>1, <2>4 DEF CheckRoom, waiting_room_empty
    <2>5. CASE CheckHaircuts(h) \/ WakeUp(h) \/ CheckRoomAgain(h)
                  \/ CheckHaircutsAgain(h)
      <3>1. /\ sem' = sem /\ pc[h] \in Checked
            /\ \A g \in Hairdresser \ {h} : pc'[g] = pc[g]
        BY <1>1, <2>5 DEF CheckHaircuts, WakeUp, CheckRoomAgain,
                          CheckHaircutsAgain, Goes, Checked, Off
      <3>2. \A g \in Hairdresser : pc[g] \in Checked
        BY <3>1
      <3> QED
        BY <3>1, <3>2 DEF RoomInv
    <2> QED
      BY <2>3, <2>4, <2>5
  <1>4. CASE ClearUp
    BY <1>4 DEF ClearUp, RoomInv
  <1>5. CASE Stopped
    BY <1>5 DEF Stopped, vars, RoomInv
  <1> QED
    BY <1>2, <1>3, <1>4, <1>5 DEF Next

\* If nobody is outside and everybody inside is blocked for good, then nobody
\* is inside, or a haircut was announced: a client blocked in the waiting room
\* means that every hairdresser is promised, and one blocked on the own
\* semaphore is in the line.
LEMMA SettledIsAnnounced ==
    ASSUME SalonAssumption, TimedAssumption, TypeOK, HaircutsCounted,
           HairdressersPromised, NobodyForgotten, AllOff, Outside = {},
           Unsettled = {}
    PROVE  Gone = Client \/ sem["haircuts"] > 0
  <1> SUFFICES ASSUME NEW c \in Client, c \notin Gone
               PROVE  sem["haircuts"] > 0
    BY DEF Gone, At
  <1>1. \A d \in Client : Settled(d)
    BY DEF Unsettled
  <1>2. \A L : {"wait", "being_cut", "shorn", "turned_away"} \cap L = {}
                 => Cardinality(At(Client, L)) = 0
    BY <1>1, FS_EmptySet DEF Settled, At
  <1>3. Busy = {}
    BY DEF AllOff, Off, At, Busy
  <1>4. \A L : Off \cap L = {} => Cardinality(At(Hairdresser, L)) = 0
    BY FS_EmptySet DEF AllOff, At
  <1>5. /\ sem["hairdresser"] \in Nat /\ sem["haircuts"] \in Nat
        /\ queue.length \in Int /\ queue.head \in Nat
    BY DEF TypeOK, Semaphore, QueueType
  <1>6. queue.length = sem["haircuts"]
    BY <1>2, <1>4, <1>5 DEF HaircutsCounted, Off
  <1>7. sem["hairdresser"] + queue.length = M
    BY <1>2, <1>4, <1>5 DEF HairdressersPromised, Off
  <1>8. M \in Nat /\ M # 0
    BY FS_CardinalityType, FS_EmptySet DEF M, SalonAssumption, TimedAssumption
  <1>9. CASE pc[c] = "wait" /\ sem["hairdresser"] = 0
    BY <1>5, <1>6, <1>7, <1>8, <1>9
  <1>10. CASE pc[c] = "being_cut" /\ selfMutex[c] = 0
    <2>1. c \in Waiting
      BY <1>10 DEF Waiting, At
    <2>2. \E i \in Slots : queue.q[i] = c
      BY <1>3, <1>10, <2>1 DEF NobodyForgotten
    <2> QED
      BY <1>5, <1>6, <2>2 DEF Slots
  <1> QED
    BY <1>1, <1>9, <1>10 DEF Settled, Gone, At

\* A nap goes on watching over a step that brings nobody in and unblocks
\* nobody.
LEMMA WatchKept ==
    ASSUME NapsGoOn, NEW h \in Hairdresser, Watches(h), pc'[h] = "nap",
           Outside' = Outside, \A c \in Client : Settled(c) => Settled(c)',
           \A c \in owing[h] \cap Coming : c \in Coming'
    PROVE  Watches(h)'
  <1>1. owing'[h] = {c \in Client : /\ pc'[c] # "outside"
                                    /\ ~Settled(c)'
                                    /\ \/ pc[h] # "nap"
                                       \/ c \in owing[h]
                                       \/ expected[h] /\ Arrives(c)}
    BY DEF NapsGoOn
  <1>2. \A c \in Client : ~Arrives(c)
    BY DEF Arrives, Outside, At
  <1>3. CASE (Outside # {} => expected[h]) /\ Unsettled \subseteq owing[h]
    <2>1. Unsettled' \subseteq Unsettled
      BY DEF Unsettled
    <2>2. Unsettled' \subseteq owing'[h]
      BY <1>1, <1>3, <2>1 DEF Unsettled, Outside, At
    <2>3. Outside' # {} => expected'[h]
      BY <1>2, <1>3 DEF NapsGoOn, Outside, At, Watches
    <2> QED
      BY <2>2, <2>3 DEF Watches
  <1>4. CASE owing[h] \cap Coming # {}
    <2>1. PICK c \in owing[h] : c \in Coming /\ c \in Coming'
      BY <1>4
    <2>2. c \in Client /\ pc'[c] # "outside" /\ ~Settled(c)'
      BY <2>1 DEF Coming, At, Settled
    <2>3. c \in owing'[h]
      BY <1>1, <2>1, <2>2
    <2> QED
      BY <2>1, <2>3 DEF Watches
  <1> QED
    BY <1>3, <1>4 DEF Watches

\* The last hairdresser to look in vain falls asleep knowing all that are left.
LEMMA FallsAsleepWatching ==
    ASSUME SalonAssumption, TypeOK, NEW h \in Hairdresser, CheckHaircuts(h),
           NapsGoOn, pc'[h] = "nap"
    PROVE  Watches(h)'
  <1>1. pc[h] = "haircuts"
    BY DEF CheckHaircuts, Goes
  <1>2. owing'[h] = {c \in Client : pc'[c] # "outside" /\ ~Settled(c)'}
    BY <1>1 DEF NapsGoOn
  <1>3. Unsettled' \subseteq owing'[h]
    BY <1>2 DEF Unsettled, Outside, At
  <1>4. Outside' # {} => expected'[h]
    BY <1>1 DEF NapsGoOn, Outside, At
  <1> QED
    BY <1>3, <1>4 DEF Watches

\* The steps of a hairdresser who is off.
LEMMA OffStep ==
    ASSUME SalonAssumption, TimedAssumption, TypeOK, HaircutsCounted,
           HairdressersPromised, NobodyForgotten, LastToKnow, AllOff, AllOff',
           NEW g \in Hairdresser, TimedHairdresser(g), NapsGoOn
    PROVE  LastToKnow'
  <1>1. pc[g] \in Off /\ pc'[g] \in Off /\ g \in DOMAIN pc
        /\ pc \in [Client \cup Hairdresser -> ClientLabel \cup BarberLabel]
        /\ Client \cap Hairdresser = {}
    BY DEF AllOff, TypeOK, SalonAssumption
  <1>2. \/ NapOver(g)
        \/ CheckRoomAgain(g) /\ waiting_room_empty
        \/ CheckHaircutsAgain(g) /\ hair_queue_empty
    BY <1>1 DEF TimedHairdresser, SpawnHairdresser, HairdresserStep,
       AwaitClient, LookAtRoom, FreeSeat, LockForPop, PopRead, PopDrop,
       UnlockAfterPop, TakeChair, OpenClientMutex, CutAndFreeChair,
       ReleaseClient, FreeHairdresser, CheckRoom, CheckHaircuts,
       CheckRoomAgain, CheckHaircutsAgain, Goes, Off
  <1>3. /\ UNCHANGED <<sem, selfMutex, queue>>
        /\ \A p \in (Client \cup Hairdresser) \ {g} : pc'[p] = pc[p]
        /\ \A c \in Client : pc'[c] = pc[c]
    BY <1>1, <1>2 DEF NapOver, WakeUp, CheckRoomAgain, CheckHaircutsAgain, Goes
  <1>4. /\ Gone' = Gone /\ Outside' = Outside /\ Coming' = Coming
        /\ \A c \in Client : Settled(c)' <=> Settled(c)
    BY <1>3 DEF Gone, Outside, Coming, At, Settled
  <1>5. ASSUME NEW h \in Hairdresser \ {g}, Watches(h)
        PROVE  Watches(h)'
    <2>1. pc'[h] = "nap"
      BY <1>3, <1>5 DEF Watches
    <2> QED
      BY <1>4, <1>5, <2>1, WatchKept
  <1>6. CASE Gone = Client
    BY <1>4, <1>6 DEF LastToKnow
  <1>7. CASE \E h \in Hairdresser \ {g} : Watches(h)
    BY <1>5, <1>7 DEF LastToKnow
  <1>8. CASE NapOver(g)
    <2>1. /\ pc[g] = "nap" /\ pc'[g] = "room_again"
          /\ owing[g] = {} /\ ~expected[g]
      BY <1>1, <1>8 DEF NapOver, WakeUp, Goes
    <2>2. CASE HaircutSeen
      BY <1>3, <2>1, <2>2 DEF LastToKnow, HaircutSeen
    <2>3. CASE SeatSeen
      BY <1>3, <2>1, <2>3 DEF LastToKnow, SeatSeen
    <2>4. CASE Watches(g)
      <3>1. Outside = {} /\ Unsettled = {}
        BY <2>1, <2>4 DEF Watches
      <3>2. Gone = Client \/ sem["haircuts"] > 0
        BY <3>1, SettledIsAnnounced
      <3> QED
        BY <1>3, <1>4, <2>1, <3>2 DEF LastToKnow, HaircutSeen
    <2> QED
      BY <1>6, <1>7, <2>2, <2>3, <2>4 DEF LastToKnow
  <1>9. CASE CheckRoomAgain(g) /\ waiting_room_empty
    <2>1. /\ pc[g] = "room_again" /\ pc'[g] = "haircuts_again"
          /\ sem["wait"] = WAITING_ROOM /\ WAITING_ROOM \in Nat
      BY <1>1, <1>9 DEF CheckRoomAgain, Goes, waiting_room_empty, SalonAssumption
    <2>2. CASE HaircutSeen
      BY <1>3, <2>1, <2>2 DEF LastToKnow, HaircutSeen
    <2>3. ~SeatSeen /\ ~Watches(g)
      BY <2>1 DEF SeatSeen, Watches
    <2> QED
      BY <1>6, <1>7, <2>2, <2>3 DEF LastToKnow
  <1>10. CASE CheckHaircutsAgain(g) /\ hair_queue_empty
    <2>1. /\ pc[g] = "haircuts_again" /\ sem["haircuts"] = 0
      BY <1>10 DEF CheckHaircutsAgain, Goes, hair_queue_empty
    <2>2. ~HaircutSeen /\ ~Watches(g)
      BY <2>1 DEF HaircutSeen, Watches
    <2>3. CASE SeatSeen
      <3>1. PICK h \in Hairdresser : pc[h] \in {"nap", "room_again"}
        BY <2>3 DEF SeatSeen
      <3>2. h # g
        BY <2>1, <3>1
      <3> QED
        BY <1>3, <2>3, <3>1, <3>2 DEF LastToKnow, SeatSeen
    <2> QED
      BY <1>6, <1>7, <2>2, <2>3 DEF LastToKnow
  <1> QED
    BY <1>2, <1>8, <1>9, <1>10

\* A client forked while every hairdresser is off is one that a nap expects.
LEMMA SpawnIsExpected ==
    ASSUME SalonAssumption, TypeOK, NEW h \in Hairdresser, Watches(h),
           NEW c \in Client, SpawnClient(c), NapsGoOn
    PROVE  Watches(h)'
  <1>1. /\ pc[c] = "outside" /\ pc' = [pc EXCEPT ![c] = "enter"]
        /\ UNCHANGED <<sem, selfMutex>>
        /\ c \in DOMAIN pc /\ Client \cap Hairdresser = {}
        /\ h \in DOMAIN pc /\ h # c
    BY DEF SpawnClient, Goes, TypeOK, SalonAssumption
  <1>2. pc[h] = "nap" /\ pc'[h] = "nap" /\ pc'[c] = "enter"
    BY <1>1 DEF Watches
  <1>3. owing'[h] = {d \in Client : /\ pc'[d] # "outside"
                                    /\ ~Settled(d)'
                                    /\ \/ pc[h] # "nap"
                                       \/ d \in owing[h]
                                       \/ expected[h] /\ Arrives(d)}
    BY <1>2 DEF NapsGoOn
  <1>4. CASE Outside # {} => expected[h]
    <2>1. expected[h] /\ Arrives(c) /\ ~Settled(c)'
      BY <1>1, <1>2, <1>4 DEF Outside, At, Arrives, Settled
    <2>2. c \in owing'[h] /\ c \in Coming'
      BY <1>2, <1>3, <2>1 DEF Coming, At
    <2> QED
      BY <1>2, <2>2 DEF Watches
  <1>5. CASE owing[h] \cap Coming # {}
    <2>1. PICK d \in owing[h] : d \in Coming
      BY <1>5
    <2>2. d \in Client /\ pc'[d] = pc[d]
      BY <1>1, <2>1 DEF Coming, At
    <2>3. d \in Coming' /\ pc'[d] # "outside" /\ ~Settled(d)'
      BY <2>1, <2>2 DEF Coming, At, Settled
    <2>4. d \in owing'[h]
      BY <1>3, <2>1, <2>2, <2>3
    <2> QED
      BY <1>2, <2>3, <2>4 DEF Watches
  <1> QED
    BY <1>4, <1>5 DEF Watches

\* A client who moves was not blocked, and what it does is seen: it takes the
\* seat or the door that a full waiting room leaves, or announces its haircut,
\* or is still coming.
LEMMA ComingIsSeen ==
    ASSUME SalonAssumption, TimedAssumption, TypeOK, RoomInv, LastToKnow,
           AllOff, NEW c \in Client, ClientStep(c), NapsGoOn
    PROVE  LastToKnow'
  <1>1. /\ Client \cap Hairdresser = {} /\ c \in DOMAIN pc
        /\ pc \in [Client \cup Hairdresser -> ClientLabel \cup BarberLabel]
        /\ sem \in [Semaphore -> Nat]
        /\ selfMutex \in [Client -> Nat \cup {NoMutex}]
        /\ WAITING_ROOM \in Nat /\ WAITING_ROOM > 0
    BY DEF SalonAssumption, TimedAssumption, TypeOK
  <1> USE DEF CreateSelfMutex, GetHairdresser, AllOccupied, TakeSeat,
              ComeAnotherTime, AwaitHairdresser, LockQueue, PushPlace,
              PushCount, UnlockQueue, AnnounceHaircut, AwaitHaircut,
              DeleteSelfMutex, ClientStep
  <1>2. /\ \A p \in (Client \cup Hairdresser) \ {c} : pc'[p] = pc[p]
        /\ \A h \in Hairdresser : pc'[h] = pc[h]
        /\ pc[c] # "outside" /\ pc'[c] # "outside"
        /\ pc[c] \notin {"shorn", "turned_away"}
    BY <1>1 DEF Goes
  <1>3. ~Settled(c)
    BY <1>1 DEF Goes, Settled, acquire
  <1>4. /\ sem'["haircuts"] >= sem["haircuts"]
        /\ sem'["wait"] <= sem["wait"]
        /\ sem["hairdresser"] = 0 => sem'["hairdresser"] = 0
        /\ \A d \in Client \ {c} : selfMutex'[d] = selfMutex[d]
        /\ sem' \in [Semaphore -> Nat]
    BY <1>1 DEF Goes, acquire, release, Semaphore
  <1>5. \A d \in Client : Settled(d) => Settled(d)'
    BY <1>2, <1>3, <1>4 DEF Settled
  <1>6. Outside' = Outside /\ Coming \ {c} \subseteq Coming'
    BY <1>2 DEF Outside, Coming, At
  <1>7. CASE Gone = Client
    BY <1>2, <1>7 DEF Gone, At
  <1>8. CASE HaircutSeen
    BY <1>1, <1>2, <1>4, <1>8 DEF LastToKnow, HaircutSeen, Semaphore
  <1>9. CASE SeatSeen
    BY <1>1, <1>2, <1>4, <1>9 DEF LastToKnow, SeatSeen, Semaphore
  <1>10. CASE \E h \in Hairdresser : Watches(h)
    <2>1. PICK h \in Hairdresser : Watches(h)
      BY <1>10
    <2>2. pc[h] = "nap" /\ pc'[h] = "nap"
      BY <1>2, <2>1 DEF Watches
    <2>3. CASE c \in Coming => c \in Coming'
      BY <1>5, <1>6, <2>1, <2>2, <2>3, WatchKept DEF LastToKnow
    <2>4. CASE c \in Coming /\ c \notin Coming'
      <3>1. TakeSeat(c) \/ ComeAnotherTime(c) \/ AnnounceHaircut(c)
        BY <1>1, <2>4 DEF Goes, Coming, At
      <3>2. CASE TakeSeat(c) \/ ComeAnotherTime(c)
        <4>1. sem["wait"] <= WAITING_ROOM
          BY DEF RoomInv, AllOff, Checked
        <4>2. sem'["wait"] < WAITING_ROOM
          BY <1>1, <3>2, <4>1 DEF acquire, Semaphore
        <4> QED
          BY <2>2, <4>2 DEF LastToKnow, SeatSeen
      <3>3. CASE AnnounceHaircut(c)
        <4>1. sem'["haircuts"] > 0
          BY <1>1, <3>3 DEF release, Semaphore
        <4> QED
          BY <2>2, <4>1 DEF LastToKnow, HaircutSeen
      <3> QED
        BY <3>1, <3>2, <3>3
    <2> QED
      BY <2>3, <2>4
  <1> QED
    BY <1>7, <1>8, <1>9, <1>10 DEF LastToKnow

\* Every step keeps somebody informed.
LEMMA LastToKnowKept ==
    ASSUME SalonAssumption, TimedAssumption, TypeOK, HaircutsCounted,
           HairdressersPromised, NobodyForgotten, RoomInv, LastToKnow,
           TimedNext
    PROVE  LastToKnow'
  <1> SUFFICES ASSUME AllOff'
               PROVE  LastToKnow'
    BY DEF LastToKnow
  <1>1. NapsGoOn
    BY DEF TimedNext
  <1>2. /\ Client \cap Hairdresser = {}
        /\ pc \in [Client \cup Hairdresser -> ClientLabel \cup BarberLabel]
    BY DEF SalonAssumption, TypeOK
  <1>3. ASSUME NEW c \in Client, TimedClient(c)
        PROVE  LastToKnow'
    <2>1. \A h \in Hairdresser : pc'[h] = pc[h]
      BY <1>2, <1>3 DEF TimedClient, SpawnClient, ClientStep, CreateSelfMutex,
         GetHairdresser, AllOccupied, TakeSeat, ComeAnotherTime,
         AwaitHairdresser, LockQueue, PushPlace, PushCount, UnlockQueue,
         AnnounceHaircut, AwaitHaircut, DeleteSelfMutex, Goes
    <2>2. AllOff
      BY <2>1 DEF AllOff
    <2>3. CASE ClientStep(c)
      BY <1>1, <2>2, <2>3, ComingIsSeen
    <2>4. CASE SpawnClient(c)
      <3>1. c \notin Gone /\ sem' = sem
        BY <2>4 DEF SpawnClient, Goes, Gone, At
      <3>2. CASE \E h \in Hairdresser : Watches(h)
        BY <1>1, <2>4, <3>2, SpawnIsExpected DEF LastToKnow
      <3>3. CASE HaircutSeen \/ SeatSeen
        BY <2>1, <3>1, <3>3 DEF LastToKnow, HaircutSeen, SeatSeen
      <3> QED
        BY <2>2, <3>1, <3>2, <3>3 DEF LastToKnow
    <2> QED
      BY <1>3, <2>3, <2>4 DEF TimedClient
  <1>4. ASSUME NEW g \in Hairdresser, TimedHairdresser(g)
        PROVE  LastToKnow'
    <2>1. CASE AllOff
      BY <1>1, <1>4, <2>1, OffStep
    <2>2. CASE ~AllOff
      <3>1. \A h \in Hairdresser \ {g} : pc'[h] = pc[h]
        BY <1>2, <1>4 DEF TimedHairdresser, SpawnHairdresser, HairdresserStep,
           NapOver, WakeUp, AwaitClient, LookAtRoom, FreeSeat, LockForPop,
           PopRead, PopDrop, UnlockAfterPop, TakeChair, OpenClientMutex,
           CutAndFreeChair, ReleaseClient, FreeHairdresser, CheckRoom,
           CheckHaircuts, CheckRoomAgain, CheckHaircutsAgain, Goes
      <3>2. pc[g] \notin Off /\ pc'[g] \in Off
        BY <2>2, <3>1 DEF AllOff
      <3>3. CheckHaircuts(g) /\ pc'[g] = "nap"
        BY <1>2, <1>4, <3>2 DEF TimedHairdresser, SpawnHairdresser,
           HairdresserStep, NapOver, WakeUp, AwaitClient, LookAtRoom, FreeSeat,
           LockForPop, PopRead, PopDrop, UnlockAfterPop, TakeChair,
           OpenClientMutex, CutAndFreeChair, ReleaseClient, FreeHairdresser,
           CheckRoom, CheckHaircuts, CheckRoomAgain, CheckHaircutsAgain, Goes,
           Off
      <3> QED
        BY <1>1, <3>3, FallsAsleepWatching DEF LastToKnow
    <2> QED
      BY <2>1, <2>2
  <1>5. CASE ClearUp
    <2>1. Gone' = Client
      BY <1>5 DEF ClearUp, Gone, At
    <2> QED
      BY <2>1 DEF LastToKnow
  <1> QED
    BY <1>3, <1>4, <1>5 DEF TimedNext

\* With naps as long as the code's, the last hairdresser to go home leaves
\* nobody behind (hairdresser.c 47-52).
THEOREM LastOneAlwaysLocksUp == TimedSpec => []LastOneLocksUp
  <1> DEFINE IInv == RoomInv /\ LastToKnow
             SalonFacts == /\ TypeOK /\ HaircutsCounted
                           /\ HairdressersPromised /\ NobodyForgotten
  <1>1. TimedInit => IInv
    <2> SUFFICES ASSUME TimedInit PROVE IInv
      OBVIOUS
    <2>1. \A h \in Hairdresser : pc[h] = "away"
      BY SalonAssumption, Processes DEF TimedInit, Init
    <2> QED
      BY <2>1, SalonAssumption, TimedAssumption
         DEF RoomInv, LastToKnow, AllOff, Checked, Off
  <1>2. SalonFacts /\ IInv /\ [TimedNext]_tvars => IInv'
    <2> SUFFICES ASSUME SalonFacts, IInv, [TimedNext]_tvars PROVE IInv'
      OBVIOUS
    <2>1. CASE TimedNext
      <3>1. Next
        BY <2>1 DEF TimedNext, TimedHairdresser, TimedClient, NapOver, Next
      <3> QED
        BY <2>1, <3>1, RoomKept, LastToKnowKept, SalonAssumption,
           TimedAssumption
    <2>2. CASE UNCHANGED tvars
      BY <2>2 DEF tvars, vars, RoomInv, LastToKnow, AllOff, Gone, HaircutSeen,
                  SeatSeen, Watches, Outside, Unsettled, Coming, Settled, At
    <2> QED
      BY <2>1, <2>2
  <1>3. IInv => LastOneLocksUp
    BY DEF LastToKnow, LastOneLocksUp, AllOff, Off, Gone, HaircutSeen, SeatSeen,
           Watches, At
  <1>4. TimedSpec => []SalonFacts
    BY TimedIsSalon, TypeCorrect, AccountsHold, NobodyEverForgotten, PTL
       DEF Accounts
  <1> HIDE DEF IInv, SalonFacts
  <1> QED
    BY <1>1, <1>2, <1>3, <1>4, PTL DEF TimedSpec
=============================================================================
