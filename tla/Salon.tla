-------------------------------- MODULE Salon --------------------------------
(***************************************************************************)
(* The sleeping-barber salon of cw07/zad1: hair_salon.c forks the          *)
(* hairdressers and then the clients, which meet through five System V     *)
(* semaphores, one more semaphore per client, and a queue of pids in       *)
(* shared memory.                                                          *)
(*                                                                         *)
(* Every label of `pc' is a point between two system calls (or two halves  *)
(* of push and pop); every action is the code from one label to the next.  *)
(* Time is left out: a sleep ends whenever it likes.  TimedSalon puts back *)
(* what the naps of the code are long enough for.                          *)
(*                                                                         *)
(* The definitions marked (wrong) are mistakes the code does not make: put *)
(* in place of the definition they precede, each breaks a property below.  *)
(***************************************************************************)
EXTENDS HaircutQueue, FiniteSets

CONSTANTS Hairdresser,    \* the M hairdressers
          N,              \* chairs
          WAITING_ROOM    \* seats of the waiting room (6 in the code)

ASSUME SalonAssumption ==
    /\ IsFiniteSet(Client) /\ IsFiniteSet(Hairdresser)
    /\ Client \cap Hairdresser = {}
    /\ N \in Nat \ {0} /\ WAITING_ROOM \in Nat
    /\ Cardinality(Client) <= MAX_QUEUE_SIZE   \* 20 <= 1024 in the code

M == Cardinality(Hairdresser)

VARIABLES
    salon,       \* "open" while the shared objects exist
    pc,          \* what each client and hairdresser does next
    sem,         \* the five shared semaphores
    selfMutex,   \* the semaphore of each client, NoMutex when it has none
    newHaircut,  \* new_haircut, the pid each hairdresser popped last
    queue        \* the shared queue

vars == <<salon, pc, sem, selfMutex, newHaircut, queue>>

Semaphore == {"hairdresser", "chairs", "wait", "haircuts", "queue_mutex"}
NoMutex == -1

ClientLabel ==
    {"outside", "enter", "ask", "sit", "wait", "lock", "place", "count",
     "unlock", "announce", "being_cut", "leave", "shorn", "turned_away"}
BarberLabel ==
    {"away", "idle", "look", "free_seat", "pop", "read", "drop", "popped",
     "chair", "call", "cut", "finish", "ready", "room", "haircuts", "nap",
     "room_again", "haircuts_again", "home", "failed"}

\* The processes of a set that are at one of some labels.
At(S, labels) == {p \in S : pc[p] \in labels}

-----------------------------------------------------------------------------
\* hair_salon.c up to the first fork: the queue and the semaphores are made.
Init ==
    /\ salon = "open"
    /\ pc = [p \in Client \cup Hairdresser |->
                IF p \in Client THEN "outside" ELSE "away"]
    /\ sem = [s \in Semaphore |-> CASE s = "hairdresser" -> M
                                    [] s = "chairs"      -> N
                                    [] s = "wait"        -> WAITING_ROOM
                                    [] s = "haircuts"    -> 0
                                    [] s = "queue_mutex" -> 1]
    /\ selfMutex = [c \in Client |-> NoMutex]
    /\ newHaircut = [h \in Hairdresser |-> NoClient]
    /\ queue = EmptyQueue

Goes(p, from, to) == pc[p] = from /\ pc' = [pc EXCEPT ![p] = to]

\* semop with -1: blocks while the value is zero.
acquire(s) == sem[s] > 0 /\ sem' = [sem EXCEPT ![s] = @ - 1]
\* semop with +1.
release(s) == sem' = [sem EXCEPT ![s] = @ + 1]

waiting_room_empty == sem["wait"] = WAITING_ROOM
hair_queue_empty   == sem["haircuts"] = 0

-----------------------------------------------------------------------------
(* client.c *)

\* spawn_clients: no client is forked before the last hairdresser.
SpawnClient(c) ==
    /\ At(Hairdresser, {"away"}) = {}
    /\ Goes(c, "outside", "enter")
    /\ UNCHANGED <<salon, sem, selfMutex, newHaircut, queue>>

CreateSelfMutex(c) ==
    /\ Goes(c, "enter", "ask")
    /\ selfMutex' = [selfMutex EXCEPT ![c] = 0]
    /\ UNCHANGED <<salon, sem, newHaircut, queue>>

\* acquire(sem_hairdresser, IPC_NOWAIT), and its failure.
GetHairdresser(c) ==
    /\ Goes(c, "ask", "lock")
    /\ acquire("hairdresser")
    /\ UNCHANGED <<salon, selfMutex, newHaircut, queue>>

AllOccupied(c) ==
    /\ Goes(c, "ask", "sit")
    /\ sem["hairdresser"] = 0
    /\ UNCHANGED <<salon, sem, selfMutex, newHaircut, queue>>

\* acquire(sem_wait, IPC_NOWAIT), and its failure: exit(0), the client's own
\* semaphore left behind.
TakeSeat(c) ==
    /\ Goes(c, "sit", "wait")
    /\ acquire("wait")
    /\ UNCHANGED <<salon, selfMutex, newHaircut, queue>>

ComeAnotherTime(c) ==
    /\ Goes(c, "sit", "turned_away")
    /\ sem["wait"] = 0
    /\ UNCHANGED <<salon, sem, selfMutex, newHaircut, queue>>

\* (wrong) IPC_NOWAIT, and the result not looked at.
BargesIn(c) ==
    /\ Goes(c, "wait", "lock")
    /\ sem' = [sem EXCEPT !["hairdresser"] = IF @ > 0 THEN @ - 1 ELSE @]
    /\ UNCHANGED <<salon, selfMutex, newHaircut, queue>>

\* acquire(sem_hairdresser, 0) from the waiting room.
AwaitHairdresser(c) ==
    /\ Goes(c, "wait", "lock")
    /\ acquire("hairdresser")
    /\ UNCHANGED <<salon, selfMutex, newHaircut, queue>>

LockQueue(c) ==
    /\ Goes(c, "lock", "place")
    /\ acquire("queue_mutex")
    /\ UNCHANGED <<salon, selfMutex, newHaircut, queue>>

PushPlace(c) ==
    /\ Goes(c, "place", "count")
    /\ queue' = Place(queue, c)
    /\ UNCHANGED <<salon, sem, selfMutex, newHaircut>>

PushCount(c) ==
    /\ Goes(c, "count", "unlock")
    /\ queue' = Count(queue)
    /\ UNCHANGED <<salon, sem, selfMutex, newHaircut>>

UnlockQueue(c) ==
    /\ Goes(c, "unlock", "announce")
    /\ release("queue_mutex")
    /\ UNCHANGED <<salon, selfMutex, newHaircut, queue>>

AnnounceHaircut(c) ==
    /\ Goes(c, "announce", "being_cut")
    /\ release("haircuts")
    /\ UNCHANGED <<salon, selfMutex, newHaircut, queue>>

\* acquire(self_mutex, 0)
AwaitHaircut(c) ==
    /\ Goes(c, "being_cut", "leave")
    /\ selfMutex[c] > 0
    /\ selfMutex' = [selfMutex EXCEPT ![c] = @ - 1]
    /\ UNCHANGED <<salon, sem, newHaircut, queue>>

\* (wrong) The client's semaphore is never deleted.
KeepsSelfMutex(c) ==
    /\ Goes(c, "leave", "shorn")
    /\ UNCHANGED <<salon, sem, selfMutex, newHaircut, queue>>

DeleteSelfMutex(c) ==
    /\ Goes(c, "leave", "shorn")
    /\ selfMutex' = [selfMutex EXCEPT ![c] = NoMutex]
    /\ UNCHANGED <<salon, sem, newHaircut, queue>>

-----------------------------------------------------------------------------
(* hairdresser.c *)

SpawnHairdresser(h) ==
    /\ Goes(h, "away", "idle")
    /\ UNCHANGED <<salon, sem, selfMutex, newHaircut, queue>>

AwaitClient(h) ==
    /\ Goes(h, "idle", "look")
    /\ acquire("haircuts")
    /\ UNCHANGED <<salon, selfMutex, newHaircut, queue>>

\* (wrong) The negation of waiting_room_empty() is lost.
LooksTheWrongWay(h) ==
    /\ Goes(h, "look", IF waiting_room_empty THEN "free_seat" ELSE "pop")
    /\ UNCHANGED <<salon, sem, selfMutex, newHaircut, queue>>

\* if(!waiting_room_empty()) release(sem_wait): the look and the release are
\* two system calls, and nothing keeps them together.
LookAtRoom(h) ==
    /\ Goes(h, "look", IF waiting_room_empty THEN "pop" ELSE "free_seat")
    /\ UNCHANGED <<salon, sem, selfMutex, newHaircut, queue>>

FreeSeat(h) ==
    /\ Goes(h, "free_seat", "pop")
    /\ release("wait")
    /\ UNCHANGED <<salon, selfMutex, newHaircut, queue>>

\* (wrong) pop without the mutex.
PopsUnlocked(h) ==
    /\ Goes(h, "pop", "read")
    /\ UNCHANGED <<salon, sem, selfMutex, newHaircut, queue>>

LockForPop(h) ==
    /\ Goes(h, "pop", "read")
    /\ acquire("queue_mutex")
    /\ UNCHANGED <<salon, selfMutex, newHaircut, queue>>

\* pop up to the read of the head; an empty queue gives -1 and is left alone.
PopRead(h) ==
    /\ Goes(h, "read", IF queue_empty(queue) THEN "popped" ELSE "drop")
    /\ \E c \in IF queue_empty(queue) THEN {NoClient} ELSE HeadValues(queue) :
          newHaircut' = [newHaircut EXCEPT ![h] = c]
    /\ UNCHANGED <<salon, sem, selfMutex, queue>>

PopDrop(h) ==
    /\ Goes(h, "drop", "popped")
    /\ queue' = Drop(queue)
    /\ UNCHANGED <<salon, sem, selfMutex, newHaircut>>

\* (wrong) The mutex is not given back.
KeepsQueueMutex(h) ==
    /\ Goes(h, "popped", "chair")
    /\ UNCHANGED <<salon, sem, selfMutex, newHaircut, queue>>

UnlockAfterPop(h) ==
    /\ Goes(h, "popped", "chair")
    /\ release("queue_mutex")
    /\ UNCHANGED <<salon, selfMutex, newHaircut, queue>>

\* (wrong) No chair is acquired.
CutsStanding(h) ==
    /\ Goes(h, "chair", "call")
    /\ UNCHANGED <<salon, sem, selfMutex, newHaircut, queue>>

TakeChair(h) ==
    /\ Goes(h, "chair", "call")
    /\ acquire("chairs")
    /\ UNCHANGED <<salon, selfMutex, newHaircut, queue>>

\* semget finds the client's semaphore, or the hairdresser exits on the spot.
HasMutex(c) == c \in Client /\ selfMutex[c] # NoMutex

OpenClientMutex(h) ==
    /\ Goes(h, "call", IF HasMutex(newHaircut[h]) THEN "cut" ELSE "failed")
    /\ UNCHANGED <<salon, sem, selfMutex, newHaircut, queue>>

\* The sleep of the haircut, then release(sem_chairs, 0).
CutAndFreeChair(h) ==
    /\ Goes(h, "cut", "finish")
    /\ release("chairs")
    /\ UNCHANGED <<salon, selfMutex, newHaircut, queue>>

\* (wrong) The client is not told.
ForgetsClient(h) ==
    /\ Goes(h, "finish", "ready")
    /\ UNCHANGED <<salon, sem, selfMutex, newHaircut, queue>>

\* release(client_mutex, 0); on a semaphore that is gone it only complains.
ReleaseClient(h) ==
    LET c == newHaircut[h]
    IN  /\ Goes(h, "finish", "ready")
        /\ selfMutex' = IF HasMutex(c) THEN [selfMutex EXCEPT ![c] = @ + 1]
                                       ELSE selfMutex
        /\ UNCHANGED <<salon, sem, newHaircut, queue>>

FreeHairdresser(h) ==
    /\ Goes(h, "ready", "room")
    /\ release("hairdresser")
    /\ UNCHANGED <<salon, selfMutex, newHaircut, queue>>

\* The two reads of waiting_room_empty() && hair_queue_empty(), before the
\* nap and after it.
CheckRoom(h) ==
    /\ Goes(h, "room", IF waiting_room_empty THEN "haircuts" ELSE "idle")
    /\ UNCHANGED <<salon, sem, selfMutex, newHaircut, queue>>

CheckHaircuts(h) ==
    /\ Goes(h, "haircuts", IF hair_queue_empty THEN "nap" ELSE "idle")
    /\ UNCHANGED <<salon, sem, selfMutex, newHaircut, queue>>

WakeUp(h) ==
    /\ Goes(h, "nap", "room_again")
    /\ UNCHANGED <<salon, sem, selfMutex, newHaircut, queue>>

CheckRoomAgain(h) ==
    /\ Goes(h, "room_again",
            IF waiting_room_empty THEN "haircuts_again" ELSE "idle")
    /\ UNCHANGED <<salon, sem, selfMutex, newHaircut, queue>>

\* (wrong) The second half of the second check is left out.
LeavesWithoutLooking(h) ==
    /\ Goes(h, "haircuts_again", "home")
    /\ UNCHANGED <<salon, sem, selfMutex, newHaircut, queue>>

CheckHaircutsAgain(h) ==
    /\ Goes(h, "haircuts_again", IF hair_queue_empty THEN "home" ELSE "idle")
    /\ UNCHANGED <<salon, sem, selfMutex, newHaircut, queue>>

-----------------------------------------------------------------------------
\* while(wait(NULL) > 0) ends when no child is left; clear_up follows.
ClearUp ==
    /\ salon = "open"
    /\ \A c \in Client : pc[c] \in {"shorn", "turned_away"}
    /\ \A h \in Hairdresser : pc[h] \in {"home", "failed"}
    /\ salon' = "closed"
    /\ UNCHANGED <<pc, sem, selfMutex, newHaircut, queue>>

ClientStep(c) ==
    \/ CreateSelfMutex(c) \/ GetHairdresser(c) \/ AllOccupied(c)
    \/ TakeSeat(c) \/ ComeAnotherTime(c) \/ AwaitHairdresser(c)
    \/ LockQueue(c) \/ PushPlace(c) \/ PushCount(c) \/ UnlockQueue(c)
    \/ AnnounceHaircut(c) \/ AwaitHaircut(c) \/ DeleteSelfMutex(c)

HairdresserStep(h) ==
    \/ AwaitClient(h) \/ LookAtRoom(h) \/ FreeSeat(h) \/ LockForPop(h)
    \/ PopRead(h) \/ PopDrop(h) \/ UnlockAfterPop(h) \/ TakeChair(h)
    \/ OpenClientMutex(h) \/ CutAndFreeChair(h) \/ ReleaseClient(h)
    \/ FreeHairdresser(h) \/ CheckRoom(h) \/ CheckHaircuts(h)
    \/ CheckRoomAgain(h) \/ CheckHaircutsAgain(h)

\* Every process that is not gone is blocked in semop.
EverybodyWaits ==
    /\ \A c \in Client : \/ pc[c] \in {"shorn", "turned_away"}
                         \/ pc[c] = "wait" /\ sem["hairdresser"] = 0
                         \/ pc[c] = "lock" /\ sem["queue_mutex"] = 0
                         \/ pc[c] = "being_cut" /\ selfMutex[c] = 0
    /\ \A h \in Hairdresser : \/ pc[h] \in {"home", "failed"}
                              \/ pc[h] = "idle" /\ sem["haircuts"] = 0
                              \/ pc[h] = "pop" /\ sem["queue_mutex"] = 0
                              \/ pc[h] = "chair" /\ sem["chairs"] = 0

\* There, and only there, the processes stop.
Stopped == EverybodyWaits /\ UNCHANGED vars

Next == \/ \E h \in Hairdresser :
              SpawnHairdresser(h) \/ HairdresserStep(h) \/ WakeUp(h)
        \/ \E c \in Client : SpawnClient(c) \/ ClientStep(c)
        \/ ClearUp
        \/ Stopped

Spec == Init /\ [][Next]_vars

-----------------------------------------------------------------------------
(* Properties *)

\* The type of every variable.
TypeOK ==
    /\ salon \in {"open", "closed"}
    /\ pc \in [Client \cup Hairdresser -> ClientLabel \cup BarberLabel]
    /\ \A c \in Client : pc[c] \in ClientLabel
    /\ \A h \in Hairdresser : pc[h] \in BarberLabel
    /\ sem \in [Semaphore -> Nat]
    /\ selfMutex \in [Client -> Nat \cup {NoMutex}]
    /\ newHaircut \in [Hairdresser -> Client \cup {NoClient}]
    /\ queue \in QueueType

\* The processes between acquire and release of sem_queue_mutex.
InQueue == At(Client \cup Hairdresser,
              {"place", "count", "unlock", "read", "drop", "popped"})

\* push and pop never overlap: at most one process of client.c 27-32 and
\* hairdresser.c 27-32 is between the lock and the unlock of the queue.
QueueMutexHeld == Cardinality(InQueue) = 1 - sem["queue_mutex"]

\* Barbers busy with a client they popped and have not released yet.
Busy == At(Hairdresser, {"popped", "chair", "call", "cut", "finish"})

\* A hairdresser woken by sem_haircuts finds a client in the queue: pop never
\* prints "Why you want to take something from an empty queue?"
\* (haircut_queue.c 12-15), however pushes, announcements and pops interleave.
PopFindsClient == \A h \in At(Hairdresser, {"read"}) : ~queue_empty(queue)

\* Every client counted in the queue is announced, about to be announced, or
\* spoken for by a hairdresser on the way to pop it.
HaircutsCounted ==
    queue.length = sem["haircuts"]
        + Cardinality(At(Client, {"unlock", "announce"}))
        + Cardinality(At(Hairdresser,
                         {"look", "free_seat", "pop", "read", "drop"}))

\* A client is cut by one hairdresser only, who finds the client's semaphore
\* in place and the client waiting on it or about to (hairdresser.c 37, 43).
ServesWaitingClient ==
    \A h \in Busy :
        /\ newHaircut[h] \in At(Client, {"unlock", "announce", "being_cut"})
        /\ selfMutex[newHaircut[h]] = 0
        /\ \A g \in Busy \ {h} : newHaircut[g] # newHaircut[h]

\* No more than N clients are in a chair, and a chair that nobody uses is free
\* for the next (hairdresser.c 34-40).
ChairsAccounted ==
    sem["chairs"] = N - Cardinality(At(Hairdresser, {"call", "cut", "failed"}))

\* A hairdresser is promised to one client at a time: the clients past
\* sem_hairdresser that are not yet queued, the queued ones and those being
\* served are together as many as the hairdressers not free.
HairdressersPromised ==
    sem["hairdresser"]
        + Cardinality(At(Client, {"lock", "place", "count"})) + queue.length
        + Cardinality(At(Hairdresser, {"popped", "chair", "call", "cut",
                                       "finish", "ready", "failed"})) = M

\* The seats taken from sem_wait will all be given back: each is backed by a
\* client still on the way to announce a haircut, by an announced haircut, or
\* by a hairdresser who has yet to look at the room.
SeatNeverLost ==
    WAITING_ROOM - sem["wait"] <=
        Cardinality(At(Client, {"wait", "lock", "place", "count", "unlock",
                                "announce"}))
        + sem["haircuts"]
        + Cardinality(At(Hairdresser, {"look", "free_seat"}))

\* The array is never read or written out of its bounds although pop does not
\* wrap the head round (haircut_queue.c 17): it takes more than MAX_QUEUE_SIZE
\* clients to get there.
HeadInBounds == queue.head \in Indices

\* Nobody is left inside but hairdressers waiting for clients that will not
\* come, or every hairdresser went home.
Deserted ==
    \/ /\ \A c \in Client : pc[c] \in {"shorn", "turned_away"}
       /\ \A h \in Hairdresser : pc[h] \in {"idle", "home"}
    \/ \A h \in Hairdresser : pc[h] = "home"

\* The salon never freezes on its own semaphores: everybody waits only when the
\* salon is deserted (client.c 24-37, hairdresser.c 21-34).
StuckOnlyWhenDeserted == EverybodyWaits => Deserted

\* What is left in the system after clear_up: the semaphores of exactly the
\* clients who were turned away at client.c 22.
OnlyTurnedAwayLeak ==
    salon = "closed" =>
        \A c \in Client : pc[c] = "turned_away" <=> selfMutex[c] # NoMutex

\* What the barbershop sees of the salon.
Line    == Contents(queue)
Serving == [h \in Hairdresser |-> IF h \in Busy THEN newHaircut[h] ELSE NoClient]
Done    == {c \in Client : selfMutex[c] > 0 \/ pc[c] \in {"leave", "shorn"}}

Shop == INSTANCE Barbershop WITH line <- Line, serving <- Serving, done <- Done

\* The salon implements the barbershop: first come, first served, every client
\* at most once, nobody done without having been in line.
ImplementsBarbershop == Shop!Spec
=============================================================================
