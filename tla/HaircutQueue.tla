---------------------------- MODULE HaircutQueue ----------------------------
(***************************************************************************)
(* The queue of cw07/zad1/haircut_queue.c: a fixed array with a head, a    *)
(* tail and a length, placed in shared memory by the salon.  Nothing in    *)
(* push or pop is atomic, so each is cut in two at its only point where    *)
(* another process could tell the halves apart: push into place and count, *)
(* pop into reading the head and dropping it.                              *)
(*                                                                         *)
(* The definitions marked (wrong) are mistakes the code does not make: put *)
(* in place of the one they precede, each breaks a property of the salon.  *)
(***************************************************************************)
EXTENDS Integers, Sequences

CONSTANTS MAX_QUEUE_SIZE,   \* length of the array (1024 in the code)
          Client,           \* the pids a slot of the array may hold
          NoClient          \* -1, what pop returns for an empty queue

ASSUME QueueAssumption == /\ MAX_QUEUE_SIZE \in Nat \ {0}
                          /\ NoClient \notin Client

Indices == 0 .. MAX_QUEUE_SIZE - 1

QueueType == [ head : Nat, tail : Indices, length : Int,
               q : [Indices -> Client \cup {NoClient}] ]

\* init_shared_queue sets the three numbers; the array is fresh shared memory.
EmptyQueue == [ head |-> 0, tail |-> 0, length |-> 0,
                q |-> [i \in Indices |-> NoClient] ]

queue_empty(Q) == Q.length = 0

-----------------------------------------------------------------------------
\* push, first half: the tail moves on unless the queue is empty, and the
\* client is stored at the tail.
Place(Q, c) ==
    LET t == IF queue_empty(Q) THEN Q.tail ELSE (Q.tail + 1) % MAX_QUEUE_SIZE
    IN  [Q EXCEPT !.tail = t, !.q[t] = c]

\* push, second half.
Count(Q) == [Q EXCEPT !.length = @ + 1]

\* (wrong) Last come, first served.
TailValues(Q) == {Q.q[Q.tail]}

\* pop, first half: what reading q[head] may give.  The head is never wrapped
\* round, so beyond the end of the array the read is undefined.
HeadValues(Q) == IF Q.head \in Indices THEN {Q.q[Q.head]}
                                       ELSE Client \cup {NoClient}

\* (wrong) The length is reset where it should be decremented.
DropAll(Q) == [Q EXCEPT !.head = IF Q.length > 1 THEN @ + 1 ELSE @,
                        !.length = 0]

\* pop, second half: the head stays where it is when the queue becomes empty.
Drop(Q) == [Q EXCEPT !.head = IF Q.length > 1 THEN @ + 1 ELSE @,
                     !.length = @ - 1]

-----------------------------------------------------------------------------
\* The clients in the queue, first come first.
Contents(Q) == [i \in 1 .. Q.length |-> Q.q[Q.head + i - 1]]
=============================================================================
