---------------------------- MODULE MessageQueues ----------------------------
(***************************************************************************)
(* The message queues of the operating system, as the chats of cw06 use    *)
(* them: a queue is the sequence of its messages, oldest first; a message  *)
(* is a record with a number mtype.                                        *)
(***************************************************************************)
EXTENDS Integers, SequencesExt, FiniteSetsExt

CONSTANT QUEUE_SIZE   \* messages a queue has room for

ASSUME QueueSizeAssumption == QUEUE_SIZE \in Nat \ {0}

HasRoom(q) == Len(q) < QUEUE_SIZE

OfType(q, t) == {i \in DOMAIN q : q[i].mtype = t}

\* What msgrcv(..., t, ...) takes for t > 0: the oldest message of type t.
OldestOf(q, t) == Min(OfType(q, t))

\* What msgrcv(..., -6, ...) takes: the oldest message of the lowest type.
LowestType(q) == OldestOf(q, Min({q[i].mtype : i \in DOMAIN q}))

\* What mq_receive takes: the oldest message of the highest priority.
HighestType(q) == OldestOf(q, Max({q[i].mtype : i \in DOMAIN q}))
=============================================================================
