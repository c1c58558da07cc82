----------------------------- MODULE Barbershop -----------------------------
(***************************************************************************)
(* What the salon of cw07/zad1 promises its clients, with no semaphore, no *)
(* array and no process in sight: clients join a line, each hairdresser    *)
(* takes the first of the line when free, and whoever was taken is         *)
(* eventually done, once.                                                  *)
(***************************************************************************)
EXTENDS Sequences

CONSTANTS Client, Hairdresser, NoClient

VARIABLES line,     \* clients waiting to be taken, in the order they came
          serving,  \* the client each hairdresser is busy with
          done      \* clients told that their haircut is finished

vars == <<line, serving, done>>

Present(c) == \/ \E i \in DOMAIN line : line[i] = c
              \/ \E h \in Hairdresser : serving[h] = c

Init == /\ line = <<>>
        /\ serving = [h \in Hairdresser |-> NoClient]
        /\ done = {}

\* A client who is not in the shop, and was not shorn before, joins the line.
Join(c) == /\ ~Present(c)
           /\ c \notin done
           /\ line' = Append(line, c)
           /\ UNCHANGED <<serving, done>>

\* A free hairdresser takes the first client of the line.
Take(h) == /\ serving[h] = NoClient
           /\ line # <<>>
           /\ serving' = [serving EXCEPT ![h] = Head(line)]
           /\ line' = Tail(line)
           /\ UNCHANGED done

\* A hairdresser finishes the haircut of the client they took.
Finish(h) == /\ serving[h] # NoClient
             /\ done' = done \cup {serving[h]}
             /\ serving' = [serving EXCEPT ![h] = NoClient]
             /\ UNCHANGED line

Next == \/ \E c \in Client : Join(c)
        \/ \E h \in Hairdresser : Take(h) \/ Finish(h)

Spec == Init /\ [][Next]_vars
=============================================================================
