----------------------------- MODULE TimedSalon -----------------------------
(***************************************************************************)
(* The salon with the one thing its exit condition relies on: TIMEOUT (10  *)
(* seconds) is far longer than the second between two clients and than the *)
(* few system calls a client makes without blocking.  A hairdresser's nap  *)
(* therefore ends only after                                               *)
(*   - another client was forked since it began, unless none is left, and  *)
(*   - that client, and every client that was running when the nap began,  *)
(*     has come to a point where it blocks or exits.                       *)
(* The length of a haircut (0 to 14 seconds) stays arbitrary.              *)
(***************************************************************************)
EXTENDS Salon

ASSUME TimedAssumption ==
    /\ Hairdresser # {}
    /\ WAITING_ROOM > 0      \* 6 in the code

VARIABLES owing,     \* clients who will still block or exit before h wakes
          expected   \* whether a client will still be forked before h wakes

tvars == <<vars, owing, expected>>

\* Blocked for as long as the others let it, or gone.
Settled(c) == \/ pc[c] = "wait" /\ sem["hairdresser"] = 0
              \/ pc[c] = "being_cut" /\ selfMutex[c] = 0
              \/ pc[c] \in {"shorn", "turned_away"}

TimedInit == /\ Init
             /\ owing = [h \in Hairdresser |-> {}]
             /\ expected = [h \in Hairdresser |-> FALSE]

Arrives(c) == pc[c] = "outside" /\ pc'[c] # "outside"

\* What each napping hairdresser's nap still has to outlast.
NapsGoOn ==
    /\ owing' = [h \in Hairdresser |->
         IF pc'[h] # "nap" THEN {}
         ELSE {c \in Client : /\ pc'[c] # "outside"
                              /\ ~Settled(c)'
                              /\ \/ pc[h] # "nap"
                                 \/ c \in owing[h]
                                 \/ expected[h] /\ Arrives(c)}]
    /\ expected' = [h \in Hairdresser |->
         /\ pc'[h] = "nap"
         /\ pc[h] = "nap" => expected[h] /\ \A c \in Client : ~Arrives(c)
         /\ \E c \in Client : pc'[c] = "outside"]

NapOver(h) == owing[h] = {} /\ ~expected[h] /\ WakeUp(h)

TimedHairdresser(h) == SpawnHairdresser(h) \/ HairdresserStep(h) \/ NapOver(h)
TimedClient(c) == SpawnClient(c) \/ ClientStep(c)

TimedNext ==
    /\ \/ \E h \in Hairdresser : TimedHairdresser(h)
       \/ \E c \in Client : TimedClient(c)
       \/ ClearUp
    /\ NapsGoOn

\* The machine keeps running whatever can run.
TimedSpec == TimedInit /\ [][TimedNext]_tvars /\ WF_tvars(TimedNext)

-----------------------------------------------------------------------------
\* A hairdresser goes home for good only when every client has come and gone
\* (hairdresser.c 47-52): nobody is left waiting for a haircut that nobody
\* will give.
LastOneLocksUp ==
    (\A h \in Hairdresser : pc[h] = "home") =>
        \A c \in Client : pc[c] \in {"shorn", "turned_away"}

\* A client who got past sem_hairdresser walks out shorn (client.c 26-39).
AdmittedIsShorn ==
    \A c \in Client : pc[c] = "lock" ~> pc[c] = "shorn"

\* Everybody leaves and the salon is cleared up: "simulation finished"
\* (hair_salon.c 30-34).  Not so with two hairdressers: one may loop back for a
\* haircut that another has taken (hairdresser.c 47), or two give back a seat too
\* many and the waiting room is never empty again (hairdresser.c 24).
SalonFinishes == <>(salon = "closed")
=============================================================================
