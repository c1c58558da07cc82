------------------------------- MODULE Handshake -------------------------------
(***************************************************************************)
(* cw04/zad3: any number of sender.c give commands to one catcher.c.  A    *)
(* sender queues SIGUSR1 with an operation and suspends itself until the   *)
(* catcher confirms with SIGUSR1.  The catcher obeys in its handler, with  *)
(* every other signal masked; operation 4 has it print the time at every   *)
(* SIGALRM, operation 5 has it exit.                                       *)
(*                                                                         *)
(* SIGUSR1 is not a real-time signal: while one is pending, those that     *)
(* come after it are dropped, and with them what they carry.  A sender     *)
(* takes SIGUSR1 whether or not it suspended itself: a confirmation may    *)
(* come too early for the wait it should end.  SIGINT, masked in handlers  *)
(* and while a sender is suspended, kills whom it reaches.                 *)
(*                                                                         *)
(* The definitions marked (wrong) are mistakes the code does not make.     *)
(***************************************************************************)
EXTENDS Integers

CONSTANTS Sender, Catcher,
          NoSignal,
          Operations,        \* the numbers users give, any of Int
          MaxCommands,       \* bound: commands in the argv of a sender
          Interrupted        \* the processes SIGINT may reach

ASSUME HandshakeAssumption ==
    /\ Catcher \notin Sender
    /\ Operations \subseteq Int /\ MaxCommands \in Nat \ {0}
    /\ Interrupted \subseteq Sender \cup {Catcher}
    /\ NoSignal \notin [from : Sender, op : Operations]

VARIABLES
    pc,            \* where each sender is
    sent,          \* commands each sender has sent
    confirmed,     \* senders with SIGUSR1 pending
    catcher,       \* where the catcher is
    pending,       \* the catcher's pending SIGUSR1
    siginfo,       \* the one its handler works on
    current_mode, mode_counter,
    alarm_set, alarm_pending,
    sigint,        \* processes with SIGINT pending
    obeyed,        \* history: commands obeyed, of each sender
    early, lost    \* history: senders whose last command was confirmed before
                   \* they waited, or whose last signal came to nothing

senderVars == <<pc, sent, confirmed>>
alarmVars == <<current_mode, alarm_set, alarm_pending>>
history == <<obeyed, early, lost>>
vars == <<senderVars, catcher, pending, siginfo, mode_counter, alarmVars,
          sigint, history>>

SigInfo == [from : Sender, op : Operations]

Init ==
    /\ pc = [s \in Sender |-> "send"]
    /\ sent = [s \in Sender |-> 0]
    /\ confirmed = {}
    /\ catcher = "suspended"
    /\ pending = NoSignal /\ siginfo = NoSignal
    /\ current_mode = 0 /\ mode_counter = 0
    /\ alarm_set = FALSE /\ alarm_pending = FALSE
    /\ sigint = {}
    /\ obeyed = [s \in Sender |-> 0]
    /\ early = {} /\ lost = {}

SenderGoes(s, from, to) == pc[s] = from /\ pc' = [pc EXCEPT ![s] = to]

-----------------------------------------------------------------------------
(* sender.c *)

\* sigqueue: dropped while another SIGUSR1 is pending, an error, which the
\* sender does not look at, when the catcher is gone.
Sigqueue(s) ==
    /\ SenderGoes(s, "send", "suspend")
    /\ sent' = [sent EXCEPT ![s] = @ + 1]
    /\ \E op \in Operations :
        IF catcher = "gone" \/ pending # NoSignal
        THEN lost' = lost \cup {s} /\ UNCHANGED pending
        ELSE pending' = [from |-> s, op |-> op] /\ UNCHANGED lost
    /\ UNCHANGED <<confirmed, catcher, siginfo, mode_counter, alarmVars, sigint,
                   obeyed, early>>

\* sigsuspend, with everything but SIGUSR1 blocked
Sigsuspend(s) ==
    /\ SenderGoes(s, "suspend", "suspended")
    /\ UNCHANGED <<sent, confirmed, catcher, pending, siginfo, mode_counter,
                   alarmVars, sigint, history>>

\* (wrong) Any signal ends the wait, SIGINT too, and does no more than that.
AnySignalWakes(s) ==
    /\ s \in confirmed \cup sigint
    /\ \/ sent[s] < MaxCommands /\ SenderGoes(s, "suspended", "send")
       \/ SenderGoes(s, "suspended", "done")
    /\ confirmed' = confirmed \ {s} /\ sigint' = sigint \ {s}
    /\ UNCHANGED <<sent, catcher, pending, siginfo, mode_counter, alarmVars,
                   history>>

\* sigusr1_handler ends sigsuspend, and a SIGINT that was held back kills.
\* Otherwise the next command is sent, or there is none.
Confirmation(s) ==
    /\ s \in confirmed
    /\ IF s \in sigint THEN SenderGoes(s, "suspended", "dead")
       ELSE \/ sent[s] < MaxCommands /\ SenderGoes(s, "suspended", "send")
            \/ SenderGoes(s, "suspended", "done")
    /\ confirmed' = confirmed \ {s}
    /\ UNCHANGED <<sent, catcher, pending, siginfo, mode_counter, alarmVars,
                   sigint, history>>

\* sigusr1_handler runs between sigqueue and sigsuspend.
EarlyConfirmation(s) ==
    /\ s \in confirmed /\ pc[s] = "suspend"
    /\ confirmed' = confirmed \ {s}
    /\ early' = early \cup {s}
    /\ UNCHANGED <<pc, sent, catcher, pending, siginfo, mode_counter, alarmVars,
                   sigint, obeyed, lost>>

-----------------------------------------------------------------------------
(* catcher.c *)

\* (wrong) Commands that are no operation are not confirmed.
ObeyValid ==
    /\ catcher = "suspended" /\ pending # NoSignal
    /\ pending' = NoSignal
    /\ IF pending.op \in 1 .. 5
       THEN siginfo' = pending /\ catcher' = "obeying" /\ current_mode' = pending.op
       ELSE UNCHANGED <<siginfo, catcher, current_mode>>
    /\ mode_counter' = mode_counter + 1
    /\ obeyed' = [obeyed EXCEPT ![pending.from] = @ + 1]
    /\ alarm_set' = (pending.op = 4 \/ alarm_set)
    /\ UNCHANGED <<senderVars, alarm_pending, sigint, early, lost>>

\* (wrong) Every number is a mode.
ObeyAny ==
    /\ catcher = "suspended" /\ pending # NoSignal
    /\ pending' = NoSignal /\ siginfo' = pending
    /\ catcher' = "obeying"
    /\ mode_counter' = mode_counter + 1
    /\ obeyed' = [obeyed EXCEPT ![pending.from] = @ + 1]
    /\ current_mode' = pending.op
    /\ alarm_set' = (pending.op = 4 \/ alarm_set)
    /\ UNCHANGED <<senderVars, alarm_pending, sigint, early, lost>>

\* (wrong) The time is printed in a loop inside the handler.
ObeyUnlessPrinting ==
    /\ catcher = "suspended" /\ pending # NoSignal /\ current_mode # 4
    /\ pending' = NoSignal /\ siginfo' = pending
    /\ catcher' = "obeying"
    /\ mode_counter' = mode_counter + 1
    /\ obeyed' = [obeyed EXCEPT ![pending.from] = @ + 1]
    /\ current_mode' = IF pending.op \in 1 .. 5 THEN pending.op ELSE current_mode
    /\ alarm_set' = (pending.op = 4 \/ alarm_set)
    /\ UNCHANGED <<senderVars, alarm_pending, sigint, early, lost>>

\* sigusr1_handler up to kill: what is printed is left out.
Obey ==
    /\ catcher = "suspended" /\ pending # NoSignal
    /\ pending' = NoSignal /\ siginfo' = pending
    /\ catcher' = "obeying"
    /\ mode_counter' = mode_counter + 1
    /\ obeyed' = [obeyed EXCEPT ![pending.from] = @ + 1]
    /\ current_mode' = IF pending.op \in 1 .. 5 THEN pending.op ELSE current_mode
    /\ alarm_set' = (pending.op = 4 \/ alarm_set)
    /\ UNCHANGED <<senderVars, alarm_pending, sigint, early, lost>>

\* What goes with the catcher.
Gone == catcher' = "gone" /\ pending' = NoSignal

\* kill(siginfo->si_pid, SIGUSR1), of the handler or of finish, which then
\* exits.  A sender that is dead takes no signals.
Confirm ==
    /\ catcher = "obeying"
    /\ confirmed' = IF pc[siginfo.from] = "dead" THEN confirmed
                    ELSE confirmed \cup {siginfo.from}
    /\ siginfo' = NoSignal
    /\ \/ siginfo.op = 5 /\ catcher' = "exiting" /\ UNCHANGED pending
       \/ siginfo.op # 5 /\ Catcher \in sigint /\ Gone
       \/ /\ siginfo.op # 5 /\ Catcher \notin sigint
          /\ catcher' = "suspended" /\ UNCHANGED pending
    /\ UNCHANGED <<pc, sent, mode_counter, alarmVars, sigint, history>>

Exit ==
    /\ catcher = "exiting" /\ Gone
    /\ UNCHANGED <<senderVars, siginfo, mode_counter, alarmVars, sigint, history>>

AlarmRings ==
    /\ alarm_set /\ catcher # "gone"
    /\ alarm_set' = FALSE /\ alarm_pending' = TRUE
    /\ UNCHANGED <<senderVars, catcher, pending, siginfo, mode_counter,
                   current_mode, sigint, history>>

\* (wrong) The time is printed once.
HandleAlarmOnce ==
    /\ catcher = "suspended" /\ alarm_pending
    /\ alarm_pending' = FALSE
    /\ UNCHANGED <<senderVars, catcher, pending, siginfo, mode_counter,
                   current_mode, alarm_set, sigint, history>>

\* handle_alarm: print_time_loop calls alarm(1) again.
HandleAlarm ==
    /\ catcher = "suspended" /\ alarm_pending
    /\ alarm_pending' = FALSE
    /\ alarm_set' = (current_mode = 4 \/ alarm_set)
    /\ UNCHANGED <<senderVars, catcher, pending, siginfo, mode_counter,
                   current_mode, sigint, history>>

-----------------------------------------------------------------------------
(* SIGINT, which nobody has to send *)

InterruptSender(s) ==
    /\ s \in Interrupted \ sigint /\ pc[s] \in {"send", "suspend", "suspended"}
    /\ sigint' = sigint \cup {s}
    /\ pc' = [pc EXCEPT ![s] = IF @ = "suspended" THEN @ ELSE "dead"]
    /\ confirmed' = IF pc[s] = "suspended" THEN confirmed ELSE confirmed \ {s}
    /\ UNCHANGED <<sent, catcher, pending, siginfo, mode_counter, alarmVars,
                   history>>

InterruptCatcher ==
    /\ Catcher \in Interrupted \ sigint /\ catcher \in {"suspended", "obeying"}
    /\ sigint' = sigint \cup {Catcher}
    /\ \/ catcher = "suspended" /\ Gone
       \/ catcher = "obeying" /\ UNCHANGED <<catcher, pending>>
    /\ UNCHANGED <<senderVars, siginfo, mode_counter, alarmVars, history>>

-----------------------------------------------------------------------------
SenderStep(s) == Sigqueue(s) \/ Sigsuspend(s) \/ Confirmation(s)

Next ==
    \/ \E s \in Sender : \/ Sigqueue(s) \/ Sigsuspend(s) \/ Confirmation(s)
                         \/ EarlyConfirmation(s) \/ InterruptSender(s)
    \/ Obey \/ Confirm \/ Exit
    \/ AlarmRings \/ HandleAlarm \/ InterruptCatcher

Spec == Init /\ [][Next]_vars

\* Every process that is not blocked runs, a pending signal is handled, and
\* time passes.  Nobody has to press Control-C.
FairSpec ==
    /\ Spec
    /\ \A s \in Sender : WF_vars(SenderStep(s))
    /\ WF_vars(Obey) /\ WF_vars(Confirm) /\ WF_vars(Exit)
    /\ WF_vars(AlarmRings) /\ WF_vars(HandleAlarm)

-----------------------------------------------------------------------------
\* The types of all variables.
TypeOK ==
    /\ pc \in [Sender -> {"send", "suspend", "suspended", "done", "dead"}]
    /\ sent \in [Sender -> Nat] /\ obeyed \in [Sender -> Nat]
    /\ confirmed \subseteq Sender /\ early \subseteq Sender /\ lost \subseteq Sender
    /\ catcher \in {"suspended", "obeying", "exiting", "gone"}
    /\ pending \in SigInfo \cup {NoSignal}
    /\ siginfo \in SigInfo \cup {NoSignal}
    /\ current_mode \in 0 .. 5 /\ mode_counter \in Nat
    /\ alarm_set \in BOOLEAN /\ alarm_pending \in BOOLEAN
    /\ sigint \subseteq Interrupted

\* However many senders get in each other's way, a sender is never past a
\* command that was not obeyed, and none is obeyed twice: those obeyed are the
\* ones it sent, in that order, but perhaps the last (sender.c 37-41).
NoCommandSkipped ==
    \A s \in Sender :
        /\ obeyed[s] \in {sent[s] - 1, sent[s]} \cap Nat
        /\ pc[s] \in {"send", "done"} => obeyed[s] = sent[s]

\* What may still end the wait of a sender.
Coming(s) ==
    \/ s \in confirmed
    \/ pending # NoSignal /\ pending.from = s
    \/ siginfo # NoSignal /\ siginfo.from = s

WaitsForEver(s) == pc[s] = "suspended" /\ ~Coming(s)

\* A sender waits for ever for one of three reasons only: its command was
\* obeyed, and the confirmation came before sigsuspend (sender.c 39-40); or it
\* was not, because its signal met another or the catcher was, or is, gone.  A
\* command obeyed is always confirmed, even the one that makes the catcher exit
\* (catcher.c 38-42, 75).
WaitsForEverOnlyIf ==
    \A s \in Sender : WaitsForEver(s) =>
        IF obeyed[s] = sent[s] THEN s \in early ELSE s \in lost \/ catcher = "gone"

\* Nothing ends such a wait, not even Control-C: SIGINT is blocked
\* (sender.c 28-30, 40).
WaitIsForEver == [][\A s \in Sender : WaitsForEver(s) => WaitsForEver(s)']_vars

\* Every sender comes to its end, or waits for ever for one of those reasons.
SendersComeToAnEnd ==
    \A s \in Sender : <>(pc[s] \in {"done", "dead"} \/ WaitsForEver(s))

\* While the catcher is in mode 4 the time is printed again and again, whatever
\* alarms and modes came before (catcher.c 31-36, 44-47).
TimeIsPrinted ==
    <>[](current_mode = 4 /\ catcher # "gone") => []<><<HandleAlarm>>_vars
=============================================================================
