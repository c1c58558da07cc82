-------------------------------- MODULE Signals --------------------------------
(***************************************************************************)
(* cw04/zad1 and zad2: programs that try out what signals do to parents    *)
(* and children.  inherit.c, run with one of four options, looks for what  *)
(* a child, and signal_for_exec.c after execl, take over: a disposition, a *)
(* mask, a pending signal.  sigaction.c looks at three flags of sigaction: *)
(* SA_SIGINFO, with a child that pauses until its parent has sent it a     *)
(* signal; SA_NOCLDSTOP, with children that stop and are killed; and       *)
(* SA_RESETHAND, which lets its second SIGINT kill the program.            *)
(*                                                                         *)
(* The first part is what the programs see of the system: a signal is      *)
(* pending once, dropped when it is ignored and not blocked, and handled   *)
(* before the process goes on; a handler interrupts a system call that     *)
(* blocks.  A sleep takes as long as it likes, and fork may fail.          *)
(*                                                                         *)
(* The definitions marked (wrong) are mistakes the code does not make.     *)
(***************************************************************************)
EXTENDS Integers

CONSTANT N    \* children of each half of test_nocldstop: 5 in the code

ASSUME SignalsAssumption == N \in Nat \ {0}

Parent == 0
First == 1                       \* the child of inherit.c and of test_siginfo
Stopping == 2 .. 2 * N + 1       \* those of test_nocldstop
Process == {Parent, First} \cup Stopping
Sig == {"USR1", "INT", "CHLD"}
Option == {"ignore", "handler", "mask", "pending", "sigaction"}

VARIABLES
    option,        \* the program, and the argument of inherit.c
    pc,
    disp,          \* disposition of each signal, in each process
    flags,         \* sa_flags of SIGCHLD in the parent
    blocked, pend, \* masks and pending signals
    state, cause,  \* of each process, and what ended it
    told,          \* what sigpending told a process
    received,      \* signals_received
    i,             \* the last child the parent made
    missed         \* history: the parent's SIGUSR1 came too early for the child

kernelVars == <<disp, flags, blocked, pend, state, cause>>
vars == <<option, pc, kernelVars, told, received, i, missed>>

Init ==
    /\ option \in Option
    /\ pc = [p \in Process |-> IF p # Parent THEN "none" ELSE
                               IF option = "sigaction" THEN "info_set" ELSE "set"]
    /\ disp = [p \in Process |-> [s \in Sig |-> "DFL"]]
    /\ flags = {}
    /\ blocked = [p \in Process |-> {}] /\ pend = [p \in Process |-> {}]
    /\ state = [p \in Process |-> IF p = Parent THEN "running" ELSE "unborn"]
    /\ cause = [p \in Process |-> "none"]
    /\ told = [p \in Process |-> "nothing"]
    /\ received = [p \in Process |-> 0]
    /\ i = 0
    /\ missed = FALSE

-----------------------------------------------------------------------------
(* The system *)

Ignores(p, s) == /\ s \notin blocked[p]
                 /\ disp[p][s] \in IF s = "CHLD" THEN {"IGN", "DFL"} ELSE {"IGN"}

Sent(p, s) == IF Ignores(p, s) THEN pend ELSE [pend EXCEPT ![p] = @ \cup {s}]

Running(p, at) == state[p] = "running" /\ pend[p] \subseteq blocked[p] /\ pc[p] = at
Goes(p, from, to) == Running(p, from) /\ pc' = [pc EXCEPT ![p] = to]

\* A child of the parent takes over dispositions and mask, but nothing pending.
Forked(c, from, to, at) ==
    /\ Running(Parent, from)
    /\ pc' = [pc EXCEPT ![Parent] = to, ![c] = at]
    /\ disp' = [disp EXCEPT ![c] = disp[Parent]]
    /\ blocked' = [blocked EXCEPT ![c] = blocked[Parent]]
    /\ received' = [received EXCEPT ![c] = received[Parent]]
    /\ state' = [state EXCEPT ![c] = "running"]
    /\ i' = c
    /\ UNCHANGED <<option, flags, pend, cause, told, missed>>

\* The parent of a process that ends is sent SIGCHLD, and waits for it, unless
\* SA_NOCLDWAIT is set.  Nobody here waits for the parent.
Ends(p, why) ==
    /\ state' = [state EXCEPT ![p] =
                    IF p = Parent \/ "NOCLDWAIT" \in flags THEN "gone" ELSE "zombie"]
    /\ cause' = [cause EXCEPT ![p] = why]
    /\ pend' = IF p = Parent THEN pend ELSE Sent(Parent, "CHLD")

Alive == {c \in Process \ {Parent} : state[c] \in {"running", "stopped"}}
Zombies == {c \in Process : state[c] = "zombie"}

\* Where a handler leaves a process that it found in a system call.  (A sleep may
\* end at any time, interrupted or not.)
Interrupted(p) ==
    CASE pc[p] = "info_pause" -> "info_check"
      [] pc[p] = "stop_waitpid" /\ "RESTART" \notin flags -> "stop_kill"
      [] pc[p] = "stop_wait" /\ "RESTART" \notin flags /\ Zombies = {} ->
            "stop_waited"
      [] OTHER -> pc[p]

\* The default action of USR1 and INT.
Kill(p, s) ==
    /\ disp[p][s] = "DFL" /\ Ends(p, s)
    /\ UNCHANGED <<option, pc, disp, flags, blocked, told, received, i, missed>>

\* A handler: sig_info_handler counts.  SA_RESETHAND, which SIGCHLD may have, and
\* the SIGINT of resethand_handler has, restores the default.
Handle(p, s) ==
    /\ disp[p][s] # "DFL"
    /\ pend' = [pend EXCEPT ![p] = @ \ {s}]
    /\ pc' = [pc EXCEPT ![p] = Interrupted(p)]
    /\ disp' = IF \/ disp[p][s] = "resethand"
                  \/ s = "CHLD" /\ "RESETHAND" \in flags
               THEN [disp EXCEPT ![p][s] = "DFL"] ELSE disp
    /\ received' = IF disp[p][s] = "info" THEN [received EXCEPT ![p] = @ + 1]
                   ELSE received
    /\ missed' = \/ missed
                 \/ p = First /\ pc[p] \in {"info_reset", "info_to_pause"}
    /\ UNCHANGED <<option, flags, blocked, state, cause, told, i>>

Deliver(p) ==
    /\ state[p] = "running"
    /\ \E s \in pend[p] \ blocked[p] : Kill(p, s) \/ Handle(p, s)

Raise(p, s, from, to) ==
    /\ Goes(p, from, to) /\ pend' = Sent(p, s)
    /\ UNCHANGED <<option, disp, flags, blocked, state, cause, told, received, i,
                   missed>>

Exit(p) ==
    /\ Goes(p, "exit", "exited") /\ Ends(p, "exit")
    /\ UNCHANGED <<option, disp, flags, blocked, told, received, i, missed>>

\* One more turn of while (wait(NULL) > 0), or the end of it.
Wait(at, to) ==
    /\ \/ Running(Parent, at) /\ UNCHANGED pc
          /\ \E c \in Zombies : state' = [state EXCEPT ![c] = "gone"]
       \/ Goes(Parent, at, to) /\ Alive \cup Zombies = {} /\ UNCHANGED state
    /\ UNCHANGED <<option, disp, flags, blocked, pend, cause, told, received, i,
                   missed>>

-----------------------------------------------------------------------------
(* inherit.c and signal_for_exec.c *)

\* (wrong) SIGUSR1 is not added to the mask.
SetEmptyMask ==
    /\ Goes(Parent, "set", "raise")
    /\ disp' = CASE option = "ignore" -> [disp EXCEPT ![Parent]["USR1"] = "IGN"]
                 [] option = "handler" -> [disp EXCEPT ![Parent]["USR1"] = "print"]
                 [] OTHER -> disp
    /\ UNCHANGED <<option, flags, blocked, pend, state, cause, told, received, i,
                   missed>>

\* What the option asks for: signal, or sigprocmask.
Set ==
    /\ Goes(Parent, "set", "raise")
    /\ disp' = CASE option = "ignore" -> [disp EXCEPT ![Parent]["USR1"] = "IGN"]
                 [] option = "handler" -> [disp EXCEPT ![Parent]["USR1"] = "print"]
                 [] OTHER -> disp
    /\ blocked' = IF option \in {"mask", "pending"}
                  THEN [blocked EXCEPT ![Parent] = {"USR1"}] ELSE blocked
    /\ UNCHANGED <<option, flags, pend, state, cause, told, received, i, missed>>

Fork ==
    Forked(First, "fork", "wait", IF option = "pending" THEN "look" ELSE "child_raise")

ForkFails(from, to) ==
    /\ Goes(Parent, from, to)
    /\ UNCHANGED <<option, kernelVars, told, received, i, missed>>

\* sigpending
Look(p) ==
    /\ Goes(p, "look", "exit")
    /\ told' = [told EXCEPT ![p] = IF "USR1" \in pend[p] THEN "pending" ELSE "not"]
    /\ UNCHANGED <<option, kernelVars, received, i, missed>>

\* execl keeps masks and what is pending, and of dispositions those without a
\* handler; when it fails, main returns.  There is none after "handler".
Exec ==
    /\ \/ Goes(Parent, "exec", IF option = "pending" THEN "look" ELSE "exec_raise")
          /\ option # "handler"
          /\ disp' = [disp EXCEPT ![Parent] = [s \in Sig |->
                        IF @[s] = "IGN" THEN "IGN" ELSE "DFL"]]
       \/ Goes(Parent, "exec", "exit") /\ UNCHANGED disp
    /\ UNCHANGED <<option, flags, blocked, pend, state, cause, told, received, i,
                   missed>>

\* main of signal_for_exec.c
SignalForExec == Look(Parent) \/ Raise(Parent, "USR1", "exec_raise", "exit")

\* main of inherit.c
Inherit ==
    \/ Set \/ Raise(Parent, "USR1", "raise", "fork")
    \/ Fork \/ ForkFails("fork", "exit") \/ Wait("wait", "exec") \/ Exec
    \/ Look(First) \/ Raise(First, "USR1", "child_raise", "exit")

-----------------------------------------------------------------------------
(* sigaction.c: test_siginfo *)

Sigaction(from, to, d, f) ==
    /\ Goes(Parent, from, to)
    /\ disp' = [disp EXCEPT ![Parent] = d] /\ flags' = f
    /\ UNCHANGED <<option, blocked, pend, state, cause, told, received, i, missed>>

Default == [s \in Sig |-> "DFL"]

\* A sleep of the parent ends; a child comes to, or fails, a test.
Passes(p, from, to) ==
    /\ Goes(p, from, to)
    /\ UNCHANGED <<option, kernelVars, told, received, i, missed>>

\* kill(pid, SIGUSR1); pid is -1 when fork failed, which means everybody else.
InfoKill ==
    /\ Goes(Parent, "info_kill", "info_wait")
    /\ IF state[First] = "running"
       THEN pend' = Sent(First, "USR1") /\ missed' = (missed \/ "USR1" \in pend[First])
       ELSE UNCHANGED <<pend, missed>>
    /\ UNCHANGED <<option, disp, flags, blocked, state, cause, told, received, i>>

\* signals_received = 0
InfoReset ==
    /\ Goes(First, "info_reset", "info_raise")
    /\ received' = [received EXCEPT ![First] = 0]
    /\ UNCHANGED <<option, kernelVars, told, i, missed>>

\* while (signals_received < 2), then pause
InfoCheck ==
    \/ received[First] < 2 /\ Passes(First, "info_check", "info_to_pause")
    \/ received[First] >= 2 /\ Passes(First, "info_check", "exit")
    \/ Passes(First, "info_to_pause", "info_pause")

TestSiginfo ==
    \/ Sigaction("info_set", "info_raise", [s \in Sig |-> "info"], {})
    \/ Raise(Parent, "USR1", "info_raise", "info_queue")
    \/ Raise(Parent, "INT", "info_queue", "info_fork")
    \/ Forked(First, "info_fork", "info_sleep", "info_reset")
    \/ ForkFails("info_fork", "info_sleep")
    \/ Passes(Parent, "info_sleep", "info_kill")
    \/ InfoKill \/ Wait("info_wait", "info_waited")
    \/ Sigaction("info_waited", "stop_set", Default, {})
    \/ InfoReset \/ Raise(First, "USR1", "info_raise", "info_check") \/ InfoCheck

-----------------------------------------------------------------------------
(* sigaction.c: test_nocldstop, twice *)

StopDisp == [Default EXCEPT !["CHLD"] = "print"]

\* The first time, sa_flags are what was in memory; the second, SA_NOCLDSTOP.
StopSet ==
    \/ \E f \in SUBSET {"NOCLDSTOP", "NOCLDWAIT", "RESETHAND", "RESTART"} :
        i <= First /\ Sigaction("stop_set", "stop_fork", StopDisp, f)
    \/ i = N + 1 /\ Sigaction("stop_set", "stop_fork", StopDisp, {"NOCLDSTOP"})
    \/ i = 2 * N + 1 /\ Sigaction("stop_set", "reset_set", Default, {})

\* (Of all children, the first is that of test_siginfo, if there is one.)
Next_i == IF i = 0 THEN 2 ELSE i + 1

StopFork ==
    \/ Forked(Next_i, "stop_fork", "stop_sleep", "child_sleep")
    \/ ForkFails("stop_fork", "exit")

\* (wrong) With WNOHANG it returns at once.
WaitpidNoHang ==
    /\ Goes(Parent, "stop_waitpid", "stop_kill")
    /\ UNCHANGED <<option, kernelVars, told, received, i, missed>>

\* waitpid(child_pids[i], &wstatus, WUNTRACED)
Waitpid ==
    /\ state[i] = "stopped"
    /\ Goes(Parent, "stop_waitpid", "stop_kill")
    /\ UNCHANGED <<option, kernelVars, told, received, i, missed>>

\* (wrong) SIGTERM stays pending in a child that is stopped.
StopTerm ==
    /\ Running(Parent, "stop_kill")
    /\ pc' = [pc EXCEPT ![i] = IF state[i] = "stopped" THEN @ ELSE "killed",
                        ![Parent] = IF i \in {N + 1, 2 * N + 1} THEN "stop_wait"
                                    ELSE "stop_fork"]
    /\ UNCHANGED <<option, kernelVars, told, received, i, missed>>

\* kill(child_pids[i], SIGKILL); the child is gone some time after.
StopKill ==
    /\ Running(Parent, "stop_kill")
    /\ pc' = [pc EXCEPT ![i] = "killed",
                        ![Parent] = IF i \in {N + 1, 2 * N + 1} THEN "stop_wait"
                                    ELSE "stop_fork"]
    /\ UNCHANGED <<option, kernelVars, told, received, i, missed>>

\* raise(SIGSTOP) tells the parent, unless SA_NOCLDSTOP is set.
Stop(c) ==
    /\ Goes(c, "child_stop", "child_stopped")
    /\ state' = [state EXCEPT ![c] = "stopped"]
    /\ pend' = IF "NOCLDSTOP" \in flags THEN pend ELSE Sent(Parent, "CHLD")
    /\ UNCHANGED <<option, disp, flags, blocked, cause, told, received, i, missed>>

Killed(c) ==
    /\ pc[c] = "killed" /\ state[c] \in {"running", "stopped"}
    /\ Ends(c, "KILL")
    /\ UNCHANGED <<option, pc, disp, flags, blocked, told, received, i, missed>>

TestNocldstop ==
    \/ StopSet \/ StopFork \/ Passes(Parent, "stop_sleep", "stop_waitpid")
    \/ Waitpid \/ StopKill \/ Wait("stop_wait", "stop_waited")
    \/ Passes(Parent, "stop_waited", "stop_set")
    \/ \E c \in Stopping : \/ Passes(c, "child_sleep", "child_stop")
                           \/ Stop(c) \/ Killed(c)

-----------------------------------------------------------------------------
(* sigaction.c: test_resethand *)

ResetSet ==
    Sigaction("reset_set", "reset_raise", [Default EXCEPT !["INT"] = "resethand"], {})

TestResethand ==
    \/ ResetSet \/ Raise(Parent, "INT", "reset_raise", "reset_again")
    \/ Raise(Parent, "INT", "reset_again", "exit")

-----------------------------------------------------------------------------
\* Whoever is not gone is stopped, or blocked: in wait, waitpid or pause.
Blocked(p) ==
    \/ state[p] \in {"unborn", "zombie", "gone"}
    \/ state[p] = "stopped" /\ pc[p] # "killed"
    \/ /\ state[p] = "running" /\ pend[p] \subseteq blocked[p]
       /\ \/ pc[p] = "info_pause"
          \/ pc[p] \in {"wait", "info_wait", "stop_wait"} /\ Alive # {} /\ Zombies = {}
          \/ pc[p] = "stop_waitpid" /\ state[i] # "stopped"

EverybodyWaits == \A p \in Process : Blocked(p)

\* There, and only there, the programs stop.
Stopped == EverybodyWaits /\ UNCHANGED vars

Next ==
    \/ \E p \in Process : Deliver(p) \/ Exit(p)
    \/ Inherit \/ SignalForExec \/ TestSiginfo \/ TestNocldstop \/ TestResethand
    \/ Stopped

Spec == Init /\ [][Next]_vars

\* Everything that can go on does, as nothing here goes on for ever.
FairSpec == Spec /\ WF_vars(Next)

-----------------------------------------------------------------------------
\* What inherit.c shows of raport2.txt 1-3 and 5-8: ignored signals and masks are
\* taken over by children and kept by execl, handlers are taken over by children,
\* so that no SIGUSR1 kills anybody; what is pending is kept by execl only
\* (inherit.c 28-126, signal_for_exec.c 19-33).  Line 4 of the report, that execl
\* keeps handlers too, is not part of it: no option tries that, and it is not so.
InheritanceAsShown ==
    option # "sigaction" =>
        /\ \A p \in Process : cause[p] \in {"none", "exit"}
        /\ told[Parent] # "not" /\ told[First] # "pending"

\* sigaction.c: the child of test_siginfo ends by itself, those of test_nocldstop
\* are killed, and the program, when all went well, by its own second SIGINT.  A
\* child is killed before it has stopped only when the end of an older one has
\* interrupted waitpid (sigaction.c 107-110, 147, 166-177).
DiesAsTested ==
    option = "sigaction" =>
        /\ cause[First] \in {"none", "exit"}
        /\ \A c \in Stopping : cause[c] \in {"none", "KILL"}
        /\ cause[Parent] \in {"none", "INT"} \/ i < 2 * N + 1
        /\ pc[Parent] = "stop_kill" /\ state[i] # "stopped" =>
            /\ "RESTART" \notin flags
            /\ \E c \in Stopping : c < i /\ cause[c] = "KILL"

\* The child of test_siginfo pauses, and its parent waits, for ever.
Deadlocked ==
    /\ pc[First] = "info_pause" /\ pend[First] = {}
    /\ pc[Parent] = "info_wait"

\* The program is over, with no child left, or in that deadlock.  It comes to it
\* only when the parent's sleep was too short for the child to get to pause: the
\* signal came before signals_received was reset or between the test and pause,
\* or together with the child's own.
Outcome == \/ Deadlocked /\ missed
           \/ state[Parent] = "gone" /\ Alive = {}

\* No parent waits for ever for a child that waits, or sleeps on stopped, but in that
\* deadlock, and there only when its sleep was too short (inherit.c 55-126,
\* sigaction.c 93-177).
OnlySleepTooShort == EverybodyWaits => Outcome

\* The programs come to an end, or to the deadlock, and stay there (inherit.c
\* 55-126, sigaction.c 93-177).
ProgramsEnd == <>[]Outcome
=============================================================================
