---------------------------- MODULE SignalsProofs ----------------------------
(***************************************************************************)
(* Theorems about Signals, for any number of children.                     *)
(*                                                                         *)
(* The inductive invariant says, for each option of inherit.c and each     *)
(* test of sigaction.c, which signals may be pending, and what they would  *)
(* do there.                                                               *)
(***************************************************************************)
EXTENDS Signals, TLAPS

\* Where a process is in each of the tests of sigaction.c.
Informs == {"info_raise", "info_queue", "info_fork", "info_sleep", "info_kill",
            "info_wait", "info_waited"}
AtWork  == {"stop_sleep", "stop_waitpid", "stop_kill"}
Stops   == AtWork \cup {"stop_set", "stop_fork", "stop_wait", "stop_waited"}
Resets  == {"reset_set", "reset_raise", "reset_again"}
Ending  == {"exit", "exited"}

Labels == {"none", "set", "raise", "fork", "wait", "exec", "look", "exec_raise",
          "child_raise", "info_set", "info_reset", "info_check", "info_to_pause",
          "info_pause", "child_sleep", "child_stop", "child_stopped", "killed"}
            \cup Informs \cup Stops \cup Resets \cup Ending

Disposition == {"DFL", "IGN", "print", "info", "resethand"}

Types ==
    /\ option \in Option
    /\ pc \in [Process -> Labels]
    /\ disp \in [Process -> [Sig -> Disposition]]
    /\ blocked \in [Process -> SUBSET Sig]
    /\ pend \in [Process -> SUBSET Sig]
    /\ state \in [Process -> {"unborn", "running", "stopped", "zombie", "gone"}]
    /\ cause \in [Process -> Sig \cup {"none", "exit", "KILL"}]
    /\ told \in [Process -> {"nothing", "pending", "not"}]
    /\ received \in [Process -> Nat]
    /\ i \in 0 .. 2 * N + 1

\* A process that was not made yet has no signals.
Unborn ==
    \A c \in Process \ {Parent} :
        pc[c] = "none" => state[c] = "unborn" /\ pend[c] = {}

(* inherit.c *)

InheritLabels ==
    /\ pc[Parent] \in {"set", "raise", "fork", "wait", "exec", "look",
                         "exec_raise"} \cup Ending
    /\ pc[First] \in {"none", "child_raise", "look"} \cup Ending
    /\ "look" \in {pc[Parent], pc[First]} => option = "pending"
    /\ pc[First] = "child_raise" => option # "pending"
    /\ \A c \in Stopping : pc[c] = "none"

\* What the option asked for is so in every process that may raise SIGUSR1.
Guarded(p) ==
    CASE option = "ignore"  -> disp[p]["USR1"] = "IGN"
      [] option = "handler" -> disp[p]["USR1"] = "print"
      [] OTHER              -> blocked[p] = {"USR1"}

\* What holds of every process: SIGUSR1 cannot kill it.
Unharmed(p) ==
    /\ disp[p]["CHLD"] = "DFL"
    /\ blocked[p] \subseteq {"USR1"} /\ pend[p] \subseteq {"USR1"}
    /\ pc[p] \in {"none", "set"} \/ Guarded(p)
    /\ cause[p] \in {"none", "exit"}

\* What is pending stays so in the parent, and is not in the child.
Lasting ==
    /\ flags = {}
    /\ pc[Parent] = "set" => pend[Parent] = {}
    /\ option = "pending" =>
        /\ pend[First] = {}
        /\ pc[Parent] \in {"fork", "wait", "exec", "look"} =>
            "USR1" \in pend[Parent]
    /\ told[Parent] # "not" /\ told[First] # "pending"

InheritInv == InheritLabels /\ (\A p \in Process : Unharmed(p)) /\ Lasting

(* sigaction.c *)

TestLabels ==
    /\ pc[Parent] \in {"info_set"} \cup Informs \cup Stops \cup Resets \cup Ending
    /\ pc[First] \in {"none", "info_reset", "info_raise", "info_check",
                      "info_to_pause", "info_pause"} \cup Ending
    /\ \A c \in Stopping :
        pc[c] \in {"none", "child_sleep", "child_stop", "child_stopped", "killed"}

\* The children: that of test_siginfo handles every signal, the others are sent
\* none, and those of them before the last are killed.
ChildrenInv ==
    /\ \A p \in Process : blocked[p] = {}
    /\ pc[First] # "none" => disp[First] = [s \in Sig |-> "info"]
    /\ cause[First] \in {"none", "exit"}
    /\ \A c \in Stopping :
        /\ pend[c] = {} /\ cause[c] \in {"none", "KILL"}
        /\ c < i => pc[c] = "killed"
        /\ c > i => pc[c] = "none"
    /\ pc[Parent] \in AtWork =>
        i \in Stopping /\ pc[i] \notin {"none", "killed"}
    /\ pc[Parent] \notin AtWork /\ i \in Stopping => pc[i] = "killed"

OlderKilled == \E c \in Stopping : c < i /\ cause[c] = "KILL"

\* The parent in test_siginfo: it handles every signal, and leaves no child.
SiginfoInv ==
    /\ pc[Parent] = "info_set" => pend[Parent] = {}
    /\ pc[Parent] \in {"info_set", "info_raise", "info_queue", "info_fork"} =>
        i = 0 /\ pc[First] = "none"
    /\ pc[Parent] \in Informs =>
        disp[Parent] = [s \in Sig |-> "info"] /\ flags = {} /\ i <= First
    /\ pc[Parent] \notin {"info_set"} \cup Informs \/ pc[Parent] = "info_waited" =>
        state[First] \in {"unborn", "gone"}

\* The parent in test_nocldstop: it is sent SIGCHLD only, of the child that stopped
\* or of an older one that was killed.
NocldstopInv ==
    /\ "CHLD" \in pend[Parent] => disp[Parent]["CHLD"] # "DFL"
    /\ pc[Parent] \in Stops => pend[Parent] \subseteq {"CHLD"}
    /\ pc[Parent] = "stop_fork" => i <= 2 * N
    /\ pc[Parent] \in {"stop_sleep", "stop_waitpid"} /\ "CHLD" \in pend[Parent] =>
        state[i] = "stopped" \/ OlderKilled
    /\ pc[Parent] = "stop_kill" =>
        state[i] = "stopped" \/ ("RESTART" \notin flags /\ OlderKilled)

\* The parent in test_resethand: the first SIGINT is handled, the second is not.
ResethandInv ==
    /\ pc[Parent] \in Resets => disp[Parent]["CHLD"] = "DFL"
    /\ pc[Parent] \in {"reset_set", "reset_raise"} => pend[Parent] = {}
    /\ pc[Parent] = "reset_raise" => disp[Parent]["INT"] = "resethand"
    /\ pc[Parent] = "reset_again" =>
        \/ pend[Parent] = {} /\ disp[Parent]["INT"] = "DFL"
        \/ pend[Parent] = {"INT"} /\ disp[Parent]["INT"] = "resethand"
    /\ pc[Parent] = "exit" =>
        \/ i <= 2 * N
        \/ /\ pend[Parent] = {"INT"}
           /\ disp[Parent]["INT"] = "DFL" /\ disp[Parent]["CHLD"] = "DFL"
    /\ pc[Parent] = "exited" => i <= 2 * N
    /\ cause[Parent] \in {"none", "INT"} \/ i <= 2 * N
    /\ state[Parent] = "running" => cause[Parent] = "none"

TestInv == TestLabels /\ ChildrenInv /\ SiginfoInv /\ NocldstopInv /\ ResethandInv

\* Together inductive.
SignalsInv ==
    /\ Types /\ Unborn
    /\ option # "sigaction" => InheritInv
    /\ option = "sigaction" => TestInv

(* Who waits *)

\* The child of test_siginfo, before it ends.
Pausing == {"info_reset", "info_raise", "info_check", "info_to_pause", "info_pause"}

\* Where a process is says whether it runs.  The parent ends in neither of the two
\* tests that have children.
RunsInv ==
    /\ state[Parent] \in {"running", "gone"} /\ state[First] # "stopped"
    /\ pc[First] \in Pausing => state[First] = "running"
    /\ \A c \in Stopping :
        /\ pc[c] \in {"child_sleep", "child_stop"} => state[c] = "running"
        /\ pc[c] = "child_stopped" => state[c] = "stopped"
    /\ option = "sigaction" /\ state[Parent] = "gone" =>
        pc[Parent] \in Resets \cup Ending

\* Signals to the child: those that are pending, and the one from its parent.
Pending == IF "USR1" \in pend[First] THEN 1 ELSE 0
Unsent == {"info_set", "info_raise", "info_queue", "info_fork", "info_sleep", "info_kill"}
FromParent == IF pc[Parent] \in Unsent THEN 0 ELSE 1

\* Unless the parent's signal came too early, the child counts it and its own, and
\* pauses only when it has not had both.
CountInv ==
    option = "sigaction" /\ ~missed =>
        /\ pend[First] \subseteq {"USR1"}
        /\ pc[First] = "info_reset" => Pending = FromParent
        /\ pc[First] = "info_raise" => received[First] + Pending = FromParent
        /\ pc[First] \in {"info_check", "info_to_pause", "info_pause"} =>
            received[First] + Pending = 1 + FromParent
        /\ pc[First] \in {"info_to_pause", "info_pause"} => received[First] < 2

-----------------------------------------------------------------------------
\* The parent, the child of inherit.c and test_siginfo, and those that stop.
LEMMA Processes ==
    ASSUME SignalsAssumption
    PROVE  /\ Parent \in Process /\ First \in Process /\ Parent # First
           /\ Stopping \subseteq Process /\ Parent \notin Stopping
           /\ First \notin Stopping
           /\ Process = {Parent, First} \cup Stopping
           /\ 2 * N + 1 \in Nat /\ 2 * N \in Nat /\ N + 1 \in Nat
  BY DEF SignalsAssumption, Parent, First, Stopping, Process

LEMMA InitSignalsInv == ASSUME SignalsAssumption, Init PROVE SignalsInv
  <1> USE Processes DEF Init
  <1>1. Types
    BY DEF Types, Disposition, Sig, Option, Labels, Informs
  <1>2. Unborn
    BY DEF Unborn
  <1>3. ASSUME option # "sigaction" PROVE InheritInv
    <2>1. \A p \in Process : Unharmed(p)
      BY <1>3 DEF Unharmed, Sig
    <2> QED
      BY <1>3, <2>1 DEF InheritInv, InheritLabels, Lasting
  <1>4. ASSUME option = "sigaction" PROVE TestInv
    <2>1. ChildrenInv
      BY <1>4 DEF ChildrenInv, AtWork, Stopping
    <2> QED
      BY <1>4, <2>1
         DEF TestInv, TestLabels, SiginfoInv, NocldstopInv, ResethandInv, Informs,
             AtWork, Stops, Resets, Ending, First
  <1> QED
    BY <1>1, <1>2, <1>3, <1>4 DEF SignalsInv

\* The types, step by step.
LEMMA PassesTypes ==
    ASSUME SignalsAssumption, Types, NEW p \in Process, NEW from,
           NEW to \in Labels,
           Passes(p, from, to)
    PROVE  Types'
  BY DEF Types, Passes, Goes, kernelVars

LEMMA RaiseTypes ==
    ASSUME SignalsAssumption, Types, NEW p \in Process, NEW s \in Sig,
           NEW from, NEW to \in Labels, Raise(p, s, from, to)
    PROVE  Types'
  <1>1. pend' \in [Process -> SUBSET Sig]
    BY DEF Types, Raise, Sent
  <1> QED
    BY <1>1 DEF Types, Raise, Goes

LEMMA EndsTypes ==
    ASSUME SignalsAssumption, Types, NEW p \in Process,
           NEW why \in Sig \cup {"exit", "KILL"}, Ends(p, why)
    PROVE  /\ state' \in [Process ->
                        {"unborn", "running", "stopped", "zombie", "gone"}]
           /\ cause' \in [Process -> Sig \cup {"none", "exit", "KILL"}]
           /\ pend' \in [Process -> SUBSET Sig]
  BY Processes DEF Types, Ends, Sent, Sig

LEMMA ForkedTypes ==
    ASSUME SignalsAssumption, Types, NEW c \in Process, c \in 0 .. 2 * N + 1,
           NEW from, NEW to \in Labels, NEW into \in Labels, Forked(c, from, to, into)
    PROVE  Types'
  BY Processes DEF Types, Forked

LEMMA SigactionTypes ==
    ASSUME SignalsAssumption, Types, NEW from, NEW to \in Labels, NEW f,
           NEW d \in [Sig -> Disposition],
           Sigaction(from, to, d, f)
    PROVE  Types'
  BY Processes DEF Types, Sigaction, Goes

LEMMA WaitTypes ==
    ASSUME SignalsAssumption, Types, NEW into, NEW to \in Labels, Wait(into, to)
    PROVE  Types'
  <1>1. CASE \E c \in Zombies : state' = [state EXCEPT ![c] = "gone"] /\ UNCHANGED pc
    BY <1>1 DEF Types, Wait, Zombies
  <1>2. CASE pc' = [pc EXCEPT ![Parent] = to] /\ UNCHANGED state
    BY <1>2 DEF Types, Wait
  <1> QED
    BY <1>1, <1>2 DEF Wait, Goes

LEMMA LabelStrings ==
    Labels = {"none", "set", "raise", "fork", "wait", "exec", "look", "exec_raise",
             "child_raise", "info_set", "info_reset", "info_check", "info_to_pause",
             "info_pause", "child_sleep", "child_stop", "child_stopped", "killed",
             "info_raise", "info_queue", "info_fork", "info_sleep",
             "info_kill", "info_wait", "info_waited",
             "stop_sleep", "stop_waitpid", "stop_kill",
             "stop_set", "stop_fork", "stop_wait", "stop_waited",
             "reset_set", "reset_raise", "reset_again", "exit", "exited"}
  BY DEF Labels, Informs, AtWork, Stops, Resets, Ending

LEMMA InheritTypes ==
    ASSUME SignalsAssumption, Types, Inherit \/ SignalForExec
    PROVE  Types'
  <1> USE Processes, LabelStrings
  <1>1. "USR1" \in Sig
    BY DEF Sig
  <1>2. CASE Set
    <2>1. disp' \in [Process -> [Sig -> Disposition]]
      BY <1>1, <1>2 DEF Types, Disposition, Set
    <2> QED
      BY <1>1, <1>2, <2>1 DEF Types, Set, Goes
  <1>3. CASE Exec
    <2>1. disp' \in [Process -> [Sig -> Disposition]]
      BY <1>3 DEF Types, Disposition, Exec
    <2> QED
      BY <1>3, <2>1 DEF Types, Exec, Goes
  <1>4. CASE Fork
    <2>1. First \in 0 .. 2 * N + 1
      BY DEF First
    <2> QED
      BY <1>4, <2>1, ForkedTypes DEF Fork
  <1>5. CASE ForkFails("fork", "exit")
    BY <1>5, PassesTypes DEF ForkFails, Passes
  <1>6. ASSUME NEW p \in Process, Look(p) PROVE Types'
    BY <1>6 DEF Types, Look, Goes, kernelVars
  <1>7. CASE Wait("wait", "exec")
    BY <1>7, WaitTypes
  <1>8. CASE \/ Raise(Parent, "USR1", "raise", "fork")
             \/ Raise(First, "USR1", "child_raise", "exit")
             \/ Raise(Parent, "USR1", "exec_raise", "exit")
    BY <1>1, <1>8, RaiseTypes
  <1> QED
    BY <1>2, <1>3, <1>4, <1>5, <1>6, <1>7, <1>8 DEF Inherit, SignalForExec

LEMMA SiginfoTypes ==
    ASSUME SignalsAssumption, Types, TestSiginfo
    PROVE  Types'
  <1> USE Processes, LabelStrings
  <1>1. "USR1" \in Sig /\ "INT" \in Sig /\ First \in 0 .. 2 * N + 1
    BY DEF Sig, First
  <1>2. CASE \/ Sigaction("info_set", "info_raise", [s \in Sig |-> "info"], {})
             \/ Sigaction("info_waited", "stop_set", Default, {})
    BY <1>2, SigactionTypes DEF Disposition, Default
  <1>3. CASE \/ Raise(Parent, "USR1", "info_raise", "info_queue")
             \/ Raise(Parent, "INT", "info_queue", "info_fork")
             \/ Raise(First, "USR1", "info_raise", "info_check")
    BY <1>1, <1>3, RaiseTypes
  <1>4. CASE Forked(First, "info_fork", "info_sleep", "info_reset")
    BY <1>1, <1>4, ForkedTypes
  <1>5. CASE ForkFails("info_fork", "info_sleep")
    BY <1>5, PassesTypes DEF ForkFails, Passes
  <1>6. CASE \/ Passes(Parent, "info_sleep", "info_kill") \/ InfoCheck
    BY <1>6, PassesTypes DEF InfoCheck
  <1>7. CASE InfoKill
    <2>1. pend' \in [Process -> SUBSET Sig]
      BY <1>1, <1>7 DEF Types, InfoKill, Sent
    <2> QED
      BY <1>7, <2>1 DEF Types, InfoKill, Goes
  <1>8. CASE InfoReset
    BY <1>8 DEF Types, InfoReset, Goes, kernelVars
  <1>9. CASE Wait("info_wait", "info_waited")
    BY <1>9, WaitTypes
  <1> QED
    BY <1>2, <1>3, <1>4, <1>5, <1>6, <1>7, <1>8, <1>9 DEF TestSiginfo

LEMMA NocldstopTypes ==
    ASSUME SignalsAssumption, SignalsInv, TestNocldstop
    PROVE  Types'
  <1> USE Processes, LabelStrings
  <1>0. Types
    BY DEF SignalsInv
  <1> USE <1>0
  <1>1. CASE StopSet
    BY <1>1, SigactionTypes
       DEF Disposition, StopSet, StopDisp, Default, Sig
  <1>2. CASE Forked(Next_i, "stop_fork", "stop_sleep", "child_sleep")
    <2>1. Next_i \in Stopping /\ Next_i \in 0 .. 2 * N + 1
      BY <1>2
         DEF SignalsInv, Types, InheritInv, InheritLabels, TestInv, NocldstopInv,
             Forked, Running, Next_i, Stopping, SignalsAssumption,
             Ending
    <2> QED
      BY <1>2, <2>1, ForkedTypes
  <1>3. CASE ForkFails("stop_fork", "exit")
    BY <1>3, PassesTypes DEF ForkFails, Passes
  <1>4. CASE \/ Passes(Parent, "stop_sleep", "stop_waitpid")
             \/ Passes(Parent, "stop_waited", "stop_set")
    BY <1>4, PassesTypes
  <1>5. CASE Waitpid
    BY <1>5, PassesTypes DEF Waitpid, Passes
  <1>6. CASE StopKill
    BY <1>6 DEF Types, StopKill, kernelVars
  <1>7. CASE Wait("stop_wait", "stop_waited")
    BY <1>7, WaitTypes
  <1>8. ASSUME NEW c \in Stopping, Passes(c, "child_sleep", "child_stop")
        PROVE  Types'
    BY <1>8, PassesTypes
  <1>9. ASSUME NEW c \in Stopping, Stop(c) PROVE Types'
    <2>1. pend' \in [Process -> SUBSET Sig]
      BY <1>9 DEF Types, Stop, Sent, Sig
    <2> QED
      BY <1>9, <2>1 DEF Types, Stop, Goes
  <1>10. ASSUME NEW c \in Stopping, Killed(c) PROVE Types'
    BY <1>10, EndsTypes DEF Types, Killed
  <1> QED
    BY <1>1, <1>2, <1>3, <1>4, <1>5, <1>6, <1>7, <1>8, <1>9, <1>10
       DEF TestNocldstop, StopFork

LEMMA NextTypes ==
    ASSUME SignalsAssumption, SignalsInv, [Next]_vars
    PROVE  Types'
  <1> USE Processes, LabelStrings
  <1>0. Types
    BY DEF SignalsInv
  <1> USE <1>0
  <1>1. ASSUME NEW p \in Process, Deliver(p) PROVE Types'
    <2>1. PICK s \in pend[p] \ blocked[p] : Kill(p, s) \/ Handle(p, s)
      BY <1>1 DEF Deliver
    <2>2. s \in Sig
      BY <2>1 DEF Types
    <2>3. CASE Kill(p, s)
      BY <2>2, <2>3, EndsTypes DEF Types, Kill
    <2>4. CASE Handle(p, s)
      <3>1. Interrupted(p) \in Labels
        BY DEF Types, Interrupted
      <3>2. disp' \in [Process -> [Sig -> Disposition]]
        BY <2>2, <2>4 DEF Types, Disposition, Handle
      <3> QED
        BY <2>2, <2>4, <3>1, <3>2 DEF Types, Handle
    <2> QED
      BY <2>1, <2>3, <2>4
  <1>2. ASSUME NEW p \in Process, Exit(p) PROVE Types'
    BY <1>2, EndsTypes DEF Types, Exit, Goes
  <1>3. CASE TestResethand
    <2>1. CASE ResetSet
      BY <2>1, SigactionTypes DEF Disposition, ResetSet, Default, Sig
    <2>2. "INT" \in Sig
      BY DEF Sig
    <2> QED
      BY <1>3, <2>1, <2>2, RaiseTypes DEF TestResethand
  <1>4. CASE UNCHANGED vars
    BY <1>4 DEF Types, vars, kernelVars
  <1> QED
    BY <1>1, <1>2, <1>3, <1>4, InheritTypes, SiginfoTypes, NocldstopTypes
       DEF Next, Stopped

\* A process is made in one piece, and nobody sends it anything before.
LEMMA NextUnborn ==
    ASSUME SignalsAssumption, Types, Unborn, [Next]_vars
    PROVE  Unborn'
  <1> SUFFICES ASSUME NEW c \in Process \ {Parent}, pc'[c] = "none"
               PROVE  state'[c] = "unborn" /\ pend'[c] = {}
    BY DEF Unborn
  <1> USE Processes DEF Types
  <1>0. pc[c] = "none" => state[c] = "unborn" /\ pend[c] = {}
    BY DEF Unborn
  <1>1. ASSUME NEW p \in Process, Deliver(p)
        PROVE  state'[c] = "unborn" /\ pend'[c] = {}
    <2>1. PICK s \in pend[p] \ blocked[p] : Kill(p, s) \/ Handle(p, s)
      BY <1>1 DEF Deliver
    <2>2. CASE Kill(p, s)
      BY <1>0, <1>1, <2>2 DEF Kill, Deliver, Ends, Sent
    <2>3. CASE Handle(p, s)
      BY <1>0, <1>1, <2>3 DEF Handle, Deliver, Interrupted
    <2> QED
      BY <2>1, <2>2, <2>3
  <1>2. ASSUME NEW p \in Process, Exit(p)
        PROVE  state'[c] = "unborn" /\ pend'[c] = {}
    BY <1>0, <1>2 DEF Exit, Ends, Sent, Goes, Running
  <1>3. ASSUME NEW p \in Process, NEW s, NEW from, NEW to, from # "none",
               to # "none",
               Raise(p, s, from, to)
        PROVE  state'[c] = "unborn" /\ pend'[c] = {}
    BY <1>0, <1>3 DEF Raise, Sent, Goes
  <1>4. ASSUME NEW p \in Process, NEW from, NEW to, from # "none", to # "none",
               Goes(p, from, to), UNCHANGED <<state, pend>>
        PROVE  state'[c] = "unborn" /\ pend'[c] = {}
    BY <1>0, <1>4 DEF Goes
  <1>5. ASSUME NEW from, NEW to, NEW into, NEW q, into # "none", to # "none",
               Forked(q, from, to, into)
        PROVE  state'[c] = "unborn" /\ pend'[c] = {}
    BY <1>0, <1>5 DEF Forked
  <1>6. ASSUME NEW into, NEW to, to # "none", Wait(into, to)
        PROVE  state'[c] = "unborn" /\ pend'[c] = {}
    BY <1>0, <1>6 DEF Wait, Goes, Zombies
  <1>7. CASE Inherit \/ SignalForExec
    BY <1>3, <1>4, <1>5, <1>6, <1>7
       DEF Inherit, SignalForExec, Set, Fork, ForkFails, Look, Exec,
           kernelVars
  <1>8. CASE TestSiginfo
    <2>1. CASE InfoKill
      BY <1>0, <2>1 DEF InfoKill, Sent, Goes
    <2> QED
      BY <1>3, <1>4, <1>5, <1>6, <1>8, <2>1
         DEF TestSiginfo, Sigaction, ForkFails, Passes, InfoReset,
             InfoCheck, kernelVars
  <1>9. CASE TestNocldstop
    <2>1. CASE StopKill
      BY <1>0, <2>1 DEF StopKill, kernelVars
    <2>2. ASSUME NEW d \in Stopping, Stop(d) \/ Killed(d)
          PROVE  state'[c] = "unborn" /\ pend'[c] = {}
      BY <1>0, <2>2 DEF Stop, Killed, Ends, Sent, Goes
    <2> QED
      BY <1>3, <1>4, <1>5, <1>6, <1>9, <2>1, <2>2
         DEF TestNocldstop, StopSet, Sigaction, StopFork, ForkFails,
             Passes, Waitpid, kernelVars
  <1>10. CASE TestResethand
    BY <1>3, <1>4, <1>10 DEF TestResethand, ResetSet, Sigaction
  <1>11. CASE UNCHANGED vars
    BY <1>0, <1>11 DEF vars, kernelVars
  <1> QED
    BY <1>1, <1>2, <1>7, <1>8, <1>9, <1>10, <1>11 DEF Next, Stopped

-----------------------------------------------------------------------------
(* inherit.c *)

\* A program that runs inherit.c takes no step of sigaction.c, and the other way
\* round (TestOnly).
LEMMA InheritOnly ==
    ASSUME SignalsAssumption, InheritLabels, [Next]_vars
    PROVE  \/ Inherit \/ SignalForExec \/ UNCHANGED vars
           \/ \E p \in Process : Deliver(p) \/ Exit(p)
  <1> USE DEF Running, Goes, InheritLabels, Ending
  <1>1. ~TestSiginfo
    BY Processes
       DEF TestSiginfo, Sigaction, Raise, Forked, ForkFails, Passes,
           InfoKill, Wait, InfoReset, InfoCheck
  <1>2. ~TestNocldstop
    BY Processes
       DEF TestNocldstop, StopSet, Sigaction, StopFork, Forked,
           ForkFails, Passes, Waitpid, StopKill, Wait, Stop, Killed
  <1>3. ~TestResethand
    BY DEF TestResethand, ResetSet, Sigaction, Raise
  <1> QED
    BY <1>1, <1>2, <1>3 DEF Next, Stopped

\* A signal that is handled is SIGUSR1, and changes no more than what is pending.
LEMMA InheritDelivers ==
    ASSUME SignalsAssumption, Types, Unborn, InheritInv, option # "sigaction",
           NEW p \in Process, Deliver(p)
    PROVE  /\ UNCHANGED <<option, pc, disp, flags, blocked, state, cause, told>>
           /\ pend' = [pend EXCEPT ![p] = {}]
           /\ option # "pending"
  <1>0. /\ Unharmed(p) /\ Lasting /\ InheritLabels /\ p \in {Parent, First}
        /\ state[p] = "running"
    BY Processes DEF InheritInv, Deliver, InheritLabels, Unborn
  <1>1. PICK s \in pend[p] \ blocked[p] : Kill(p, s) \/ Handle(p, s)
    BY DEF Deliver
  <1>2. s = "USR1" /\ pend[p] = {"USR1"}
    BY <1>0, <1>1 DEF Unharmed
  <1>3. pc[p] \notin {"none", "set"}
    BY <1>0, <1>2, Processes DEF InheritLabels, Lasting, Unborn, Ending
  <1>4. Guarded(p)
    BY <1>0, <1>3 DEF Unharmed
  <1>5. option \in {"ignore", "handler"} /\ disp[p]["USR1"] \in {"IGN", "print"}
    BY <1>1, <1>2, <1>4 DEF Types, Option, Guarded
  <1>6. Handle(p, s)
    BY <1>1, <1>2, <1>5 DEF Kill
  <1>7. Interrupted(p) = pc[p]
    BY <1>0, Processes DEF Interrupted, InheritLabels, Ending
  <1>8. UNCHANGED <<pc, disp>>
    BY <1>0, <1>2, <1>5, <1>6, <1>7 DEF Handle, Lasting, Types
  <1> QED
    BY <1>2, <1>5, <1>6, <1>8 DEF Handle

LEMMA NextInheritInv ==
    ASSUME SignalsAssumption, Types, Unborn, InheritInv, option # "sigaction",
           [Next]_vars
    PROVE  option' = option /\ InheritInv'
  <1>0. InheritLabels /\ Lasting /\ \A p \in Process : Unharmed(p)
    BY DEF InheritInv
  <1> USE Processes DEF Types
  <1>1. ASSUME NEW p \in Process, Deliver(p)
        PROVE  option' = option /\ InheritInv'
    <2>1. /\ UNCHANGED <<option, pc, disp, flags, blocked, state, cause, told>>
          /\ pend' = [pend EXCEPT ![p] = {}]
          /\ option # "pending"
      BY <1>1, InheritDelivers
    <2>2. ASSUME NEW q \in Process PROVE Unharmed(q)'
      <3>1. Guarded(q) => Guarded(q)'
        BY <2>1 DEF Guarded
      <3> QED
        BY <1>0, <2>1, <3>1 DEF Unharmed
    <2>3. Lasting' /\ InheritLabels'
      BY <1>0, <2>1 DEF Lasting, InheritLabels
    <2> QED
      BY <2>1, <2>2, <2>3 DEF InheritInv
  <1>2. ASSUME NEW p \in Process, Exit(p) PROVE option' = option /\ InheritInv'
    <2>1. /\ UNCHANGED <<option, disp, flags, blocked, told>>
          /\ pc' = [pc EXCEPT ![p] = "exited"] /\ pc[p] = "exit"
          /\ cause' = [cause EXCEPT ![p] = "exit"]
      BY <1>2 DEF Exit, Ends, Goes, Running
    <2>2. pend' = pend
      BY <1>0, <1>2 DEF Exit, Ends, Sent, Ignores, Unharmed
    <2>3. ASSUME NEW q \in Process PROVE Unharmed(q)'
      <3>1. Guarded(q) => Guarded(q)'
        BY <2>1 DEF Guarded
      <3> QED
        BY <1>0, <2>1, <2>2, <3>1 DEF Unharmed
    <2>4. Lasting' /\ InheritLabels'
      BY <1>0, <2>1, <2>2 DEF Lasting, InheritLabels, Ending
    <2> QED
      BY <2>1, <2>3, <2>4 DEF InheritInv
  <1>3. CASE Set
    <2>1. /\ option' = option /\ pc' = [pc EXCEPT ![Parent] = "raise"]
          /\ pc[Parent] = "set"
          /\ UNCHANGED <<flags, pend, cause, told>>
      BY <1>3 DEF Set, Goes, Running
    <2>2. /\ disp'[Parent]["CHLD"] = "DFL" /\ Guarded(Parent)'
          /\ blocked'[Parent] \subseteq {"USR1"}
      BY <1>0, <1>3 DEF Set, Unharmed, Guarded, Option, Sig
    <2>3. \A q \in Process \ {Parent} : disp'[q] = disp[q] /\ blocked'[q] = blocked[q]
      BY <1>3 DEF Set
    <2>4. ASSUME NEW q \in Process PROVE Unharmed(q)'
      <3>1. q # Parent => (Guarded(q) => Guarded(q)')
        BY <2>1, <2>3 DEF Guarded
      <3> QED
        BY <1>0, <2>1, <2>2, <2>3, <3>1 DEF Unharmed
    <2>5. Lasting' /\ InheritLabels'
      BY <1>0, <2>1 DEF Lasting, InheritLabels, Ending
    <2> QED
      BY <2>1, <2>4, <2>5 DEF InheritInv
  <1>4. CASE Fork
    <2>1. /\ option' = option /\ pc[Parent] = "fork"
          /\ pc' = [pc EXCEPT ![Parent] = "wait",
               ![First] = IF option = "pending" THEN "look" ELSE "child_raise"]
          /\ disp' = [disp EXCEPT ![First] = disp[Parent]]
          /\ blocked' = [blocked EXCEPT ![First] = blocked[Parent]]
          /\ UNCHANGED <<flags, pend, cause, told>>
      BY <1>4 DEF Fork, Forked, Running
    <2>2. Guarded(Parent)
      BY <1>0, <2>1 DEF Unharmed
    <2>3. ASSUME NEW q \in Process PROVE Unharmed(q)'
      <3>1. q = First => Guarded(q)'
        BY <2>1, <2>2 DEF Guarded
      <3>2. q # First => (Guarded(q) => Guarded(q)')
        BY <2>1 DEF Guarded
      <3> QED
        BY <1>0, <2>1, <2>2, <3>1, <3>2 DEF Unharmed
    <2>4. Lasting' /\ InheritLabels'
      BY <1>0, <2>1 DEF Lasting, InheritLabels, Ending
    <2> QED
      BY <2>1, <2>3, <2>4 DEF InheritInv
  <1>5. ASSUME NEW p \in {Parent, First}, NEW from, NEW to,
               <<p, from, to>> \in {<<Parent, "raise", "fork">>,
                                     <<First, "child_raise", "exit">>,
                                     <<Parent, "exec_raise", "exit">>},
               Raise(p, "USR1", from, to)
        PROVE  option' = option /\ InheritInv'
    <2>1. /\ UNCHANGED <<option, disp, flags, blocked, cause, told>>
          /\ pc' = [pc EXCEPT ![p] = to] /\ pc[p] = from
          /\ pend' = Sent(p, "USR1")
      BY <1>5 DEF Raise, Goes, Running
    <2>2. \/ pend' = pend \/ pend' = [pend EXCEPT ![p] = @ \cup {"USR1"}]
      BY <2>1 DEF Sent
    <2>3. ASSUME NEW q \in Process PROVE Unharmed(q)'
      <3>1. Guarded(q) => Guarded(q)'
        BY <2>1 DEF Guarded
      <3> QED
        BY <1>0, <1>5, <2>1, <2>2, <3>1 DEF Unharmed
    <2>4. option = "pending" => p = Parent /\ "USR1" \in pend'[Parent]
                                /\ pend'[First] = pend[First]
      <3> SUFFICES ASSUME option = "pending"
                   PROVE  p = Parent /\ "USR1" \in pend'[Parent]
                          /\ pend'[First] = pend[First]
        OBVIOUS
      <3>1. p = Parent
        BY <1>0, <1>5, <2>1 DEF InheritLabels
      <3>2. blocked[Parent] = {"USR1"}
        BY <1>0, <1>5, <2>1, <3>1 DEF Unharmed, Guarded
      <3> QED
        BY <2>1, <3>1, <3>2 DEF Sent, Ignores
    <2>5. Lasting' /\ InheritLabels'
      <3>1. \/ p = Parent /\ pc'[First] = pc[First]
               /\ pc'[Parent] \in {"fork", "exit"}
               /\ pc[Parent] \in {"raise", "exec_raise"}
            \/ p = First /\ pc'[Parent] = pc[Parent] /\ pc'[First] = "exit"
        BY <1>5, <2>1
      <3>2. \A c \in Stopping : pc'[c] = pc[c]
        BY <2>1
      <3> QED
        BY <1>0, <2>1, <2>2, <2>4, <3>1, <3>2 DEF Lasting, InheritLabels, Ending
    <2> QED
      BY <2>1, <2>3, <2>5 DEF InheritInv
  <1>6. CASE ForkFails("fork", "exit") \/ Wait("wait", "exec")
    <2>1. /\ UNCHANGED <<option, disp, flags, blocked, pend, cause, told>>
          /\ pc' \in {pc, [pc EXCEPT ![Parent] = "exit"],
                     [pc EXCEPT ![Parent] = "exec"]}
          /\ pc[Parent] \in {"fork", "wait"}
      BY <1>6 DEF ForkFails, Wait, Goes, Running, kernelVars
    <2>2. ASSUME NEW q \in Process PROVE Unharmed(q)'
      <3>1. Guarded(q) => Guarded(q)'
        BY <2>1 DEF Guarded
      <3> QED
        BY <1>0, <2>1, <3>1 DEF Unharmed
    <2>3. Lasting' /\ InheritLabels'
      BY <1>0, <2>1 DEF Lasting, InheritLabels, Ending
    <2> QED
      BY <2>1, <2>2, <2>3 DEF InheritInv
  <1>7. ASSUME NEW p \in {Parent, First}, Look(p)
        PROVE  option' = option /\ InheritInv'
    <2>1. /\ UNCHANGED <<option, disp, flags, blocked, pend, cause>>
          /\ pc' = [pc EXCEPT ![p] = "exit"] /\ pc[p] = "look"
          /\ told' = [told EXCEPT ![p] =
                        IF "USR1" \in pend[p] THEN "pending" ELSE "not"]
      BY <1>7 DEF Look, Goes, Running, kernelVars
    <2>2. ASSUME NEW q \in Process PROVE Unharmed(q)'
      <3>1. Guarded(q) => Guarded(q)'
        BY <2>1 DEF Guarded
      <3> QED
        BY <1>0, <2>1, <3>1 DEF Unharmed
    <2>3. Lasting' /\ InheritLabels'
      BY <1>0, <2>1 DEF Lasting, InheritLabels, Ending
    <2> QED
      BY <2>1, <2>2, <2>3 DEF InheritInv
  <1>8. CASE Exec
    <2>1. /\ UNCHANGED <<option, flags, blocked, pend, cause, told>>
          /\ pc[Parent] = "exec"
          /\ \/ pc' = [pc EXCEPT ![Parent] = "exit"] /\ disp' = disp
             \/ /\ option # "handler"
                /\ pc' = [pc EXCEPT ![Parent] =
                             IF option = "pending" THEN "look" ELSE "exec_raise"]
                /\ disp' = [disp EXCEPT ![Parent] = [s \in Sig |->
                               IF @[s] = "IGN" THEN "IGN" ELSE "DFL"]]
      BY <1>8 DEF Exec, Goes, Running
    <2>2. ASSUME NEW q \in Process PROVE Unharmed(q)'
      <3>1. Guarded(q) => Guarded(q)'
        BY <2>1 DEF Guarded, Sig
      <3>2. disp'[q]["CHLD"] = "DFL"
        BY <1>0, <2>1 DEF Unharmed, Sig
      <3> QED
        BY <1>0, <2>1, <3>1, <3>2 DEF Unharmed
    <2>3. Lasting' /\ InheritLabels'
      BY <1>0, <2>1 DEF Lasting, InheritLabels, Ending
    <2> QED
      BY <2>1, <2>2, <2>3 DEF InheritInv
  <1>9. CASE UNCHANGED vars
    BY <1>9
       DEF vars, kernelVars, InheritInv, InheritLabels, Unharmed, Guarded,
           Lasting
  <1> QED
    BY <1>0, <1>1, <1>2, <1>3, <1>4, <1>5, <1>6, <1>7, <1>8, <1>9, InheritOnly
       DEF Inherit, SignalForExec

-----------------------------------------------------------------------------
(* sigaction.c *)

LEMMA TestOnly ==
    ASSUME SignalsAssumption, TestLabels, [Next]_vars
    PROVE  \/ TestSiginfo \/ TestNocldstop \/ TestResethand
           \/ UNCHANGED vars
           \/ \E p \in Process : Deliver(p) \/ Exit(p)
  <1> USE DEF Running, Goes, TestLabels, Informs, AtWork, Stops, Resets, Ending
  <1>1. ~Inherit
    BY Processes
       DEF Inherit, Set, Raise, Fork, Forked, ForkFails, Wait,
           Exec, Look
  <1>2. ~SignalForExec
    BY DEF SignalForExec, Raise, Look
  <1> QED
    BY <1>1, <1>2 DEF Next, Stopped

\* What SIGCHLD does to what is pending.
LEMMA ChldSent ==
    ASSUME SignalsAssumption, Types, ChildrenInv, pend' = Sent(Parent, "CHLD")
    PROVE  /\ \A q \in Process \ {Parent} : pend'[q] = pend[q]
           /\ \/ pend'[Parent] = pend[Parent]
              \/ /\ pend'[Parent] = pend[Parent] \cup {"CHLD"}
                 /\ disp[Parent]["CHLD"] # "DFL"
  BY Processes DEF Types, ChildrenInv, Sent, Ignores

\* A step of the parent that changes nothing else.
LEMMA ParentGoesOn ==
    ASSUME SignalsAssumption, Types, TestInv, NEW from, NEW to,
           <<from, to>> \in {<<"info_fork", "info_sleep">>,
                             <<"info_sleep", "info_kill">>,
                             <<"stop_sleep", "stop_waitpid">>,
                             <<"stop_fork", "exit">>,
                             <<"stop_wait", "stop_waited">>,
                             <<"stop_waited", "stop_set">>},
           pc[Parent] = from, pc' = [pc EXCEPT ![Parent] = to],
           UNCHANGED <<option, kernelVars, i>>
    PROVE  TestInv'
  <1> USE Processes DEF TestInv, kernelVars, Types, Informs, AtWork, Stops, Resets, Ending
  <1>1. /\ pc'[Parent] = to /\ \A q \in Process \ {Parent} : pc'[q] = pc[q]
    OBVIOUS
  <1>2. TestLabels'
    BY <1>1 DEF TestLabels
  <1>3. ChildrenInv'
    BY <1>1 DEF ChildrenInv
  <1>4. SiginfoInv'
    BY <1>1 DEF SiginfoInv
  <1>5. NocldstopInv'
    BY <1>1 DEF NocldstopInv, OlderKilled
  <1>6. ResethandInv'
    BY <1>1 DEF ResethandInv, NocldstopInv
  <1> QED
    BY <1>2, <1>3, <1>4, <1>5, <1>6

\* A step of a child that sends nothing and does not end.
LEMMA ChildGoesOn ==
    ASSUME SignalsAssumption, Types, Unborn, TestInv,
           NEW c \in Process \ {Parent},
           NEW to,
           \/ c = First /\ pc[c] # "none"
              /\ to \in {"info_raise", "info_check", "info_to_pause",
                         "info_pause", "exit"}
           \/ c \in Stopping /\ pc[c] = "child_sleep" /\ to = "child_stop",
           pc' = [pc EXCEPT ![c] = to],
           UNCHANGED <<option, disp, flags, blocked, state, cause, i>>,
           \A q \in Process \ {First} : pend'[q] = pend[q]
    PROVE  TestInv'
  <1> USE Processes DEF TestInv, kernelVars, Types, AtWork
  <1>1. /\ pc'[c] = to /\ \A q \in Process \ {c} : pc'[q] = pc[q]
        /\ pc'[Parent] = pc[Parent] /\ pend'[Parent] = pend[Parent]
    OBVIOUS
  <1>2. TestLabels'
    BY <1>1 DEF TestLabels, Ending
  <1>3. ChildrenInv'
    BY <1>1 DEF ChildrenInv
  <1>4. SiginfoInv'
    BY <1>1 DEF SiginfoInv
  <1>5. NocldstopInv'
    BY <1>1 DEF NocldstopInv, OlderKilled
  <1>6. ResethandInv'
    BY <1>1 DEF ResethandInv
  <1> QED
    BY <1>2, <1>3, <1>4, <1>5, <1>6

LEMMA TestExits ==
    ASSUME SignalsAssumption, Types, Unborn, TestInv, NEW p \in Process,
           Exit(p)
    PROVE  option' = option /\ TestInv'
  <1> USE Processes DEF TestInv
  <1>1. /\ UNCHANGED <<option, disp, flags, blocked, i>>
        /\ state[p] = "running" /\ pend[p] \subseteq blocked[p]
        /\ pc' = [pc EXCEPT ![p] = "exited"] /\ pc[p] = "exit"
        /\ cause' = [cause EXCEPT ![p] = "exit"]
        /\ state' = [state EXCEPT ![p] = IF p = Parent \/ "NOCLDWAIT" \in flags
                                         THEN "gone" ELSE "zombie"]
        /\ pend' = IF p = Parent THEN pend ELSE Sent(Parent, "CHLD")
    BY DEF Exit, Ends, Goes, Running
  <1>2. p \in {Parent, First}
    BY <1>1 DEF TestLabels
  <1>3. /\ pc'[p] = "exited" /\ \A q \in Process \ {p} : pc'[q] = pc[q]
        /\ cause'[p] = "exit" /\ \A q \in Process \ {p} : cause'[q] = cause[q]
        /\ state'[p] # "running" /\ \A q \in Process \ {p} : state'[q] = state[q]
    BY <1>1 DEF Types
  <1>4. TestLabels'
    BY <1>1, <1>2, <1>3 DEF TestLabels, Ending
  <1>5. CASE p = Parent
    <2>1. i <= 2 * N /\ pend' = pend
      BY <1>1, <1>5 DEF ResethandInv, ChildrenInv
    <2>2. ChildrenInv'
      BY <1>1, <1>3, <1>5, <2>1 DEF ChildrenInv, AtWork
    <2>3. SiginfoInv' /\ NocldstopInv' /\ ResethandInv'
      BY <1>1, <1>3, <1>5, <2>1
         DEF SiginfoInv, NocldstopInv, ResethandInv, Informs, AtWork, Stops,
             Resets
    <2> QED
      BY <1>1, <1>4, <2>2, <2>3
  <1>6. CASE p = First
    <2>1. /\ pc[Parent] \in Informs /\ pc[Parent] # "info_waited"
      BY <1>1, <1>6 DEF SiginfoInv, Types
    <2>2. /\ \A q \in Process \ {Parent} : pend'[q] = pend[q]
          /\ \/ pend'[Parent] = pend[Parent]
             \/ /\ pend'[Parent] = pend[Parent] \cup {"CHLD"}
                /\ disp[Parent]["CHLD"] # "DFL"
      BY <1>1, <1>6, ChldSent
    <2>3. ChildrenInv'
      BY <1>1, <1>3, <1>6, <2>2 DEF ChildrenInv
    <2>4. SiginfoInv' /\ NocldstopInv' /\ ResethandInv'
      BY <1>1, <1>3, <1>6, <2>1, <2>2
         DEF SiginfoInv, NocldstopInv, ResethandInv, Informs, AtWork, Stops,
             Resets
    <2> QED
      BY <1>1, <1>4, <2>3, <2>4
  <1> QED
    BY <1>2, <1>5, <1>6

\* A signal is handled, and a system call interrupted, or the parent is killed by
\* its second SIGINT.
LEMMA TestDelivers ==
    ASSUME SignalsAssumption, Types, Unborn, TestInv, NEW p \in Process,
           Deliver(p)
    PROVE  option' = option /\ TestInv'
  <1> USE Processes DEF TestInv
  <1>1. PICK s \in pend[p] \ blocked[p] : Kill(p, s) \/ Handle(p, s)
    BY DEF Deliver
  <1>2. state[p] = "running" /\ s \in Sig
    BY <1>1 DEF Deliver, Types
  <1>3. p \in {Parent, First}
    BY <1>1 DEF ChildrenInv
  <1>4. CASE p = First
    <2>1. /\ pc[First] # "none" /\ disp[First] = [t \in Sig |-> "info"]
          /\ flags = {}
      BY <1>2, <1>4 DEF Unborn, ChildrenInv, SiginfoInv, Informs, Types
    <2>2. Handle(p, s)
      BY <1>1, <1>2, <1>4, <2>1 DEF Kill
    <2>3. Interrupted(p) \in {pc[p], "info_check"}
      BY <1>4 DEF Interrupted, TestLabels, Ending
    <2>4. /\ UNCHANGED <<option, disp, flags, blocked, state, cause, i>>
          /\ pend' = [pend EXCEPT ![First] = @ \ {s}]
          /\ pc' = [pc EXCEPT ![First] = Interrupted(p)]
      BY <1>2, <1>4, <2>1, <2>2 DEF Handle
    <2>5. \A q \in Process \ {First} : pend'[q] = pend[q]
      BY <2>4 DEF Types
    <2>6. CASE Interrupted(p) = "info_check"
      BY <1>4, <2>1, <2>4, <2>5, <2>6, ChildGoesOn
    <2>7. CASE Interrupted(p) = pc[p]
      <3>1. pc' = pc
        BY <1>4, <2>4, <2>7 DEF Types
      <3> QED
        BY <2>4, <2>5, <3>1
           DEF TestLabels, ChildrenInv, SiginfoInv, NocldstopInv, OlderKilled,
               ResethandInv
    <2> QED
      BY <2>3, <2>6, <2>7
  <1>5. CASE p = Parent /\ Kill(p, s)
    <2>1. /\ UNCHANGED <<option, pc, disp, flags, blocked, i, pend>>
          /\ state' = [state EXCEPT ![Parent] = "gone"]
          /\ cause' = [cause EXCEPT ![Parent] = s]
          /\ disp[Parent][s] = "DFL"
      BY <1>5 DEF Kill, Ends
    <2>2. s = "INT" \/ i <= 2 * N
      <3>1. pc[Parent] \notin {"info_set"} \cup Informs
        BY <1>1, <1>2, <1>5, <2>1 DEF SiginfoInv
      <3>2. pc[Parent] \notin Stops
        BY <1>1, <1>5, <2>1 DEF NocldstopInv
      <3>3. pc[Parent] \in Resets \cup Ending
        BY <3>1, <3>2 DEF TestLabels
      <3> QED
        BY <1>1, <1>5, <2>1, <3>3 DEF ResethandInv, Resets, Ending
    <2>3. /\ cause'[Parent] = s /\ state'[Parent] = "gone"
          /\ \A q \in Process \ {Parent} :
                cause'[q] = cause[q] /\ state'[q] = state[q]
      BY <2>1 DEF Types
    <2>4. TestLabels' /\ ChildrenInv' /\ SiginfoInv'
      BY <2>1, <2>3 DEF TestLabels, ChildrenInv, SiginfoInv
    <2>5. pc[Parent] \notin Stops
      BY <1>1, <1>5, <2>1 DEF NocldstopInv
    <2>6. NocldstopInv' /\ ResethandInv'
      BY <2>1, <2>2, <2>3, <2>5 DEF NocldstopInv, ResethandInv, Stops, AtWork
    <2> QED
      BY <2>1, <2>4, <2>6
  <1>6. CASE p = Parent /\ Handle(p, s)
    <2>1. /\ UNCHANGED <<option, flags, blocked, state, cause, i>>
          /\ disp[Parent][s] # "DFL"
          /\ pend' = [pend EXCEPT ![Parent] = @ \ {s}]
          /\ pc' = [pc EXCEPT ![Parent] = Interrupted(Parent)]
          /\ disp' = IF disp[Parent][s] = "resethand"
                        \/ (s = "CHLD" /\ "RESETHAND" \in flags)
                     THEN [disp EXCEPT ![Parent][s] = "DFL"] ELSE disp
      BY <1>6 DEF Handle
    <2>2. \/ Interrupted(Parent) = pc[Parent]
          \/ /\ pc[Parent] = "stop_waitpid" /\ Interrupted(Parent) = "stop_kill"
             /\ "RESTART" \notin flags
          \/ pc[Parent] = "stop_wait" /\ Interrupted(Parent) = "stop_waited"
      BY DEF Interrupted, TestLabels, Informs, Stops, AtWork, Resets, Ending
    <2>3. /\ pc'[Parent] = Interrupted(Parent)
          /\ pend'[Parent] = pend[Parent] \ {s}
          /\ \A q \in Process \ {Parent} :
                pc'[q] = pc[q] /\ disp'[q] = disp[q] /\ pend'[q] = pend[q]
      BY <2>1 DEF Types
    <2>4. TestLabels'
      BY <2>2, <2>3 DEF TestLabels, Stops, AtWork
    <2>5. ChildrenInv'
      BY <2>1, <2>2, <2>3 DEF ChildrenInv, AtWork
    <2>6. SiginfoInv'
      <3>1. pc[Parent] \in Informs => disp' = disp
        BY <1>2, <2>1 DEF SiginfoInv
      <3> QED
        BY <1>1, <1>6, <2>1, <2>2, <2>3, <3>1 DEF SiginfoInv, Informs
    <2>7. NocldstopInv'
      <3>1. "CHLD" \in pend'[Parent] => disp'[Parent]["CHLD"] # "DFL"
        BY <1>2, <2>1, <2>3 DEF NocldstopInv, Types, Sig
      <3>2. pc[Parent] \in Stops => s = "CHLD" /\ pend'[Parent] = {}
        BY <1>1, <1>6, <2>3 DEF NocldstopInv
      <3>3. pc'[Parent] \in Stops => pc[Parent] \in Stops
        BY <2>2, <2>3 DEF Stops, AtWork
      <3>4. pc'[Parent] = "stop_kill" =>
              state[i] = "stopped" \/ ("RESTART" \notin flags /\ OlderKilled)
        BY <1>1, <1>6, <2>2, <2>3, <3>2 DEF NocldstopInv, Stops, AtWork
      <3>5. pc'[Parent] = "stop_fork" => pc[Parent] = "stop_fork"
        BY <2>2, <2>3
      <3>6. pend'[Parent] = {} \/ pc'[Parent] \notin {"stop_sleep", "stop_waitpid"}
        BY <2>2, <2>3, <3>2 DEF Stops, AtWork
      <3>7. OlderKilled' <=> OlderKilled
        BY <2>1 DEF OlderKilled
      <3> QED
        BY <2>1, <3>1, <3>2, <3>3, <3>4, <3>5, <3>6, <3>7 DEF NocldstopInv
    <2>8. ResethandInv'
      <3>1. CASE pc[Parent] \in Resets \cup Ending
        <4>1. pc'[Parent] = pc[Parent]
          BY <2>2, <2>3, <3>1 DEF Resets, Ending
        <4>2. disp'[Parent]["CHLD"] \in {"DFL", disp[Parent]["CHLD"]}
          BY <1>2, <2>1 DEF Types, Sig
        <4>3. pc[Parent] = "reset_again" =>
                s = "INT" /\ pend'[Parent] = {} /\ disp'[Parent]["INT"] = "DFL"
          BY <1>1, <1>2, <1>6, <2>1, <2>3 DEF ResethandInv, Types
        <4>4. pc[Parent] \notin {"reset_set", "reset_raise"}
          BY <1>1, <1>6 DEF ResethandInv
        <4>5. pc[Parent] = "exit" => i <= 2 * N
          BY <1>1, <1>6, <2>1 DEF ResethandInv
        <4> QED
          BY <2>1, <4>1, <4>2, <4>3, <4>4, <4>5 DEF ResethandInv, Resets
      <3>2. CASE pc[Parent] \notin Resets \cup Ending
        <4>1. pc'[Parent] \notin Resets \cup Ending
          BY <2>2, <2>3, <3>2 DEF Resets, Ending
        <4> QED
          BY <2>1, <4>1 DEF ResethandInv, Resets, Ending
      <3> QED
        BY <3>1, <3>2
    <2> QED
      BY <2>1, <2>4, <2>5, <2>6, <2>7, <2>8
  <1> QED
    BY <1>1, <1>3, <1>4, <1>5, <1>6

LEMMA TestSiginfoKeeps ==
    ASSUME SignalsAssumption, Types, Unborn, TestInv, TestSiginfo
    PROVE  option' = option /\ TestInv'
  <1> USE Processes
  <1>0. TestLabels /\ ChildrenInv /\ SiginfoInv /\ NocldstopInv /\ ResethandInv
    BY DEF TestInv
  <1>1. CASE \/ ForkFails("info_fork", "info_sleep")
             \/ Passes(Parent, "info_sleep", "info_kill")
    BY <1>1, ParentGoesOn DEF ForkFails, Passes, Goes, Running
  <1>2. CASE InfoReset \/ InfoCheck
    <2>1. PICK to \in {"info_raise", "exit", "info_to_pause", "info_pause"} :
            pc' = [pc EXCEPT ![First] = to]
      BY <1>2 DEF InfoReset, InfoCheck, Passes, Goes
    <2>2. /\ pc[First] # "none"
          /\ UNCHANGED <<option, disp, flags, blocked, state, cause, i, pend>>
      BY <1>2
         DEF InfoReset, InfoCheck, Passes, Goes, Running, kernelVars
    <2> QED
      BY <2>1, <2>2, ChildGoesOn
  <1>3. CASE Raise(First, "USR1", "info_raise", "info_check")
    <2>1. /\ pc[First] # "none" /\ pc' = [pc EXCEPT ![First] = "info_check"]
          /\ UNCHANGED <<option, disp, flags, blocked, state, cause, i>>
      BY <1>3 DEF Raise, Goes, Running
    <2>2. \A q \in Process \ {First} : pend'[q] = pend[q]
      BY <1>3 DEF Raise, Sent, Types
    <2> QED
      BY <2>1, <2>2, ChildGoesOn
  <1>4. CASE Wait("info_wait", "info_waited")
    <2>1. /\ UNCHANGED <<option, disp, flags, blocked, pend, cause, i>>
          /\ pc[Parent] = "info_wait"
          /\ pc' = pc \/ (/\ pc' = [pc EXCEPT ![Parent] = "info_waited"]
                        /\ Alive \cup Zombies = {} /\ state' = state)
      BY <1>4 DEF Wait, Goes, Running
    <2>2. \A q \in Process : state'[q] \in {state[q], "gone"}
      BY <1>4 DEF Wait, Zombies, Types
    <2>3. Alive \cup Zombies = {} => state[First] \in {"unborn", "gone"}
      BY DEF Alive, Zombies, Types
    <2>4. /\ pc'[Parent] \in {"info_wait", "info_waited"}
          /\ \A q \in Process \ {Parent} : pc'[q] = pc[q]
          /\ pc'[Parent] = "info_waited" => state'[First] \in {"unborn", "gone"}
      BY <2>1, <2>3 DEF Types
    <2>5. TestLabels' /\ ChildrenInv'
      BY <1>0, <2>1, <2>4 DEF TestLabels, ChildrenInv, Informs, AtWork
    <2>6. SiginfoInv'
      BY <1>0, <2>1, <2>4 DEF SiginfoInv, Informs
    <2>7. NocldstopInv' /\ ResethandInv'
      BY <1>0, <2>1, <2>2, <2>4
         DEF NocldstopInv, ResethandInv, Informs, Stops, AtWork, Resets
    <2> QED
      BY <2>1, <2>5, <2>6, <2>7 DEF TestInv
  <1>5. CASE Forked(First, "info_fork", "info_sleep", "info_reset")
    <2>1. /\ UNCHANGED <<option, flags, pend, cause>>
          /\ pc[Parent] = "info_fork"
          /\ pc' = [pc EXCEPT ![Parent] = "info_sleep", ![First] = "info_reset"]
          /\ disp' = [disp EXCEPT ![First] = disp[Parent]]
          /\ blocked' = [blocked EXCEPT ![First] = blocked[Parent]]
          /\ state' = [state EXCEPT ![First] = "running"]
          /\ i' = First
      BY <1>5 DEF Forked, Running
    <2>2. /\ pc'[Parent] = "info_sleep" /\ pc'[First] = "info_reset"
          /\ \A q \in Stopping : pc'[q] = pc[q]
          /\ disp'[Parent] = disp[Parent] /\ disp'[First] = disp[Parent]
          /\ \A q \in Process : blocked'[q] = {}
          /\ First \notin Stopping /\ First \in Nat /\ First < 2
      BY <1>0, <2>1 DEF Types, ChildrenInv, First, Stopping
    <2>3. TestLabels'
      BY <1>0, <2>2 DEF TestLabels, Informs
    <2>4. i = 0 /\ disp[Parent] = [t \in Sig |-> "info"] /\ flags = {}
      BY <1>0, <2>1 DEF SiginfoInv, Informs
    <2>5. \A c \in Stopping : c > i /\ c > i' /\ ~(c < i')
      BY <2>1, <2>4 DEF Stopping, First
    <2>6. ChildrenInv'
      BY <1>0, <2>1, <2>2, <2>4, <2>5 DEF ChildrenInv, AtWork
    <2>7. SiginfoInv' /\ NocldstopInv' /\ ResethandInv'
      BY <1>0, <2>1, <2>2, <2>4, SignalsAssumption
         DEF SiginfoInv, NocldstopInv, ResethandInv, Informs, Stops, AtWork,
             Resets, First, SignalsAssumption
    <2> QED
      BY <2>1, <2>3, <2>6, <2>7 DEF TestInv
  <1>6. CASE InfoKill
    <2>1. /\ UNCHANGED <<option, disp, flags, blocked, state, cause, i>>
          /\ pc[Parent] = "info_kill"
          /\ pc' = [pc EXCEPT ![Parent] = "info_wait"]
          /\ pend' = pend \/ pend' = [pend EXCEPT ![First] = @ \cup {"USR1"}]
      BY <1>6 DEF InfoKill, Goes, Running, Sent
    <2>2. /\ pc'[Parent] = "info_wait"
          /\ \A q \in Process \ {Parent} : pc'[q] = pc[q]
          /\ \A q \in Process \ {First} : pend'[q] = pend[q]
          /\ pend'[Parent] = pend[Parent]
      BY <2>1 DEF Types
    <2>3. /\ TestLabels' /\ ChildrenInv' /\ SiginfoInv'
          /\ NocldstopInv' /\ ResethandInv'
      BY <1>0, <2>1, <2>2
         DEF TestLabels, ChildrenInv, SiginfoInv, NocldstopInv, ResethandInv,
             Informs, Stops, AtWork, Resets
    <2> QED
      BY <2>1, <2>3 DEF TestInv
  <1>7. ASSUME NEW s \in Sig, NEW from, NEW to,
               <<from, to>> \in {<<"info_raise", "info_queue">>,
                                 <<"info_queue", "info_fork">>},
               Raise(Parent, s, from, to)
        PROVE  option' = option /\ TestInv'
    <2>1. /\ UNCHANGED <<option, disp, flags, blocked, state, cause, i>>
          /\ pc[Parent] = from /\ pc' = [pc EXCEPT ![Parent] = to]
          /\ pend' = pend \/ pend' = [pend EXCEPT ![Parent] = @ \cup {s}]
      BY <1>7 DEF Raise, Goes, Running, Sent
    <2>2. /\ pc'[Parent] = to /\ \A q \in Process \ {Parent} : pc'[q] = pc[q]
          /\ \A q \in Process \ {Parent} : pend'[q] = pend[q]
      BY <2>1 DEF Types
    <2>3. disp[Parent]["CHLD"] = "info"
      BY <1>0, <1>7, <2>1 DEF SiginfoInv, Informs, Sig
    <2>4. TestLabels' /\ ChildrenInv'
      BY <1>0, <1>7, <2>1, <2>2 DEF TestLabels, ChildrenInv, Informs, AtWork
    <2>5. SiginfoInv' /\ NocldstopInv' /\ ResethandInv'
      BY <1>0, <1>7, <2>1, <2>2, <2>3
         DEF SiginfoInv, NocldstopInv, ResethandInv, Informs, Stops, AtWork,
             Resets
    <2> QED
      BY <2>1, <2>4, <2>5 DEF TestInv
  <1>8. ASSUME NEW d, NEW from, NEW to, Sigaction(from, to, d, {}),
               \/ from = "info_set" /\ to = "info_raise" /\ d = [t \in Sig |-> "info"]
               \/ from = "info_waited" /\ to = "stop_set" /\ d = Default
        PROVE  option' = option /\ TestInv'
    <2>1. /\ UNCHANGED <<option, blocked, pend, state, cause, i>>
          /\ pc[Parent] = from /\ pc' = [pc EXCEPT ![Parent] = to]
          /\ disp' = [disp EXCEPT ![Parent] = d] /\ flags' = {}
          /\ pend[Parent] \subseteq blocked[Parent]
      BY <1>8 DEF Sigaction, Goes, Running
    <2>2. /\ pc'[Parent] = to /\ \A q \in Process \ {Parent} : pc'[q] = pc[q]
          /\ disp'[Parent] = d
          /\ \A q \in Process \ {Parent} : disp'[q] = disp[q]
      BY <2>1 DEF Types
    <2>3. pend[Parent] = {}
      BY <1>0, <2>1 DEF ChildrenInv
    <2>4. TestLabels' /\ ChildrenInv'
      BY <1>0, <1>8, <2>1, <2>2 DEF TestLabels, ChildrenInv, Informs, Stops, AtWork
    <2>5. SiginfoInv' /\ NocldstopInv' /\ ResethandInv'
      BY <1>0, <1>8, <2>1, <2>2, <2>3, SignalsAssumption
         DEF SiginfoInv, NocldstopInv, ResethandInv, Informs, Stops, AtWork,
             Resets, First, SignalsAssumption
    <2> QED
      BY <2>1, <2>4, <2>5 DEF TestInv
  <1> QED
    BY <1>1, <1>2, <1>3, <1>4, <1>5, <1>6, <1>7, <1>8 DEF TestSiginfo, Sig

\* A new way to handle SIGCHLD, with nothing pending.
LEMMA StopSetKeeps ==
    ASSUME SignalsAssumption, Types, TestInv, StopSet
    PROVE  option' = option /\ TestInv'
  <1> USE Processes
  <1>0. TestLabels /\ ChildrenInv /\ SiginfoInv /\ NocldstopInv /\ ResethandInv
    BY DEF TestInv
  <1>1. PICK to \in {"stop_fork", "reset_set"}, d \in {StopDisp, Default} :
          /\ disp' = [disp EXCEPT ![Parent] = d]
          /\ pc' = [pc EXCEPT ![Parent] = to]
          /\ to = "stop_fork" => i <= First \/ i = N + 1
          /\ to = "reset_set" => d = Default
    BY DEF StopSet, Sigaction, Goes
  <1>2. /\ UNCHANGED <<option, blocked, pend, state, cause, i>>
        /\ pc[Parent] = "stop_set" /\ pend[Parent] \subseteq blocked[Parent]
    BY DEF StopSet, Sigaction, Goes, Running
  <1>3. /\ pc'[Parent] = to /\ \A q \in Process \ {Parent} : pc'[q] = pc[q]
        /\ disp'[Parent] = d
        /\ \A q \in Process \ {Parent} : disp'[q] = disp[q]
    BY <1>1 DEF Types
  <1>4. pend[Parent] = {} /\ (to = "stop_fork" => i <= 2 * N)
    BY <1>0, <1>1, <1>2, SignalsAssumption
       DEF ChildrenInv, First, SignalsAssumption, Types
  <1>5. Default["CHLD"] = "DFL"
    BY DEF Default, Sig
  <1>6. TestLabels' /\ ChildrenInv'
    BY <1>0, <1>2, <1>3 DEF TestLabels, ChildrenInv, Stops, AtWork, Resets
  <1>7. SiginfoInv'
    BY <1>0, <1>2, <1>3 DEF SiginfoInv, Informs, Stops
  <1>8. NocldstopInv'
    BY <1>0, <1>2, <1>3, <1>4 DEF NocldstopInv
  <1>9. ResethandInv'
    BY <1>0, <1>1, <1>2, <1>3, <1>4, <1>5 DEF ResethandInv, Resets
  <1> QED
    BY <1>2, <1>6, <1>7, <1>8, <1>9 DEF TestInv

\* The next child: those before it are killed, and nothing is pending.
LEMMA StopForkKeeps ==
    ASSUME SignalsAssumption, Types, TestInv,
           Forked(Next_i, "stop_fork", "stop_sleep", "child_sleep")
    PROVE  option' = option /\ TestInv'
  <1> USE Processes
  <1>0. TestLabels /\ ChildrenInv /\ SiginfoInv /\ NocldstopInv /\ ResethandInv
    BY DEF TestInv
  <1>1. /\ UNCHANGED <<option, flags, pend, cause>>
        /\ pc[Parent] = "stop_fork" /\ pend[Parent] \subseteq blocked[Parent]
        /\ state[Parent] = "running"
        /\ pc' = [pc EXCEPT ![Parent] = "stop_sleep", ![Next_i] = "child_sleep"]
        /\ disp' = [disp EXCEPT ![Next_i] = disp[Parent]]
        /\ blocked' = [blocked EXCEPT ![Next_i] = blocked[Parent]]
        /\ state' = [state EXCEPT ![Next_i] = "running"]
        /\ i' = Next_i
    BY DEF Forked, Running
  <1>2. /\ Next_i \in Stopping /\ Next_i \in Int /\ pend[Parent] = {}
        /\ i \in Stopping => Next_i = i + 1
        /\ i \notin Stopping => Next_i = 2
    BY <1>0, <1>1, SignalsAssumption
       DEF NocldstopInv, ChildrenInv, Types, Next_i, Stopping,
           SignalsAssumption
  <1>3. /\ pc'[Parent] = "stop_sleep" /\ pc'[Next_i] = "child_sleep"
        /\ \A q \in Process \ {Parent, Next_i} : pc'[q] = pc[q]
        /\ disp'[Parent] = disp[Parent] /\ disp'[First] = disp[First]
        /\ \A q \in Process : blocked'[q] = {}
        /\ state'[First] = state[First]
        /\ First # Next_i /\ Parent # Next_i
    BY <1>0, <1>1, <1>2 DEF Types, ChildrenInv
  <1>4. TestLabels'
    BY <1>0, <1>3 DEF TestLabels, Stops, AtWork
  <1>5. ASSUME NEW c \in Stopping
        PROVE  /\ c < Next_i => pc[c] = "killed"
               /\ c > Next_i => pc[c] = "none"
               /\ c \in Int
    <2>1. /\ c < i => pc[c] = "killed"
          /\ c > i => pc[c] = "none"
          /\ i \in Stopping => pc[i] = "killed"
      BY <1>0, <1>1 DEF ChildrenInv, AtWork
    <2>2. c \in Int /\ c >= 2 /\ i \in Int /\ (i \notin Stopping => i < 2)
      BY SignalsAssumption DEF Stopping, Types, SignalsAssumption
    <2> QED
      BY <1>2, <2>1, <2>2
  <1>6. ChildrenInv'
    <2>1. ASSUME NEW c \in Stopping
          PROVE  /\ pend'[c] = {} /\ cause'[c] \in {"none", "KILL"}
                 /\ c < i' => pc'[c] = "killed"
                 /\ c > i' => pc'[c] = "none"
      <3>1. c # Next_i => pc'[c] = pc[c]
        BY <1>3
      <3> QED
        BY <1>0, <1>1, <1>2, <1>5, <3>1 DEF ChildrenInv
    <2>2. pc'[First] = pc[First]
      BY <1>3
    <2> QED
      BY <1>0, <1>1, <1>2, <1>3, <2>1, <2>2 DEF ChildrenInv, AtWork
  <1>7. SiginfoInv'
    BY <1>0, <1>1, <1>3 DEF SiginfoInv, Informs
  <1>8. NocldstopInv' /\ ResethandInv'
    BY <1>0, <1>1, <1>2, <1>3
       DEF NocldstopInv, ResethandInv, Stops, AtWork, Resets, Stopping
  <1> QED
    BY <1>1, <1>4, <1>6, <1>7, <1>8 DEF TestInv

LEMMA StopKillKeeps ==
    ASSUME SignalsAssumption, Types, TestInv, StopKill
    PROVE  option' = option /\ TestInv'
  <1> USE Processes
  <1>0. TestLabels /\ ChildrenInv /\ SiginfoInv /\ NocldstopInv /\ ResethandInv
    BY DEF TestInv
  <1>1. PICK to \in {"stop_wait", "stop_fork"} :
          /\ pc' = [pc EXCEPT ![i] = "killed", ![Parent] = to]
          /\ to = "stop_fork" => i # 2 * N + 1
    BY DEF StopKill
  <1>2. UNCHANGED <<option, kernelVars, i>> /\ pc[Parent] = "stop_kill"
    BY DEF StopKill, Running
  <1>3. i \in Stopping
    BY <1>0, <1>2 DEF ChildrenInv, AtWork
  <1>4. /\ pc'[Parent] = to /\ pc'[i] = "killed"
        /\ \A q \in Process \ {Parent, i} : pc'[q] = pc[q]
        /\ First # i /\ (to = "stop_fork" => i <= 2 * N)
    BY <1>1, <1>3 DEF Types
  <1>5. TestLabels'
    BY <1>0, <1>4 DEF TestLabels, Stops, AtWork
  <1>6. ChildrenInv'
    BY <1>0, <1>2, <1>3, <1>4 DEF ChildrenInv, AtWork, kernelVars, Stopping
  <1>7. SiginfoInv'
    BY <1>0, <1>2, <1>4 DEF SiginfoInv, Informs, kernelVars
  <1>8. NocldstopInv' /\ ResethandInv'
    BY <1>0, <1>2, <1>4
       DEF NocldstopInv, ResethandInv, Stops, AtWork, Resets, kernelVars
  <1> QED
    BY <1>2, <1>5, <1>6, <1>7, <1>8 DEF TestInv

LEMMA StopWaitKeeps ==
    ASSUME SignalsAssumption, Types, TestInv, Wait("stop_wait", "stop_waited")
    PROVE  option' = option /\ TestInv'
  <1> USE Processes
  <1>0. TestLabels /\ ChildrenInv /\ SiginfoInv /\ NocldstopInv /\ ResethandInv
    BY DEF TestInv
  <1>1. /\ UNCHANGED <<option, disp, flags, blocked, pend, cause, i>>
        /\ pc[Parent] = "stop_wait"
        /\ \/ pc' = pc
           \/ pc' = [pc EXCEPT ![Parent] = "stop_waited"] /\ state' = state
    BY DEF Wait, Goes, Running
  <1>2. \A q \in Process : state'[q] \in {state[q], "gone"}
    BY DEF Wait, Zombies, Types
  <1>3. /\ pc'[Parent] \in {"stop_wait", "stop_waited"}
        /\ \A q \in Process \ {Parent} : pc'[q] = pc[q]
    BY <1>1 DEF Types
  <1>4. TestLabels' /\ ChildrenInv'
    BY <1>0, <1>1, <1>3 DEF TestLabels, ChildrenInv, Stops, AtWork
  <1>5. SiginfoInv'
    BY <1>0, <1>1, <1>2, <1>3 DEF SiginfoInv, Informs
  <1>6. NocldstopInv' /\ ResethandInv'
    BY <1>0, <1>1, <1>2, <1>3 DEF NocldstopInv, ResethandInv, Stops, AtWork, Resets
  <1> QED
    BY <1>1, <1>4, <1>5, <1>6 DEF TestInv

\* Only the last child can stop, and only while the parent waits for that.
LEMMA StopKeeps ==
    ASSUME SignalsAssumption, Types, TestInv, NEW c \in Stopping, Stop(c)
    PROVE  option' = option /\ TestInv'
  <1> USE Processes
  <1>0. TestLabels /\ ChildrenInv /\ SiginfoInv /\ NocldstopInv /\ ResethandInv
    BY DEF TestInv
  <1>1. /\ UNCHANGED <<option, disp, flags, blocked, cause, i>>
        /\ pc[c] = "child_stop" /\ pc' = [pc EXCEPT ![c] = "child_stopped"]
        /\ state' = [state EXCEPT ![c] = "stopped"]
        /\ pend' = IF "NOCLDSTOP" \in flags THEN pend ELSE Sent(Parent, "CHLD")
    BY DEF Stop, Goes, Running
  <1>2. i = c
    BY <1>0, <1>1 DEF ChildrenInv, Stopping, Types
  <1>3. pc[Parent] \in AtWork
    BY <1>0, <1>1, <1>2 DEF ChildrenInv
  <1>4. /\ \A q \in Process \ {Parent} : pend'[q] = pend[q]
        /\ \/ pend'[Parent] = pend[Parent]
           \/ /\ pend'[Parent] = pend[Parent] \cup {"CHLD"}
              /\ disp[Parent]["CHLD"] # "DFL"
    BY <1>0, <1>1, ChldSent
  <1>5. /\ pc'[c] = "child_stopped" /\ \A q \in Process \ {c} : pc'[q] = pc[q]
        /\ state'[c] = "stopped" /\ \A q \in Process \ {c} : state'[q] = state[q]
        /\ c # Parent /\ c # First
    BY <1>1 DEF Types
  <1>6. TestLabels'
    BY <1>0, <1>5 DEF TestLabels
  <1>7. ChildrenInv'
    BY <1>0, <1>1, <1>2, <1>3, <1>4, <1>5 DEF ChildrenInv
  <1>8. SiginfoInv'
    BY <1>0, <1>1, <1>3, <1>4, <1>5 DEF SiginfoInv, Informs, AtWork
  <1>9. NocldstopInv' /\ ResethandInv'
    BY <1>0, <1>1, <1>2, <1>3, <1>4, <1>5
       DEF NocldstopInv, ResethandInv, AtWork, Resets
  <1> QED
    BY <1>1, <1>6, <1>7, <1>8, <1>9 DEF TestInv

\* While the parent waits for the last child, those that end are older.
LEMMA KilledKeeps ==
    ASSUME SignalsAssumption, Types, TestInv, NEW c \in Stopping, Killed(c)
    PROVE  option' = option /\ TestInv'
  <1> USE Processes
  <1>0. TestLabels /\ ChildrenInv /\ SiginfoInv /\ NocldstopInv /\ ResethandInv
    BY DEF TestInv
  <1>1. /\ UNCHANGED <<option, pc, disp, flags, blocked, i>>
        /\ pc[c] = "killed" /\ cause' = [cause EXCEPT ![c] = "KILL"]
        /\ \E why \in {"gone", "zombie"} : state' = [state EXCEPT ![c] = why]
        /\ pend' = Sent(Parent, "CHLD")
    BY DEF Killed, Ends
  <1>2. /\ \A q \in Process \ {Parent} : pend'[q] = pend[q]
        /\ \/ pend'[Parent] = pend[Parent]
           \/ /\ pend'[Parent] = pend[Parent] \cup {"CHLD"}
              /\ disp[Parent]["CHLD"] # "DFL"
    BY <1>0, <1>1, ChldSent
  <1>3. /\ cause'[c] = "KILL" /\ \A q \in Process \ {c} : cause'[q] = cause[q]
        /\ \A q \in Process \ {c} : state'[q] = state[q]
        /\ c # Parent /\ c # First
    BY <1>1 DEF Types
  <1>4. pc[Parent] \in AtWork => OlderKilled' /\ i # c
    <2> SUFFICES ASSUME pc[Parent] \in AtWork PROVE c < i
      BY <1>1, <1>3 DEF OlderKilled, Stopping
    <2>1. i \in Int /\ c \in Int
      BY DEF Types, Stopping
    <2>2. c # i /\ ~(c > i)
      BY <1>0, <1>1 DEF ChildrenInv
    <2> QED
      BY <2>1, <2>2
  <1>5. OlderKilled => OlderKilled'
    BY <1>1, <1>3 DEF OlderKilled
  <1>6. TestLabels' /\ ChildrenInv'
    BY <1>0, <1>1, <1>2, <1>3 DEF TestLabels, ChildrenInv
  <1>7. pc[Parent] # "info_set"  /\ SiginfoInv'
    <2>1. i # 0
      BY <1>0, <1>1, SignalsAssumption
         DEF ChildrenInv, Stopping, SignalsAssumption
    <2> QED
      BY <1>0, <1>1, <1>3, <2>1 DEF SiginfoInv
  <1>8. NocldstopInv'
    BY <1>0, <1>1, <1>2, <1>3, <1>4, <1>5 DEF NocldstopInv, AtWork
  <1>9. ResethandInv'
    BY <1>0, <1>1, <1>2, <1>3 DEF ResethandInv, Resets
  <1> QED
    BY <1>1, <1>6, <1>7, <1>8, <1>9 DEF TestInv

LEMMA TestNocldstopKeeps ==
    ASSUME SignalsAssumption, Types, Unborn, TestInv, TestNocldstop
    PROVE  option' = option /\ TestInv'
  <1> USE Processes
  <1>1. CASE \/ ForkFails("stop_fork", "exit")
             \/ Passes(Parent, "stop_sleep", "stop_waitpid")
             \/ Passes(Parent, "stop_waited", "stop_set")
    BY <1>1, ParentGoesOn DEF ForkFails, Passes, Goes, Running
  <1>2. CASE Waitpid
    <2>1. /\ state[i] = "stopped" /\ UNCHANGED <<option, kernelVars, i>>
          /\ pc[Parent] = "stop_waitpid"
          /\ pc' = [pc EXCEPT ![Parent] = "stop_kill"]
      BY <1>2 DEF Waitpid, Goes, Running
    <2>2. /\ pc'[Parent] = "stop_kill"
          /\ \A q \in Process \ {Parent} : pc'[q] = pc[q]
      BY <2>1 DEF Types
    <2>3. /\ TestLabels' /\ ChildrenInv' /\ SiginfoInv'
          /\ NocldstopInv' /\ ResethandInv'
      BY <2>1, <2>2
         DEF TestInv, TestLabels, ChildrenInv, SiginfoInv, NocldstopInv,
             ResethandInv, Informs, Stops, AtWork, Resets, kernelVars
    <2> QED
      BY <2>1, <2>3 DEF TestInv
  <1>3. ASSUME NEW c \in Stopping, Passes(c, "child_sleep", "child_stop")
        PROVE  option' = option /\ TestInv'
    BY <1>3, ChildGoesOn DEF Passes, Goes, Running, kernelVars
  <1> QED
    BY <1>1, <1>2, <1>3, StopSetKeeps, StopForkKeeps, StopKillKeeps, StopWaitKeeps,
       StopKeeps, KilledKeeps
       DEF TestNocldstop, StopFork

LEMMA TestResethandKeeps ==
    ASSUME SignalsAssumption, Types, TestInv, TestResethand
    PROVE  option' = option /\ TestInv'
  <1> USE Processes
  <1>0. TestLabels /\ ChildrenInv /\ SiginfoInv /\ NocldstopInv /\ ResethandInv
    BY DEF TestInv
  <1>1. CASE ResetSet
    <2>1. /\ UNCHANGED <<option, blocked, pend, state, cause, i>>
          /\ pc[Parent] = "reset_set"
          /\ pc' = [pc EXCEPT ![Parent] = "reset_raise"]
          /\ disp' = [disp EXCEPT ![Parent] =
                        [Default EXCEPT !["INT"] = "resethand"]]
      BY <1>1 DEF ResetSet, Sigaction, Goes, Running
    <2>2. /\ pc'[Parent] = "reset_raise"
          /\ \A q \in Process \ {Parent} : pc'[q] = pc[q]
          /\ disp'[Parent]["CHLD"] = "DFL" /\ disp'[Parent]["INT"] = "resethand"
          /\ \A q \in Process \ {Parent} : disp'[q] = disp[q]
      BY <2>1 DEF Types, Default, Sig
    <2>3. /\ TestLabels' /\ ChildrenInv' /\ SiginfoInv'
          /\ NocldstopInv' /\ ResethandInv'
      BY <1>0, <2>1, <2>2
         DEF TestLabels, ChildrenInv, SiginfoInv, NocldstopInv, ResethandInv,
             Informs, Stops, AtWork, Resets
    <2> QED
      BY <2>1, <2>3 DEF TestInv
  <1>2. ASSUME NEW from, NEW to,
               <<from, to>> \in {<<"reset_raise", "reset_again">>,
                                 <<"reset_again", "exit">>},
               Raise(Parent, "INT", from, to)
        PROVE  option' = option /\ TestInv'
    <2>1. /\ UNCHANGED <<option, disp, flags, blocked, state, cause, i>>
          /\ pc[Parent] = from /\ pc' = [pc EXCEPT ![Parent] = to]
          /\ pend[Parent] \subseteq blocked[Parent]
          /\ pend' = Sent(Parent, "INT")
      BY <1>2 DEF Raise, Goes, Running
    <2>2. /\ pc'[Parent] = to /\ \A q \in Process \ {Parent} : pc'[q] = pc[q]
      BY <2>1 DEF Types
    <2>3. pend[Parent] = {} /\ disp[Parent]["CHLD"] = "DFL"
      BY <1>0, <1>2, <2>1 DEF ChildrenInv, ResethandInv, Resets
    <2>4. disp[Parent]["INT"] = IF from = "reset_raise" THEN "resethand" ELSE "DFL"
      BY <1>0, <1>2, <2>1, <2>3 DEF ResethandInv
    <2>5. pend'[Parent] = {"INT"} /\ \A q \in Process \ {Parent} : pend'[q] = pend[q]
      BY <1>2, <2>1, <2>3, <2>4 DEF Sent, Ignores, Types
    <2>6. TestLabels' /\ ChildrenInv'
      BY <1>0, <1>2, <2>1, <2>2, <2>5
         DEF TestLabels, ChildrenInv, Resets, Ending, AtWork
    <2>7. SiginfoInv'
      BY <1>0, <1>2, <2>1, <2>2, <2>5 DEF SiginfoInv, Informs
    <2>8. NocldstopInv' /\ ResethandInv'
      BY <1>0, <1>2, <2>1, <2>2, <2>3, <2>4, <2>5
         DEF NocldstopInv, ResethandInv, Stops, AtWork, Resets
    <2> QED
      BY <2>1, <2>6, <2>7, <2>8 DEF TestInv
  <1> QED
    BY <1>1, <1>2 DEF TestResethand

-----------------------------------------------------------------------------
(* Who waits *)

LEMMA InitRuns == ASSUME SignalsAssumption, Init PROVE RunsInv /\ CountInv
  BY Processes
     DEF Init, RunsInv, CountInv, Pausing, Pending, FromParent, Unsent

LEMMA GoesRuns ==
    ASSUME SignalsAssumption, Types, RunsInv, NEW p \in Process, NEW from, NEW to,
           Goes(p, from, to), to # "child_stopped", UNCHANGED <<option, state>>
    PROVE  RunsInv'
  BY Processes DEF Types, RunsInv, Goes, Running

LEMMA WaitRuns ==
    ASSUME SignalsAssumption, Types, RunsInv, NEW from, NEW to, to # "child_stopped",
           Wait(from, to)
    PROVE  RunsInv'
  <1>1. CASE Goes(Parent, from, to) /\ UNCHANGED state
    BY <1>1, GoesRuns, Processes DEF Wait
  <1>2. ASSUME NEW c \in Zombies, state' = [state EXCEPT ![c] = "gone"], UNCHANGED pc,
               Wait(from, to)
        PROVE  RunsInv'
    BY <1>2, Processes DEF Wait, Running, Zombies, Types, RunsInv
  <1> QED
    BY <1>1, <1>2 DEF Wait

LEMMA ForkedRuns ==
    ASSUME SignalsAssumption, Types, RunsInv, NEW c \in Process \ {Parent}, NEW from,
           NEW to, NEW at, at # "child_stopped", Forked(c, from, to, at)
    PROVE  RunsInv'
  <1>1. /\ state[Parent] = "running" /\ state' = [state EXCEPT ![c] = "running"]
        /\ pc' = [pc EXCEPT ![Parent] = to, ![c] = at] /\ option' = option
    BY DEF Forked, Running
  <1> QED
    BY <1>1, Processes DEF Types, RunsInv

\* In sigaction.c no signal but its second SIGINT kills the parent, and none a
\* child.
LEMMA TestKills ==
    ASSUME SignalsAssumption, Types, Unborn, TestInv, NEW p \in Process,
           state[p] = "running", NEW s \in pend[p] \ blocked[p], Kill(p, s)
    PROVE  p = Parent /\ pc[Parent] \in Resets \cup Ending
  <1> USE Processes DEF TestInv
  <1>1. s \in Sig /\ disp[p][s] = "DFL"
    BY DEF Kill, Types
  <1>2. p = Parent
    BY <1>1 DEF ChildrenInv, Unborn
  <1>3. pc[Parent] \notin {"info_set"} \cup Informs
    BY <1>1, <1>2 DEF SiginfoInv
  <1>4. pc[Parent] \notin Stops
    BY <1>1, <1>2 DEF NocldstopInv
  <1> QED
    BY <1>2, <1>3, <1>4 DEF TestLabels

LEMMA DeliverRuns ==
    ASSUME SignalsAssumption, SignalsInv, RunsInv, NEW p \in Process, Deliver(p)
    PROVE  RunsInv'
  <1> USE Processes
  <1>0. Types /\ Unborn
    BY DEF SignalsInv
  <1>1. PICK s \in pend[p] \ blocked[p] : Kill(p, s) \/ Handle(p, s)
    BY DEF Deliver
  <1>2. state[p] = "running"
    BY DEF Deliver
  <1>3. CASE option # "sigaction"
    BY <1>0, <1>3, InheritDelivers DEF SignalsInv, RunsInv
  <1>4. CASE option = "sigaction" /\ Kill(p, s)
    <2>1. p = Parent /\ pc[Parent] \in Resets \cup Ending
      BY <1>0, <1>2, <1>4, TestKills DEF SignalsInv
    <2>2. state' = [state EXCEPT ![Parent] = "gone"] /\ UNCHANGED <<option, pc>>
      BY <1>4, <2>1 DEF Kill, Ends
    <2> QED
      BY <1>0, <2>1, <2>2 DEF Types, RunsInv
  <1>5. CASE Handle(p, s)
    <2>1. /\ UNCHANGED <<option, state>>
          /\ pc' = [pc EXCEPT ![p] = Interrupted(p)]
      BY <1>5 DEF Handle
    <2>2. Interrupted(p) # "child_stopped" \/ Interrupted(p) = pc[p]
      BY DEF Interrupted
    <2> QED
      BY <1>0, <1>2, <2>1, <2>2 DEF Types, RunsInv
  <1> QED
    BY <1>1, <1>3, <1>4, <1>5

LEMMA NextRuns ==
    ASSUME SignalsAssumption, SignalsInv, RunsInv, [Next]_vars
    PROVE  RunsInv'
  <1> USE Processes
  <1>0. Types
    BY DEF SignalsInv
  <1>1. ASSUME NEW p \in Process, Exit(p) PROVE RunsInv'
    <2>1. /\ pc[p] = "exit" /\ pc' = [pc EXCEPT ![p] = "exited"]
          /\ \E e \in {"gone", "zombie"} :
                state' = [state EXCEPT ![p] = e] /\ (p = Parent => e = "gone")
          /\ option' = option
      BY <1>1 DEF Exit, Ends, Goes, Running
    <2> QED
      BY <1>0, <2>1 DEF Types, RunsInv, Pausing, Ending
  <1>2. CASE Inherit \/ SignalForExec
    BY <1>0, <1>2, GoesRuns, WaitRuns, ForkedRuns
       DEF Inherit, SignalForExec, Set, Fork, ForkFails, Look, Exec, Raise, kernelVars
  <1>3. CASE TestSiginfo
    BY <1>0, <1>3, GoesRuns, WaitRuns, ForkedRuns
       DEF TestSiginfo, Sigaction, ForkFails, Passes, InfoKill, InfoReset, InfoCheck,
           Raise, kernelVars
  <1>4. CASE TestNocldstop
    <2>1. CASE Forked(Next_i, "stop_fork", "stop_sleep", "child_sleep")
      <3>1. Next_i \in Stopping
        BY <2>1
           DEF SignalsInv, Types, InheritInv, InheritLabels, TestInv, NocldstopInv,
               Forked, Running, Next_i, Stopping, SignalsAssumption, Ending
      <3> QED
        BY <1>0, <2>1, <3>1, ForkedRuns
    <2>2. CASE StopKill
      <3>1. option = "sigaction" /\ i \in Stopping
        BY <2>2
           DEF StopKill, Running, SignalsInv, InheritInv, InheritLabels, TestInv,
               ChildrenInv, AtWork, Ending
      <3>2. /\ UNCHANGED <<option, state>> /\ state[Parent] = "running"
            /\ \E to \in {"stop_wait", "stop_fork"} :
                  pc' = [pc EXCEPT ![i] = "killed", ![Parent] = to]
        BY <2>2 DEF StopKill, Running, kernelVars
      <3> QED
        BY <1>0, <3>1, <3>2 DEF Types, RunsInv
    <2>3. ASSUME NEW c \in Stopping, Stop(c) PROVE RunsInv'
      BY <1>0, <2>3 DEF Stop, Goes, Types, RunsInv
    <2>4. ASSUME NEW c \in Stopping, Killed(c) PROVE RunsInv'
      <3>1. /\ pc[c] = "killed" /\ UNCHANGED <<option, pc>>
            /\ \E e : state' = [state EXCEPT ![c] = e]
        BY <2>4 DEF Killed, Ends
      <3> QED
        BY <1>0, <3>1 DEF Types, RunsInv
    <2> QED
      BY <1>0, <1>4, <2>1, <2>2, <2>3, <2>4, GoesRuns, WaitRuns
         DEF TestNocldstop, StopSet, Sigaction, StopFork, ForkFails, Passes, Waitpid,
             kernelVars
  <1>5. CASE TestResethand
    BY <1>0, <1>5, GoesRuns DEF TestResethand, ResetSet, Sigaction, Raise
  <1>6. CASE UNCHANGED vars
    BY <1>6 DEF vars, kernelVars, RunsInv
  <1> QED
    BY <1>1, <1>2, <1>3, <1>4, <1>5, <1>6, DeliverRuns DEF Next, Stopped

\* A step that does not move the child, or signal it, and in which the parent does
\* not send its signal.
LEMMA CountKept ==
    ASSUME CountInv, UNCHANGED <<option, received, missed>>,
           pend'[First] = pend[First],
           pc'[First] \in {pc[First]} \cup Ending,
           FromParent' = FromParent
    PROVE  CountInv'
  BY DEF CountInv, Pending, Ending

LEMMA ParentCounts ==
    ASSUME SignalsAssumption, Types, CountInv, NEW from, NEW to, Goes(Parent, from, to),
           UNCHANGED <<option, received, missed>>, pend'[First] = pend[First],
           from \in Unsent <=> to \in Unsent
    PROVE  CountInv'
  <1>1. pc'[Parent] = to /\ pc[Parent] = from /\ pc'[First] = pc[First]
    BY Processes DEF Goes, Running, Types
  <1>2. FromParent' = FromParent
    BY <1>1 DEF FromParent
  <1> QED
    BY <1>2, <1>1, CountKept

LEMMA DeliverCounts ==
    ASSUME SignalsAssumption, Types, Unborn, TestInv, RunsInv, CountInv,
           option = "sigaction", NEW p \in Process, Deliver(p)
    PROVE  CountInv'
  <1> USE Processes DEF TestInv
  <1>1. PICK s \in pend[p] \ blocked[p] : Kill(p, s) \/ Handle(p, s)
    BY DEF Deliver
  <1>2. state[p] = "running" /\ s \in Sig /\ p \in {Parent, First}
    BY <1>1 DEF Deliver, Types, ChildrenInv
  <1>3. CASE Kill(p, s)
    <2>1. p = Parent
      BY <1>1, <1>2, <1>3, TestKills
    <2>2. UNCHANGED <<option, pc, pend, received, missed>>
      BY <1>3, <2>1 DEF Kill, Ends
    <2> QED
      BY <2>2, CountKept DEF FromParent
  <1>4. CASE p = Parent /\ Handle(p, s)
    <2>1. /\ option' = option
          /\ pend' = [pend EXCEPT ![Parent] = @ \ {s}]
          /\ pc' = [pc EXCEPT ![Parent] = Interrupted(Parent)]
          /\ missed' <=> missed
          /\ received'[First] = received[First]
      BY <1>4 DEF Handle, Types
    <2>2. /\ pend'[First] = pend[First] /\ pc'[First] = pc[First]
          /\ pc'[Parent] = Interrupted(Parent)
      BY <2>1 DEF Types
    <2>3. FromParent' = FromParent
      BY <2>2 DEF FromParent, Unsent, Interrupted
    <2> QED
      BY <2>1, <2>2, <2>3 DEF CountInv, Pending
  <1>5. CASE p = First /\ Handle(p, s)
    <2> SUFFICES ASSUME ~missed' PROVE CountInv'
      BY DEF CountInv
    <2>1. /\ ~missed /\ option' = option
          /\ pc[First] \notin {"info_reset", "info_to_pause"}
          /\ pend' = [pend EXCEPT ![First] = @ \ {s}]
          /\ pc' = [pc EXCEPT ![First] = Interrupted(First)]
          /\ received' = IF disp[First][s] = "info"
                         THEN [received EXCEPT ![First] = @ + 1] ELSE received
      BY <1>5 DEF Handle
    <2>2. disp[First][s] = "info"
      BY <1>2, <1>5 DEF Unborn, ChildrenInv
    <2>3. s = "USR1" /\ pend[First] = {"USR1"}
      BY <1>1, <1>5, <2>1 DEF CountInv
    <2>4. /\ received'[First] = received[First] + 1 /\ pend'[First] = {}
          /\ pc'[First] = Interrupted(First) /\ pc'[Parent] = pc[Parent]
          /\ received[First] \in Nat
      BY <2>1, <2>2, <2>3 DEF Types
    <2>5. Pending = 1 /\ Pending' = 0 /\ FromParent' = FromParent
      BY <2>3, <2>4 DEF Pending, FromParent
    <2>6. pc'[First] = IF pc[First] = "info_pause" THEN "info_check" ELSE pc[First]
      BY <2>4 DEF Interrupted, TestLabels, Ending
    <2>7. FromParent \in {0, 1}
      BY DEF FromParent
    <2> QED
      BY <2>1, <2>4, <2>5, <2>6, <2>7 DEF CountInv
  <1> QED
    BY <1>1, <1>2, <1>3, <1>4, <1>5

LEMMA SiginfoCounts ==
    ASSUME SignalsAssumption, Types, Unborn, TestInv, RunsInv, CountInv,
           option = "sigaction", TestSiginfo
    PROVE  CountInv'
  <1> USE Processes
  <1>0. TestLabels /\ ChildrenInv /\ SiginfoInv /\ FromParent \in {0, 1}
    BY DEF TestInv, FromParent
  <1>1. CASE \/ Sigaction("info_set", "info_raise", [s \in Sig |-> "info"], {})
             \/ Sigaction("info_waited", "stop_set", Default, {})
             \/ ForkFails("info_fork", "info_sleep")
             \/ Passes(Parent, "info_sleep", "info_kill")
    BY <1>1, ParentCounts
       DEF Sigaction, ForkFails, Passes, kernelVars, Unsent
  <1>2. ASSUME NEW s, NEW from, NEW to, Raise(Parent, s, from, to),
               <<from, to>> \in {<<"info_raise", "info_queue">>,
                                 <<"info_queue", "info_fork">>}
        PROVE  CountInv'
    <2>1. pend'[First] = pend[First]
      BY <1>2 DEF Raise, Sent, Types
    <2> QED
      BY <1>2, <2>1, ParentCounts DEF Raise, Unsent
  <1>3. CASE Wait("info_wait", "info_waited")
    <2>1. CASE Goes(Parent, "info_wait", "info_waited")
      BY <1>3, <2>1, ParentCounts DEF Wait, Unsent
    <2>2. CASE UNCHANGED pc
      BY <1>3, <2>2, CountKept DEF Wait, FromParent
    <2> QED
      BY <1>3, <2>1, <2>2 DEF Wait
  <1>4. CASE Forked(First, "info_fork", "info_sleep", "info_reset")
    <2>1. /\ pc[Parent] = "info_fork" /\ UNCHANGED <<pend, option, missed>>
          /\ pc' = [pc EXCEPT ![Parent] = "info_sleep", ![First] = "info_reset"]
      BY <1>4 DEF Forked, Running
    <2>2. pc'[Parent] = "info_sleep" /\ pc'[First] = "info_reset"
      BY <2>1 DEF Types
    <2>3. pend[First] = {}
      BY <1>0, <2>1 DEF SiginfoInv, Unborn
    <2> QED
      BY <2>1, <2>2, <2>3 DEF CountInv, Pending, FromParent, Unsent
  <1>5. CASE InfoKill
    <2> SUFFICES ASSUME ~missed' PROVE CountInv'
      BY DEF CountInv
    <2>1. /\ UNCHANGED <<option, received>> /\ pc[Parent] = "info_kill"
          /\ pc'[Parent] = "info_wait" /\ pc'[First] = pc[First]
      BY <1>5 DEF InfoKill, Goes, Running, Types
    <2>2. FromParent = 0 /\ FromParent' = 1
      BY <2>1 DEF FromParent, Unsent
    <2>3. CASE state[First] = "running"
      <3>1. ~missed /\ "USR1" \notin pend[First] /\ pend' = Sent(First, "USR1")
        BY <1>5, <2>3 DEF InfoKill
      <3>2. disp[First]["USR1"] = "info"
        BY <1>0, <2>3 DEF ChildrenInv, Unborn, Sig
      <3>3. pend'[First] = pend[First] \cup {"USR1"}
        BY <3>1, <3>2 DEF Sent, Ignores, Types
      <3>4. Pending = 0 /\ Pending' = 1
        BY <3>1, <3>3 DEF Pending
      <3> QED
        BY <2>1, <2>2, <3>1, <3>3, <3>4 DEF CountInv, Types
    <2>4. CASE state[First] # "running"
      BY <1>5, <2>1, <2>4 DEF InfoKill, RunsInv, Pausing, CountInv
    <2> QED
      BY <2>3, <2>4
  <1>6. ASSUME NEW from, NEW to, Goes(First, from, to)
        PROVE  /\ pend[First] = {} /\ pc[First] = from /\ pc'[First] = to
               /\ Pending = 0 /\ FromParent' = FromParent
    BY <1>0, <1>6 DEF Goes, Running, ChildrenInv, Pending, FromParent, Types
  <1>7. CASE InfoReset
    <2>1. /\ received'[First] = 0 /\ pend' = pend /\ UNCHANGED <<option, missed>>
          /\ Goes(First, "info_reset", "info_raise")
      BY <1>7 DEF InfoReset, kernelVars, Types
    <2>2. Pending' = 0
      BY <1>6, <2>1 DEF Pending
    <2> QED
      BY <1>6, <2>1, <2>2 DEF CountInv
  <1>8. CASE Raise(First, "USR1", "info_raise", "info_check")
    <2>1. /\ pend' = Sent(First, "USR1") /\ UNCHANGED <<option, missed, received>>
          /\ Goes(First, "info_raise", "info_check")
      BY <1>8 DEF Raise
    <2>2. disp[First]["USR1"] = "info"
      BY <1>0, <1>6, <2>1 DEF ChildrenInv, Sig
    <2>3. pend'[First] = {"USR1"} /\ Pending' = 1
      BY <1>6, <2>1, <2>2 DEF Sent, Ignores, Types, Pending
    <2> QED
      BY <1>0, <1>6, <2>1, <2>3 DEF CountInv, Types
  <1>9. CASE InfoCheck
    <2>1. PICK from, to : /\ Goes(First, from, to) /\ UNCHANGED <<pend, option, missed, received>>
                  /\ \/ from = "info_check" /\ to = "exit"
                     \/ from = "info_check" /\ to = "info_to_pause" /\ received[First] < 2
                     \/ from = "info_to_pause" /\ to = "info_pause"
      BY <1>9 DEF InfoCheck, Passes, kernelVars
    <2>2. Pending' = 0
      BY <1>6, <2>1 DEF Pending
    <2> QED
      BY <1>6, <2>1, <2>2 DEF CountInv
  <1> QED
    BY <1>1, <1>2, <1>3, <1>4, <1>5, <1>7, <1>8, <1>9 DEF TestSiginfo

LEMMA NocldstopCounts ==
    ASSUME SignalsAssumption, Types, TestInv, CountInv, TestNocldstop
    PROVE  CountInv'
  <1> USE Processes
  <1>0. TestLabels /\ ChildrenInv /\ NocldstopInv
    BY DEF TestInv
  <1>1. CASE \/ StopSet \/ ForkFails("stop_fork", "exit")
             \/ Passes(Parent, "stop_sleep", "stop_waitpid") \/ Waitpid
             \/ Passes(Parent, "stop_waited", "stop_set")
    BY <1>1, ParentCounts
       DEF StopSet, Sigaction, ForkFails, Passes, Waitpid, kernelVars, Unsent
  <1>2. CASE Wait("stop_wait", "stop_waited")
    <2>1. CASE Goes(Parent, "stop_wait", "stop_waited")
      BY <1>2, <2>1, ParentCounts DEF Wait, Unsent
    <2>2. CASE UNCHANGED pc
      BY <1>2, <2>2, CountKept DEF Wait, FromParent
    <2> QED
      BY <1>2, <2>1, <2>2 DEF Wait
  <1>3. CASE Forked(Next_i, "stop_fork", "stop_sleep", "child_sleep")
    <2>1. Next_i \in Stopping
      BY <1>0, <1>3, SignalsAssumption
         DEF NocldstopInv, Types, Forked, Running, Next_i, Stopping, SignalsAssumption
    <2>2. /\ pc[Parent] = "stop_fork" /\ UNCHANGED <<option, missed, pend>>
          /\ pc' = [pc EXCEPT ![Parent] = "stop_sleep", ![Next_i] = "child_sleep"]
          /\ received' = [received EXCEPT ![Next_i] = received[Parent]]
      BY <1>3 DEF Forked, Running
    <2>3. /\ pc'[Parent] = "stop_sleep" /\ pc'[First] = pc[First]
          /\ received'[First] = received[First]
      BY <2>1, <2>2 DEF Types
    <2> QED
      BY <2>2, <2>3 DEF CountInv, Pending, FromParent, Unsent
  <1>4. CASE StopKill
    <2>1. /\ pc[Parent] = "stop_kill" /\ UNCHANGED <<option, missed, pend, received>>
          /\ \E to \in {"stop_wait", "stop_fork"} :
                pc' = [pc EXCEPT ![i] = "killed", ![Parent] = to]
      BY <1>4 DEF StopKill, Running, kernelVars
    <2>2. i \in Stopping
      BY <1>0, <2>1 DEF ChildrenInv, AtWork
    <2>3. pc'[Parent] \in {"stop_wait", "stop_fork"} /\ pc'[First] = pc[First]
      BY <2>1, <2>2 DEF Types
    <2> QED
      BY <2>1, <2>3 DEF CountInv, Pending, FromParent, Unsent
  <1>5. ASSUME NEW c \in Stopping,
               Passes(c, "child_sleep", "child_stop") \/ Stop(c) \/ Killed(c)
        PROVE  CountInv'
    <2>1. /\ UNCHANGED <<option, missed, received>>
          /\ pc'[Parent] = pc[Parent] /\ pc'[First] = pc[First]
          /\ pend' = pend \/ pend' = Sent(Parent, "CHLD")
      BY <1>5 DEF Passes, Goes, Stop, Killed, Ends, kernelVars, Types
    <2>2. pend'[First] = pend[First]
      BY <2>1 DEF Sent, Types
    <2> QED
      BY <2>1, <2>2, CountKept DEF FromParent
  <1> QED
    BY <1>1, <1>2, <1>3, <1>4, <1>5 DEF TestNocldstop, StopFork

LEMMA NextCounts ==
    ASSUME SignalsAssumption, SignalsInv, RunsInv, CountInv, [Next]_vars
    PROVE  CountInv'
  <1> USE Processes
  <1>0. Types /\ Unborn
    BY DEF SignalsInv
  <1>1. CASE option # "sigaction"
    BY <1>0, <1>1, NextInheritInv DEF SignalsInv, CountInv
  <1>2. CASE option = "sigaction"
    <2>0. TestInv /\ TestLabels
      BY <1>2 DEF SignalsInv, TestInv
    <2>1. ASSUME NEW p \in Process, Exit(p) PROVE CountInv'
      <3>1. /\ UNCHANGED <<option, missed, received>>
            /\ pc[p] = "exit" /\ pc' = [pc EXCEPT ![p] = "exited"]
            /\ pend' = pend \/ pend' = Sent(Parent, "CHLD")
        BY <2>1 DEF Exit, Ends, Goes, Running
      <3>2. /\ pend'[First] = pend[First]
            /\ pc'[First] \in {pc[First], "exited"}
            /\ pc'[Parent] = pc[Parent] \/ (pc[Parent] = "exit" /\ pc'[Parent] = "exited")
        BY <1>0, <3>1 DEF Sent, Types
      <3> QED
        BY <3>1, <3>2, CountKept DEF FromParent, Unsent, Ending
    <2>2. CASE TestResethand
      <3>1. ASSUME NEW from, NEW to, Raise(Parent, "INT", from, to),
                   from \in Resets, to \notin Unsent
            PROVE  CountInv'
        <4>1. pend'[First] = pend[First]
          BY <1>0, <3>1 DEF Raise, Sent, Types
        <4> QED
          BY <1>0, <3>1, <4>1, ParentCounts DEF Raise, Unsent, Resets
      <3>2. CASE ResetSet
        BY <1>0, <3>2, ParentCounts DEF ResetSet, Sigaction, Unsent
      <3> QED
        BY <2>2, <3>1, <3>2 DEF TestResethand, Resets, Unsent
    <2>3. CASE UNCHANGED vars
      BY <2>3, CountKept DEF vars, kernelVars, FromParent
    <2> QED
      BY <1>0, <1>2, <2>0, <2>1, <2>2, <2>3, TestOnly, DeliverCounts, SiginfoCounts,
         NocldstopCounts
  <1> QED
    BY <1>1, <1>2

-----------------------------------------------------------------------------
LEMMA NextSignalsInv ==
    ASSUME SignalsAssumption, SignalsInv, [Next]_vars
    PROVE  SignalsInv'
  <1>1. Types' /\ Unborn'
    BY NextTypes, NextUnborn DEF SignalsInv
  <1>2. CASE option # "sigaction"
    BY <1>1, <1>2, NextInheritInv DEF SignalsInv
  <1>3. CASE option = "sigaction"
    <2>1. option' = option /\ TestInv'
      <3>1. CASE UNCHANGED vars
        BY <1>3, <3>1
           DEF SignalsInv, vars, kernelVars, TestInv, TestLabels, ChildrenInv,
               SiginfoInv, NocldstopInv, OlderKilled, ResethandInv
      <3>2. CASE ~UNCHANGED vars
        BY <1>3, <3>2, TestOnly, TestDelivers, TestExits, TestSiginfoKeeps,
           TestNocldstopKeeps, TestResethandKeeps
           DEF SignalsInv, TestInv
      <3> QED
        BY <3>1, <3>2
    <2> QED
      BY <1>1, <1>3, <2>1 DEF SignalsInv
  <1> QED
    BY <1>2, <1>3

\* Which signals may be pending where, and that each child before the last is
\* killed, in every reachable state.
THEOREM SignalsInvHolds == Spec => []SignalsInv
  <1>1. Init => SignalsInv
    BY InitSignalsInv, SignalsAssumption
  <1>2. SignalsInv /\ [Next]_vars => SignalsInv'
    BY NextSignalsInv, SignalsAssumption
  <1> QED
    BY <1>1, <1>2, PTL DEF Spec

\* What inherit.c shows: ignored signals and masks are taken over by fork and execl,
\* handlers by fork, what is pending by execl only (raport2.txt 1-3, 5-8).
THEOREM AlwaysInheritsAsShown == Spec => []InheritanceAsShown
  <1>1. SignalsInv => InheritanceAsShown
    BY Processes, SignalsAssumption
       DEF SignalsInv, InheritInv, Unharmed, Lasting, InheritanceAsShown
  <1> QED
    BY <1>1, SignalsInvHolds, PTL

\* However many children, each dies as the test of it says, and a child is killed
\* before it stopped only when the end of an older one interrupted waitpid
\* (sigaction.c 107-110, 147, 166-177).
THEOREM AlwaysDiesAsTested == Spec => []DiesAsTested
  <1>1. SignalsInv => DiesAsTested
    <2> SUFFICES ASSUME SignalsInv, option = "sigaction" PROVE DiesAsTested
      BY DEF DiesAsTested
    <2>1. TestInv /\ Types
      BY DEF SignalsInv
    <2> QED
      BY <2>1, SignalsAssumption
         DEF TestInv, ChildrenInv, NocldstopInv, ResethandInv, OlderKilled,
             Types, DiesAsTested, SignalsAssumption
  <1> QED
    BY <1>1, SignalsInvHolds, PTL

\* A child that could go on is no reason to wait.
LEMMA WaitingChildren ==
    ASSUME SignalsAssumption, SignalsInv, RunsInv, EverybodyWaits,
           NEW c \in Alive
    PROVE  /\ option = "sigaction"
           /\ \/ c = First /\ pc[First] = "info_pause" /\ pend[First] = {}
              \/ /\ c = i /\ i \in Stopping /\ pc[c] = "child_stopped"
                 /\ pc[Parent] \in AtWork
  <1> USE Processes
  <1>1. /\ c \in Process \ {Parent} /\ state[c] \in {"running", "stopped"}
        /\ Blocked(c) /\ pc[c] # "none"
    BY DEF Alive, EverybodyWaits, SignalsInv, Unborn
  <1>2. CASE option # "sigaction"
    BY <1>1, <1>2 DEF SignalsInv, InheritInv, InheritLabels, RunsInv, Blocked, Ending
  <1>3. CASE option = "sigaction"
    <2>1. TestLabels /\ ChildrenInv /\ Types
      BY <1>3 DEF SignalsInv, TestInv
    <2>2. CASE c = First
      BY <1>1, <1>3, <2>1, <2>2 DEF TestLabels, ChildrenInv, RunsInv, Blocked, Ending
    <2>3. CASE c \in Stopping
      <3>1. pc[c] = "child_stopped"
        BY <1>1, <2>1, <2>3 DEF TestLabels, RunsInv, Blocked
      <3>2. c = i
        BY <2>1, <2>3, <3>1 DEF ChildrenInv, Types, Stopping
      <3> QED
        BY <1>3, <2>1, <2>3, <3>1, <3>2 DEF ChildrenInv
    <2> QED
      BY <1>1, <2>2, <2>3
  <1> QED
    BY <1>2, <1>3

\* Nothing ever waits for ever but the child of test_siginfo, and its parent for it,
\* when the parent's sleep was too short (sigaction.c 93-177, inherit.c 55-126).
THEOREM OnlyTheSleepDeadlocks == Spec => []OnlySleepTooShort
  <1> DEFINE WaitInv == SignalsInv /\ RunsInv /\ CountInv
  <1>1. Init => WaitInv
    BY InitSignalsInv, InitRuns, SignalsAssumption
  <1>2. WaitInv /\ [Next]_vars => WaitInv'
    BY NextSignalsInv, NextRuns, NextCounts, SignalsAssumption
  <1>3. WaitInv => OnlySleepTooShort
    <2> SUFFICES ASSUME WaitInv, EverybodyWaits PROVE Outcome
      BY DEF OnlySleepTooShort
    <2> USE Processes, SignalsAssumption
    <2>1. /\ Types /\ Blocked(Parent) /\ state[Parent] \in {"running", "gone"}
          /\ option = "sigaction" => ChildrenInv /\ SiginfoInv
      BY DEF SignalsInv, TestInv, RunsInv, EverybodyWaits
    <2>2. CASE state[Parent] = "gone"
      <3>1. ASSUME NEW c \in Alive PROVE FALSE
        <4>1. option = "sigaction" /\ pc[Parent] \in Resets \cup Ending
          BY <2>2, WaitingChildren DEF RunsInv
        <4>2. state[First] \in {"unborn", "gone"}
          BY <2>1, <4>1 DEF SiginfoInv, Informs, Resets, Ending
        <4> QED
          BY <4>1, <4>2, WaitingChildren DEF Alive, AtWork, Resets, Ending
      <3> QED
        BY <2>2, <3>1 DEF Outcome
    <2>3. CASE state[Parent] = "running" /\ Alive # {} /\ pc[Parent] # "stop_waitpid"
      <3>1. pc[Parent] \in {"info_pause", "wait", "info_wait", "stop_wait"}
        BY <2>1, <2>3 DEF Blocked
      <3>2. PICK c \in Alive : TRUE
        BY <2>3
      <3>3. /\ option = "sigaction" /\ c = First /\ state[First] \notin {"unborn", "gone"}
            /\ pc[First] = "info_pause" /\ pend[First] = {}
        BY <3>1, WaitingChildren DEF AtWork, Alive
      <3>4. pc[Parent] = "info_wait"
        BY <2>1, <3>1, <3>3 DEF SiginfoInv, Informs, SignalsInv, TestInv, TestLabels, Stops,
                                AtWork, Resets, Ending
      <3>5. missed
        <4>1. Pending = 0 /\ FromParent = 1
          BY <3>3, <3>4 DEF Pending, FromParent, Unsent
        <4> QED
          BY <2>1, <3>3, <4>1 DEF CountInv, Types
      <3> QED
        BY <3>3, <3>4, <3>5 DEF Outcome, Deadlocked
    <2>4. CASE state[Parent] = "running" /\ pc[Parent] = "stop_waitpid"
      <3>1. option = "sigaction" /\ state[i] # "stopped"
        BY <2>1, <2>4
           DEF Blocked, SignalsInv, InheritInv, InheritLabels, Ending
      <3>2. i \in Stopping /\ pc[i] \notin {"none", "killed"} /\ pend[i] = {}
        BY <2>1, <2>4, <3>1 DEF ChildrenInv, AtWork
      <3>3. pc[i] \in {"child_sleep", "child_stop"} /\ state[i] = "running"
        BY <3>1, <3>2 DEF SignalsInv, TestInv, TestLabels, RunsInv
      <3>4. Blocked(i)
        BY <3>2 DEF EverybodyWaits
      <3> QED
        BY <3>3, <3>4 DEF Blocked
    <2>5. CASE state[Parent] = "running" /\ Alive = {} /\ pc[Parent] # "stop_waitpid"
      <3>1. pc[Parent] = "info_pause"
        BY <2>1, <2>5 DEF Blocked
      <3> QED
        BY <3>1 DEF SignalsInv, InheritInv, InheritLabels, TestInv, TestLabels, Informs,
                    Stops, AtWork, Resets, Ending
    <2> QED
      BY <2>1, <2>2, <2>3, <2>4, <2>5
  <1> QED
    BY <1>1, <1>2, <1>3, PTL DEF Spec
==============================================================================
