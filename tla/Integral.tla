------------------------------- MODULE Integral -------------------------------
(***************************************************************************)
(* cw05: an integral cut into process_count parts, one process each, whose *)
(* results the parent adds up.  In zad2 (integral.c) they come through a   *)
(* pipe, which the parent reads when all its children are gone.  In zad3   *)
(* (integral2.c) each child becomes sub_integral.c, and the results come   *)
(* through a FIFO, which parent and children open when they get there.     *)
(*                                                                         *)
(* A result is known by the process it comes from, and the solution by how *)
(* often each result went into it.  Of the system's pipes and FIFOs there  *)
(* is what the programs depend on: write blocks while the pipe is full and *)
(* kills when nobody can read; read blocks while the pipe is empty and     *)
(* somebody can write, and returns 0 when nobody can; to open a FIFO for   *)
(* reading waits for a writer, to open it for writing waits for a reader.  *)
(* fork and execl may fail.                                                *)
(*                                                                         *)
(* The definitions marked (wrong) are mistakes the code does not make.     *)
(***************************************************************************)
EXTENDS Integers, Sequences

CONSTANTS MaxProcesses,   \* bound: process_count is at most that
          CAPACITY        \* results that fit in a pipe

ASSUME IntegralAssumption == MaxProcesses \in Nat /\ CAPACITY \in Nat \ {0}

Worker == 1 .. MaxProcesses
Parent == 0
NoResult == 0   \* sol_buff to begin with: 0.0

VARIABLES
    fifo,            \* zad3: "made", then "unlinked"; zad2: "none"
    process_count,
    parent, i,       \* where the parent is, and its loop counter
    worker,          \* where the children are
    buffer,          \* what is in the pipe
    writers,         \* who can write: has opened the pipe, or waits to
    reading,         \* whether the parent can read
    sol_buff, solution,
    eof              \* history: the parent read 0 bytes

pipeVars == <<buffer, writers, reading>>
sumVars == <<sol_buff, solution, eof>>
vars == <<fifo, process_count, parent, i, worker, pipeVars, sumVars>>

Init ==
    /\ fifo \in {"none", "made"}
    /\ process_count \in 0 .. MaxProcesses
    /\ parent = "fork" /\ i = 1
    /\ worker = [w \in Worker |-> "none"]
    /\ buffer = <<>>
    /\ writers = IF fifo = "none" THEN {Parent} ELSE {}
    /\ reading = (fifo = "none")
    /\ sol_buff = NoResult /\ solution = [w \in Worker |-> 0]
    /\ eof = FALSE

Named == fifo # "none"
Gone(w) == worker[w] \in {"none", "missing", "exited", "failed", "killed"}
WorkerGoes(w, to) == worker' = [worker EXCEPT ![w] = to]

-----------------------------------------------------------------------------
(* The parent *)

\* A child of zad2 inherits the pipe, one of zad3 opens the FIFO by itself.
Fork ==
    /\ parent = "fork" /\ i <= process_count
    /\ i' = i + 1
    /\ \/ UNCHANGED <<worker, writers>>     \* fork fails
       \/ Named /\ WorkerGoes(i, "exec") /\ UNCHANGED writers
       \/ ~Named /\ WorkerGoes(i, "write") /\ writers' = writers \cup {i}
    /\ UNCHANGED <<fifo, process_count, parent, buffer, reading, sumVars>>

\* zad2: while(wait(NULL) > 0)
Wait ==
    /\ parent = "fork" /\ i > process_count /\ ~Named
    /\ \A w \in Worker : Gone(w)
    /\ parent' = "read" /\ i' = 1
    /\ UNCHANGED <<fifo, process_count, worker, pipeVars, sumVars>>

\* (wrong) open(PATH_FIFO, O_RDWR) waits for nobody.
OpenReadWrite ==
    /\ parent = "fork" /\ i > process_count /\ Named
    /\ parent' = "read" /\ i' = 1
    /\ reading' = TRUE /\ writers' = writers \cup {Parent}
    /\ worker' = [w \in Worker |-> IF worker[w] = "opening" THEN "write"
                                   ELSE worker[w]]
    /\ UNCHANGED <<fifo, process_count, buffer, sumVars>>

\* zad3: open(PATH_FIFO, O_RDONLY) lets those go who wait to write, and waits
\* for one if there is none.
OpenToRead ==
    /\ parent = "fork" /\ i > process_count /\ Named
    /\ parent' = IF writers = {} THEN "opening" ELSE "read"
    /\ i' = 1
    /\ reading' = TRUE
    /\ worker' = [w \in Worker |-> IF worker[w] = "opening" THEN "write"
                                   ELSE worker[w]]
    /\ UNCHANGED <<fifo, process_count, buffer, writers, sumVars>>

Add(r) == solution' = IF r = NoResult THEN solution
                      ELSE [solution EXCEPT ![r] = @ + 1]

\* (wrong) What was read before is added, then comes the read.
AddThenRead ==
    /\ parent = "read" /\ i <= process_count /\ buffer # <<>>
    /\ Add(sol_buff)
    /\ sol_buff' = Head(buffer) /\ buffer' = Tail(buffer)
    /\ i' = i + 1
    /\ UNCHANGED <<fifo, process_count, parent, worker, writers, reading, eof>>

Read ==
    /\ parent = "read" /\ i <= process_count /\ buffer # <<>>
    /\ sol_buff' = Head(buffer) /\ buffer' = Tail(buffer)
    /\ Add(Head(buffer))
    /\ i' = i + 1
    /\ UNCHANGED <<fifo, process_count, parent, worker, writers, reading, eof>>

\* (wrong) A read that is not of 8 bytes is tried again.
ReadAgain ==
    /\ parent = "read" /\ i <= process_count /\ buffer = <<>> /\ writers = {}
    /\ eof' = TRUE
    /\ UNCHANGED <<fifo, process_count, parent, i, worker, pipeVars, sol_buff,
                   solution>>

\* read returns 0, which is not less than 0: what is in sol_buff is added.
ReadNothing ==
    /\ parent = "read" /\ i <= process_count /\ buffer = <<>> /\ writers = {}
    /\ Add(sol_buff)
    /\ eof' = TRUE
    /\ i' = i + 1
    /\ UNCHANGED <<fifo, process_count, parent, worker, pipeVars, sol_buff>>

\* (wrong) One read too few.
CloseEarly ==
    /\ parent = "read" /\ i >= process_count
    /\ parent' = IF Named THEN "unlink" ELSE "done"
    /\ reading' = FALSE /\ buffer' = <<>> /\ writers' = writers \ {Parent}
    /\ UNCHANGED <<fifo, process_count, i, worker, sumVars>>

\* zad3: close; zad2: exit closes both ends.
Close ==
    /\ parent = "read" /\ i > process_count
    /\ parent' = IF Named THEN "unlink" ELSE "done"
    /\ reading' = FALSE /\ buffer' = <<>> /\ writers' = writers \ {Parent}
    /\ UNCHANGED <<fifo, process_count, i, worker, sumVars>>

Unlink ==
    /\ parent = "unlink" /\ parent' = "done"
    /\ fifo' = "unlinked"
    /\ UNCHANGED <<process_count, i, worker, pipeVars, sumVars>>

-----------------------------------------------------------------------------
(* The children *)

\* zad3: execl, or exit(1) when there is no ./sub_integral
Exec(w) ==
    /\ worker[w] = "exec"
    /\ \E to \in {"open", "missing"} : WorkerGoes(w, to)
    /\ UNCHANGED <<fifo, process_count, parent, i, pipeVars, sumVars>>

\* sub_integral: open(PATH_FIFO, O_WRONLY) waits for the parent, and wakes it.
OpenToWrite(w) ==
    /\ worker[w] = "open"
    /\ \/ /\ fifo = "unlinked" /\ WorkerGoes(w, "failed")
          /\ UNCHANGED <<parent, writers>>
       \/ /\ fifo = "made"
          /\ WorkerGoes(w, IF reading THEN "write" ELSE "opening")
          /\ writers' = writers \cup {w}
          /\ parent' = IF parent = "opening" THEN "read" ELSE parent
    /\ UNCHANGED <<fifo, process_count, i, buffer, reading, sumVars>>

\* write, of less than PIPE_BUF bytes: all or nothing; SIGPIPE when nobody
\* can read
Write(w) ==
    /\ worker[w] = "write"
    /\ \/ /\ ~reading /\ WorkerGoes(w, "killed")
          /\ writers' = writers \ {w} /\ UNCHANGED buffer
       \/ /\ reading /\ Len(buffer) < CAPACITY
          /\ WorkerGoes(w, "close")
          /\ buffer' = Append(buffer, w) /\ UNCHANGED writers
    /\ UNCHANGED <<fifo, process_count, parent, i, reading, sumVars>>

Exit(w) ==
    /\ worker[w] = "close" /\ WorkerGoes(w, "exited")
    /\ writers' = writers \ {w}
    /\ UNCHANGED <<fifo, process_count, parent, i, buffer, reading, sumVars>>

-----------------------------------------------------------------------------
ParentStep ==
    Fork \/ Wait \/ OpenToRead \/ Read \/ ReadNothing \/ Close \/ Unlink

WorkerStep(w) == Exec(w) \/ OpenToWrite(w) \/ Write(w) \/ Exit(w)

\* Whoever is not done or gone is blocked: in wait, open, read or write.
EverybodyWaits ==
    /\ \/ parent \in {"opening", "done"}
       \/ parent = "fork" /\ i > process_count /\ ~Named /\ \E w \in Worker : ~Gone(w)
       \/ parent = "read" /\ i <= process_count /\ buffer = <<>> /\ writers # {}
    /\ \A w \in Worker : \/ Gone(w) \/ worker[w] = "opening"
                         \/ worker[w] = "write" /\ reading /\ Len(buffer) = CAPACITY

\* There, and only there, the programs stop.
Stopped == EverybodyWaits /\ UNCHANGED vars

Next == ParentStep \/ (\E w \in Worker : WorkerStep(w)) \/ Stopped

Spec == Init /\ [][Next]_vars

\* The scheduler runs every process that is not blocked.
FairSpec == Spec /\ WF_vars(ParentStep) /\ \A w \in Worker : WF_vars(WorkerStep(w))

-----------------------------------------------------------------------------
\* The types of all variables.
TypeOK ==
    /\ fifo \in {"none", "made", "unlinked"}
    /\ process_count \in 0 .. MaxProcesses
    /\ parent \in {"fork", "opening", "read", "unlink", "done"}
    /\ i \in 1 .. MaxProcesses + 1
    /\ worker \in [Worker -> {"none", "missing", "exec", "open", "opening", "write",
                              "close", "exited", "failed", "killed"}]
    /\ buffer \in Seq(Worker) /\ Len(buffer) <= CAPACITY
    /\ writers \subseteq Worker \cup {Parent}
    /\ reading \in BOOLEAN
    /\ sol_buff \in Worker \cup {NoResult}
    /\ solution \in [Worker -> Nat]
    /\ eof \in BOOLEAN

\* The solution is the sum of the parts, each of them once, unless a read came
\* to the end of the file (integral.c 56-60, integral2.c 49-57).
SolutionIsSum ==
    parent = "done" /\ ~eof =>
        solution = [w \in Worker |-> IF w <= process_count THEN 1 ELSE 0]

\* Of the children of zad3, none fails to open the FIFO, none is killed by
\* SIGPIPE and none waits for a reader that has been, unless the parent took the
\* end of the file for a result (integral2.c 52, 59-60; sub_integral.c 17, 31).
ChildLostOnlyByEOF ==
    \A w \in Worker :
        \/ worker[w] \in {"failed", "killed"}
        \/ worker[w] \in {"open", "opening"} /\ parent \in {"unlink", "done"}
        => eof

\* zad2: the parent waits for children that wait for room in the pipe.
PipeFull == ~Named /\ parent = "fork" /\ Len(buffer) = CAPACITY
            /\ \E w \in Worker : worker[w] = "write"

\* The parent waits for results, or writers, and no child is left to come.
NobodyComes == /\ \A w \in Worker : Gone(w)
               /\ \/ parent = "opening"
                  \/ parent = "read" /\ buffer = <<>> /\ writers # {}

\* What the parent comes to: it prints its solution or is in one of the two
\* deadlocks.  In the first it is only with more processes than the pipe holds
\* results; in the second, as it can write to the pipe itself and so never comes
\* to its end, only when a fork failed, or when no child came to the FIFO.
Outcome ==
    \/ parent = "done"
    \/ PipeFull /\ process_count > CAPACITY
    \/ /\ NobodyComes
       /\ IF Named THEN \A w \in Worker : worker[w] \in {"none", "missing"}
          ELSE \E w \in 1 .. process_count : worker[w] = "none"

\* There are no other deadlocks: parent and children wait for each other as in
\* these two, or the parent is done (integral.c 46-59, integral2.c 48-52).
OnlyTwoDeadlocks == EverybodyWaits => Outcome

\* The parent comes to one of them, and stays there (integral.c 46-59,
\* integral2.c 48-52).
ParentEnds == <>[]Outcome
=============================================================================
