----------------------------- MODULE IntegralProofs ----------------------------
(***************************************************************************)
(* Theorems about Integral, for any number of processes and any pipe.  The *)
(* inductive invariant follows the results: nobody writes two, so that as  *)
(* long as no read met the end of the file, the parent has added as many   *)
(* different ones as it has read.  When it stops there are no more, and    *)
(* whoever has not written by then can only be lost after an end of file.  *)
(***************************************************************************)
EXTENDS Integral, FiniteSetTheorems, TLAPS

Closed == parent \in {"unlink", "done"}
Written(w) == worker[w] \in {"close", "exited"}
Seen == {w \in Worker : solution[w] # 0}

\* The loop counter, and the children made so far.
CountInv ==
    /\ i <= process_count + 1
    /\ \A w \in Worker : worker[w] # "none" =>
        w <= process_count /\ (parent = "fork" => w < i)

\* Who has the pipe open, and for how long it has a name.
OpenInv ==
    /\ parent \in {"opening", "read"} => reading
    /\ parent = "fork" => (reading <=> ~Named)
    /\ parent \in {"opening", "unlink"} => Named
    /\ fifo = "unlinked" => parent = "done"
    /\ \A w \in Worker : worker[w] = "write" /\ ~Closed => reading

\* What is in the pipe was written, once, and not read yet.
PipeInv ==
    ~Closed =>
        /\ \A k \in 1 .. Len(buffer) :
            Written(buffer[k]) /\ buffer[k] \notin Seen
        /\ \A j, k \in 1 .. Len(buffer) : buffer[j] = buffer[k] => j = k

\* What was read was written; of each result one, and as many as reads, unless a
\* read met the end of the file.
SumInv ==
    /\ \A w \in Seen : Written(w)
    /\ sol_buff # NoResult => sol_buff \in Seen
    /\ parent \in {"fork", "opening"} => Seen = {}
    /\ parent = "opening" => i = 1
    /\ ~eof => /\ \A w \in Worker : solution[w] \in {0, 1}
               /\ parent = "read" => Cardinality(Seen) = i - 1
               /\ Closed => \A w \in 1 .. process_count : w \in Seen
               /\ \A w \in Worker : worker[w] \notin {"failed", "killed"}

Inv == TypeOK /\ CountInv /\ OpenInv /\ PipeInv /\ SumInv

-----------------------------------------------------------------------------
\* Sets of workers are finite.
LEMMA WorkersFinite ==
    ASSUME IntegralAssumption, NEW S \in SUBSET Worker
    PROVE  IsFiniteSet(S)
  <1>1. IsFiniteSet(Worker)
    BY FS_Interval DEF IntegralAssumption, Worker
  <1> QED
    BY <1>1, FS_Subset

\* The first n workers are n.
LEMMA AllOfThem ==
    ASSUME IntegralAssumption, NEW n \in 0 .. MaxProcesses,
           NEW S \in SUBSET (1 .. n), Cardinality(S) = n
    PROVE  S = 1 .. n
  <1>1. IsFiniteSet(1 .. n) /\ Cardinality(1 .. n) = n
    BY FS_Interval DEF IntegralAssumption
  <1> QED
    BY <1>1, FS_Subset

LEMMA InitInv == ASSUME IntegralAssumption, Init PROVE Inv
  <1> USE DEF Init, IntegralAssumption, Named, NoResult, Closed, Seen
  <1>1. TypeOK
    <2>1. /\ fifo \in {"none", "made", "unlinked"} /\ parent = "fork"
          /\ process_count \in 0 .. MaxProcesses /\ i \in 1 .. MaxProcesses + 1
          /\ reading \in BOOLEAN /\ sol_buff \in Worker \cup {NoResult}
      OBVIOUS
    <2>2. /\ buffer \in Seq(Worker) /\ Len(buffer) <= CAPACITY
          /\ writers \subseteq Worker \cup {Parent}
      OBVIOUS
    <2>3. solution \in [Worker -> Nat] /\ eof \in BOOLEAN
      OBVIOUS
    <2>4. worker \in [Worker -> {"none", "missing", "exec", "open", "opening",
                                 "write", "close", "exited", "failed", "killed"}]
      BY Zenon
    <2> QED
      BY <2>1, <2>2, <2>3, <2>4 DEF TypeOK
  <1>2. CountInv
    BY DEF CountInv
  <1>3. OpenInv
    BY DEF OpenInv
  <1>4. PipeInv
    BY DEF PipeInv
  <1>5. SumInv
    BY DEF SumInv
  <1> QED
    BY <1>1, <1>2, <1>3, <1>4, <1>5 DEF Inv
\* (steps)
-----------------------------------------------------------------------------
(* The parent *)

LEMMA ForkInv == ASSUME IntegralAssumption, Inv, Fork PROVE Inv'
  <1> USE DEF Inv, Fork, pipeVars, sumVars, Named, WorkerGoes
  <1>1. i \in Worker /\ worker[i] = "none"
    BY DEF CountInv, TypeOK, Worker
  <1>2. TypeOK'
    <2>1. i' \in 1 .. MaxProcesses + 1
      BY DEF TypeOK, IntegralAssumption
    <2>2. worker' \in [Worker -> {"none", "missing", "exec", "open", "opening",
                                  "write", "close", "exited", "failed", "killed"}]
      BY DEF TypeOK
    <2>3. writers' \subseteq Worker \cup {Parent}
      BY <1>1 DEF TypeOK
    <2> QED
      BY <2>1, <2>2, <2>3 DEF TypeOK
  <1>3. \A w \in Worker : w # i => worker'[w] = worker[w]
    BY DEF TypeOK
  <1>4. worker'[i] \in {"none", "exec", "write"}
    BY <1>1 DEF TypeOK
  <1>5. CountInv'
    BY <1>1, <1>3, <1>4 DEF CountInv, TypeOK, Worker
  <1>6. OpenInv'
    BY <1>1, <1>3 DEF OpenInv, Closed, TypeOK
  <1>7. \A w \in Worker : Written(w) => Written(w)'
    BY <1>1, <1>3 DEF Written
  <1>8. PipeInv'
    BY <1>7 DEF PipeInv, Closed, Seen, TypeOK
  <1>9. SumInv'
    BY <1>1, <1>3, <1>4, <1>7 DEF SumInv, Closed, Seen
  <1> QED
    BY <1>2, <1>5, <1>6, <1>8, <1>9 DEF Inv

\* A step of the parent that adds nothing and lets the results where they are.
LEMMA WaitInv == ASSUME IntegralAssumption, Inv, Wait PROVE Inv'
  <1> USE DEF Inv, Wait, pipeVars, sumVars, Named
  <1>1. TypeOK'
    BY DEF TypeOK, IntegralAssumption
  <1>2. CountInv'
    BY DEF CountInv, TypeOK
  <1>3. OpenInv'
    BY DEF OpenInv, Closed
  <1>4. PipeInv'
    BY DEF PipeInv, Closed, Seen, Written
  <1>5. SumInv'
    BY FS_EmptySet DEF SumInv, Closed, Seen, Written
  <1> QED
    BY <1>1, <1>2, <1>3, <1>4, <1>5 DEF Inv

LEMMA OpenToReadInv == ASSUME IntegralAssumption, Inv, OpenToRead PROVE Inv'
  <1> USE DEF Inv, OpenToRead, pipeVars, sumVars, Named
  <1>1. TypeOK'
    <2>1. worker' \in [Worker -> {"none", "missing", "exec", "open", "opening",
                                  "write", "close", "exited", "failed", "killed"}]
      BY DEF TypeOK
    <2> QED
      BY <2>1 DEF TypeOK, IntegralAssumption
  <1>2. \A w \in Worker : worker'[w] =
                            IF worker[w] = "opening" THEN "write" ELSE worker[w]
    BY DEF TypeOK
  <1>3. CountInv'
    BY <1>2 DEF CountInv, TypeOK
  <1>4. OpenInv'
    BY DEF OpenInv, Closed
  <1>5. \A w \in Worker : Written(w) => Written(w)'
    BY <1>2 DEF Written
  <1>6. PipeInv'
    BY <1>5 DEF PipeInv, Closed, Seen, TypeOK
  <1>7. SumInv'
    BY <1>2, <1>5, FS_EmptySet DEF SumInv, Closed, Seen
  <1> QED
    BY <1>1, <1>3, <1>4, <1>6, <1>7 DEF Inv

\* A result is in the pipe no longer, and in the sum.
LEMMA ReadInv == ASSUME IntegralAssumption, Inv, Read PROVE Inv'
  <1> USE DEF Inv, Read, Add
  <1> DEFINE r == Head(buffer)
  <1>1. /\ r \in Worker /\ r # NoResult /\ buffer[1] = r
        /\ buffer' \in Seq(Worker) /\ Len(buffer') = Len(buffer) - 1
        /\ \A k \in 1 .. Len(buffer') : buffer'[k] = buffer[k + 1]
        /\ 1 \in 1 .. Len(buffer)
    BY DEF TypeOK, Worker, NoResult
  <1>2. r \notin Seen /\ Written(r) /\ \A k \in 1 .. Len(buffer') : buffer'[k] # r
    BY <1>1 DEF PipeInv, Closed
  <1>3. solution' = [solution EXCEPT ![r] = @ + 1] /\ solution[r] = 0
    BY <1>1, <1>2 DEF Seen
  <1>4. Seen' = Seen \cup {r}
    BY <1>1, <1>3 DEF Seen, TypeOK
  <1>5. TypeOK'
    BY <1>1, <1>3 DEF TypeOK, CountInv
  <1>6. CountInv'
    BY DEF CountInv, TypeOK
  <1>7. OpenInv'
    BY DEF OpenInv, Closed, Named
  <1>8. PipeInv'
    <2>1. ASSUME NEW k \in 1 .. Len(buffer')
          PROVE  Written(buffer'[k]) /\ buffer'[k] \notin Seen'
      BY <1>1, <1>2, <1>4 DEF PipeInv, Closed
    <2>2. ASSUME NEW j \in 1 .. Len(buffer'), NEW k \in 1 .. Len(buffer'),
                 buffer'[j] = buffer'[k]
          PROVE  j = k
      BY <1>1, <2>2 DEF PipeInv, Closed
    <2> QED
      BY <2>1, <2>2 DEF PipeInv, Written
  <1>9. SumInv'
    <2>1. IsFiniteSet(Seen)
      BY WorkersFinite DEF Seen
    <2>2. Cardinality(Seen') = Cardinality(Seen) + 1
      BY <1>2, <1>4, <2>1, FS_AddElement
    <2>3. ~eof' => \A w \in Worker : solution'[w] \in {0, 1}
      BY <1>3 DEF SumInv, TypeOK
    <2>4. ~eof' => Cardinality(Seen') = i' - 1
      BY <2>2 DEF SumInv, TypeOK
    <2> QED
      BY <1>1, <1>2, <1>4, <2>3, <2>4 DEF SumInv, Written, Closed
  <1> QED
    BY <1>5, <1>6, <1>7, <1>8, <1>9 DEF Inv

\* At the end of the file, what was added before is added again.
LEMMA ReadNothingInv == ASSUME IntegralAssumption, Inv, ReadNothing PROVE Inv'
  <1> USE DEF Inv, ReadNothing, pipeVars, Add
  <1>1. solution' \in [Worker -> Nat] /\ Seen' = Seen
    BY DEF SumInv, TypeOK, Seen
  <1>2. TypeOK'
    BY <1>1 DEF TypeOK
  <1>3. CountInv'
    BY DEF CountInv, TypeOK
  <1>4. OpenInv'
    BY DEF OpenInv, Closed, Named
  <1>5. PipeInv'
    BY <1>1 DEF PipeInv, Closed, Written
  <1>6. SumInv'
    BY <1>1 DEF SumInv, Closed, Written
  <1> QED
    BY <1>2, <1>3, <1>4, <1>5, <1>6 DEF Inv

\* After process_count reads, none of which met the end of the file, all
\* results are in.
LEMMA CloseInv == ASSUME IntegralAssumption, Inv, Close PROVE Inv'
  <1> USE DEF Inv, Close, sumVars, Named
  <1>1. TypeOK'
    <2>1. buffer' \in Seq(Worker) /\ Len(buffer') <= CAPACITY
      BY DEF IntegralAssumption
    <2>2. /\ writers' \subseteq Worker \cup {Parent} /\ reading' \in BOOLEAN
          /\ parent' \in {"fork", "opening", "read", "unlink", "done"}
      BY DEF TypeOK
    <2> QED
      BY <2>1, <2>2 DEF TypeOK
  <1>2. CountInv'
    BY DEF CountInv
  <1>3. OpenInv'
    BY DEF OpenInv, Closed, TypeOK
  <1>4. PipeInv'
    BY DEF PipeInv, Closed
  <1>5. ASSUME ~eof PROVE Seen = 1 .. process_count
    <2>1. Seen \subseteq 1 .. process_count
      BY DEF SumInv, CountInv, Seen, Written, Worker, TypeOK
    <2>2. Cardinality(Seen) = process_count
      BY <1>5 DEF SumInv, CountInv, TypeOK, IntegralAssumption
    <2> QED
      BY <2>1, <2>2, AllOfThem DEF TypeOK
  <1>6. SumInv'
    BY <1>5 DEF SumInv, Closed, Seen, Written
  <1> QED
    BY <1>1, <1>2, <1>3, <1>4, <1>6 DEF Inv

LEMMA UnlinkInv == ASSUME IntegralAssumption, Inv, Unlink PROVE Inv'
  <1> USE DEF Inv, Unlink, pipeVars, sumVars, Named
  <1>1. TypeOK'
    BY DEF TypeOK
  <1>2. CountInv'
    BY DEF CountInv
  <1>3. OpenInv'
    BY DEF OpenInv, Closed
  <1>4. PipeInv'
    BY DEF PipeInv, Closed
  <1>5. SumInv'
    BY DEF SumInv, Closed, Seen, Written
  <1> QED
    BY <1>1, <1>2, <1>3, <1>4, <1>5 DEF Inv

-----------------------------------------------------------------------------
(* The children *)

\* Who has not written when the parent stops reading is late after an end of
\* file only: otherwise everybody's result is in.
LEMMA LateOnlyAfterEOF ==
    ASSUME IntegralAssumption, Inv, NEW w \in Worker, worker[w] # "none",
           ~Written(w), Closed
    PROVE  eof
  BY DEF Inv, CountInv, SumInv, Worker, TypeOK

\* A step of a child that has not yet written, and does not.
LEMMA ComesNearer ==
    ASSUME IntegralAssumption, Inv, NEW w \in Worker,
           NEW to \in {"missing", "open", "opening", "write", "failed", "killed"},
           WorkerGoes(w, to), worker[w] # "none", ~Written(w),
           to \in {"failed", "killed"} => Closed,
           UNCHANGED <<process_count, i, buffer, solution, sol_buff, eof>>,
           parent' = parent \/ (parent = "opening" /\ parent' = "read")
    PROVE  CountInv' /\ PipeInv' /\ SumInv'
  <1> USE DEF Inv, WorkerGoes
  <1>1. worker'[w] = to /\ \A v \in Worker : v # w => worker'[v] = worker[v]
    BY DEF TypeOK
  <1>2. \A v \in Worker : Written(v)' <=> Written(v)
    BY <1>1 DEF Written
  <1>3. CountInv'
    BY <1>1 DEF CountInv, TypeOK
  <1>4. PipeInv'
    BY <1>2 DEF PipeInv, Closed, Seen, TypeOK
  <1>5. to \in {"failed", "killed"} => eof
    BY LateOnlyAfterEOF
  <1>6. (i = 1 /\ Seen = {}) \/ parent' = parent
    BY DEF SumInv
  <1>7. SumInv'
    BY <1>1, <1>2, <1>5, <1>6, FS_EmptySet DEF SumInv, Closed, Seen
  <1> QED
    BY <1>3, <1>4, <1>7

LEMMA ExecInv ==
    ASSUME IntegralAssumption, Inv, NEW w \in Worker, Exec(w)
    PROVE  Inv'
  <1> USE DEF Exec, pipeVars, sumVars
  <1>1. PICK to \in {"open", "missing"} : WorkerGoes(w, to)
    OBVIOUS
  <1>2. TypeOK'
    BY <1>1 DEF Inv, TypeOK, WorkerGoes
  <1>3. OpenInv'
    BY <1>1 DEF Inv, OpenInv, Closed, Named, WorkerGoes, TypeOK
  <1>4. CountInv' /\ PipeInv' /\ SumInv'
    BY <1>1, ComesNearer DEF Written
  <1> QED
    BY <1>2, <1>3, <1>4 DEF Inv

LEMMA OpenToWriteInv ==
    ASSUME IntegralAssumption, Inv, NEW w \in Worker, OpenToWrite(w)
    PROVE  Inv'
  <1> USE DEF OpenToWrite, sumVars
  <1>1. PICK to \in {"failed", "opening", "write"} :
            /\ WorkerGoes(w, to)
            /\ to = "failed" => fifo = "unlinked"
            /\ to = "write" => reading
    OBVIOUS
  <1>2. to = "failed" => Closed
    BY <1>1 DEF Inv, OpenInv, Closed
  <1>3. parent' = parent \/ (parent = "opening" /\ parent' = "read")
    OBVIOUS
  <1>4. TypeOK'
    <2>1. worker' \in [Worker -> {"none", "missing", "exec", "open", "opening",
                                  "write", "close", "exited", "failed", "killed"}]
      BY <1>1 DEF Inv, TypeOK, WorkerGoes
    <2>2. writers' \subseteq Worker \cup {Parent}
      BY DEF Inv, TypeOK
    <2> QED
      BY <1>3, <2>1, <2>2 DEF Inv, TypeOK
  <1>5. OpenInv'
    <2>1. \A v \in Worker : worker'[v] = "write" => worker[v] = "write" \/ reading
      BY <1>1 DEF Inv, TypeOK, WorkerGoes
    <2> QED
      BY <1>3, <2>1 DEF Inv, OpenInv, Closed, Named
  <1>6. CountInv' /\ PipeInv' /\ SumInv'
    BY <1>1, <1>2, <1>3, ComesNearer DEF Written
  <1> QED
    BY <1>4, <1>5, <1>6 DEF Inv

\* What is written is new in the pipe.
LEMMA WriteInv ==
    ASSUME IntegralAssumption, Inv, NEW w \in Worker, Write(w)
    PROVE  Inv'
  <1> USE DEF Write, sumVars
  <1>1. TypeOK /\ worker[w] = "write" /\ ~Written(w)
    BY DEF Inv, Written
  <1>2. CASE ~reading
    <2>1. WorkerGoes(w, "killed") /\ buffer' = buffer
      BY <1>2
    <2>2. Closed
      BY <1>1, <1>2 DEF Inv, OpenInv
    <2>3. TypeOK'
      BY <1>1, <1>2, <2>1 DEF TypeOK, WorkerGoes
    <2>4. OpenInv'
      BY <1>1, <2>1 DEF Inv, OpenInv, Closed, Named, WorkerGoes, TypeOK
    <2>5. CountInv' /\ PipeInv' /\ SumInv'
      BY <1>1, <2>1, <2>2, ComesNearer
    <2> QED
      BY <2>3, <2>4, <2>5 DEF Inv
  <1>3. CASE reading /\ Len(buffer) < CAPACITY
    <2>1. /\ worker' = [worker EXCEPT ![w] = "close"]
          /\ buffer' = Append(buffer, w) /\ writers' = writers
      BY <1>3 DEF WorkerGoes
    <2>2. /\ Written(w)' /\ \A v \in Worker : Written(v) => Written(v)'
          /\ \A v \in Worker : v # w => worker'[v] = worker[v]
      BY <1>1, <2>1 DEF TypeOK, Written
    <2>3. /\ buffer' \in Seq(Worker) /\ Len(buffer') = Len(buffer) + 1
          /\ buffer'[Len(buffer')] = w
          /\ \A k \in 1 .. Len(buffer) : buffer'[k] = buffer[k]
      BY <1>1, <2>1 DEF TypeOK
    <2>4. TypeOK'
      <3>1. worker' \in [Worker -> {"none", "missing", "exec", "open", "opening",
                                    "write", "close", "exited", "failed", "killed"}]
        BY <1>1, <2>1 DEF TypeOK
      <3>2. Len(buffer') <= CAPACITY
        BY <1>1, <1>3, <2>3 DEF TypeOK, IntegralAssumption
      <3> QED
        BY <1>1, <2>1, <2>3, <3>1, <3>2 DEF TypeOK
    <2>5. CountInv'
      BY <1>1, <2>1, <2>2 DEF Inv, CountInv, TypeOK
    <2>6. OpenInv'
      BY <1>1, <2>1 DEF Inv, OpenInv, Closed, Named, TypeOK
    <2>7. w \notin Seen /\ Seen' = Seen
      BY <1>1 DEF Inv, SumInv, Seen
    <2>8. PipeInv'
      <3>1. CASE Closed
        BY <3>1 DEF PipeInv, Closed
      <3>2. CASE ~Closed
        <4>1. \A k \in 1 .. Len(buffer) :
                buffer[k] \in Worker /\ Written(buffer[k]) /\ buffer[k] \notin Seen
          BY <1>1, <3>2 DEF Inv, PipeInv, TypeOK
        <4>2. \A j, k \in 1 .. Len(buffer) : buffer[j] = buffer[k] => j = k
          BY <3>2 DEF Inv, PipeInv
        <4>3. Len(buffer) \in Nat
          BY <1>1 DEF TypeOK
        <4>4. \A k \in 1 .. Len(buffer') : k \in 1 .. Len(buffer) \/ k = Len(buffer')
          BY <2>3, <4>3
        <4>5. \A k \in 1 .. Len(buffer) : buffer'[k] # w
          BY <1>1, <2>3, <4>1
        <4>6. ASSUME NEW k \in 1 .. Len(buffer')
              PROVE  worker'[buffer'[k]] \in {"close", "exited"} /\ buffer'[k] \notin Seen'
          <5>1. CASE k \in 1 .. Len(buffer)
            <6> DEFINE v == buffer[k]
            <6>1. v \in Worker /\ Written(v)' /\ v \notin Seen' /\ buffer'[k] = v
              BY <2>2, <2>3, <2>7, <4>1, <5>1
            <6> QED
              BY <6>1 DEF Written
          <5>2. CASE k = Len(buffer')
            BY <2>2, <2>3, <2>7, <5>2 DEF Written
          <5> QED
            BY <4>4, <5>1, <5>2
        <4>7. ASSUME NEW j \in 1 .. Len(buffer'), NEW k \in 1 .. Len(buffer'),
                     buffer'[j] = buffer'[k]
              PROVE  j = k
          BY <2>3, <4>2, <4>4, <4>5, <4>7
        <4> QED
          BY <4>6, <4>7 DEF PipeInv, Written
      <3> QED
        BY <3>1, <3>2
    <2>9. SumInv'
      BY <1>1, <2>1, <2>2, <2>7 DEF Inv, SumInv, Closed, Seen
    <2> QED
      BY <2>4, <2>5, <2>6, <2>8, <2>9 DEF Inv
  <1> QED
    BY <1>2, <1>3

LEMMA ExitInv ==
    ASSUME IntegralAssumption, Inv, NEW w \in Worker, Exit(w)
    PROVE  Inv'
  <1> USE DEF Inv, Exit, sumVars, WorkerGoes
  <1>1. worker[w] = "close" /\ worker' = [worker EXCEPT ![w] = "exited"]
    OBVIOUS
  <1>2. \A v \in Worker : Written(v)' <=> Written(v)
    BY <1>1 DEF Written, TypeOK
  <1>3. TypeOK'
    BY <1>1 DEF TypeOK
  <1>4. CountInv'
    BY <1>1 DEF CountInv, TypeOK
  <1>5. OpenInv'
    BY <1>1 DEF OpenInv, Closed, Named, TypeOK
  <1>6. PipeInv'
    BY <1>2 DEF PipeInv, Closed, Seen, TypeOK
  <1>7. SumInv'
    BY <1>1, <1>2 DEF SumInv, Closed, Seen, TypeOK
  <1> QED
    BY <1>3, <1>4, <1>5, <1>6, <1>7 DEF Inv

LEMMA NextInv == ASSUME IntegralAssumption, Inv, [Next]_vars PROVE Inv'
  <1>1. CASE ParentStep
    BY <1>1, ForkInv, WaitInv, OpenToReadInv, ReadInv, ReadNothingInv, CloseInv,
       UnlinkInv DEF ParentStep
  <1>2. ASSUME NEW w \in Worker, WorkerStep(w) PROVE Inv'
    BY <1>2, ExecInv, OpenToWriteInv, WriteInv, ExitInv DEF WorkerStep
  <1>3. CASE UNCHANGED vars
    BY <1>3 DEF vars, pipeVars, sumVars, Inv, TypeOK, CountInv, OpenInv, PipeInv,
                SumInv, Closed, Written, Seen, Named
  <1> QED
    BY <1>1, <1>2, <1>3 DEF Next, Stopped

\* Where every result is, in every reachable state.
THEOREM InvHolds == Spec => []Inv
  <1>1. Init => Inv
    BY InitInv, IntegralAssumption
  <1>2. Inv /\ [Next]_vars => Inv'
    BY NextInv, IntegralAssumption
  <1> QED
    BY <1>1, <1>2, PTL DEF Spec

-----------------------------------------------------------------------------
\* The types of all variables.
THEOREM TypeCorrect == Spec => []TypeOK
  <1>1. Inv => TypeOK
    BY DEF Inv
  <1> QED
    BY <1>1, InvHolds, PTL

\* With any number of processes and any pipe, the parent prints the sum of all
\* parts unless a read met the end of the file (integral.c 56-62, integral2.c
\* 49-59).
THEOREM SolutionAlwaysSum == Spec => []SolutionIsSum
  <1>1. ASSUME Inv, parent = "done", ~eof
        PROVE  solution = [w \in Worker |-> IF w <= process_count THEN 1 ELSE 0]
    <2>1. solution \in [Worker -> Nat]
      BY <1>1 DEF Inv, TypeOK
    <2>2. ASSUME NEW w \in Worker
          PROVE  solution[w] = IF w <= process_count THEN 1 ELSE 0
      <3>1. CASE w <= process_count
        <4>1. w \in Seen /\ solution[w] \in {0, 1}
          BY <1>1, <3>1 DEF Inv, SumInv, Closed, Worker, TypeOK
        <4> QED
          BY <3>1, <4>1 DEF Seen
      <3>2. CASE ~(w <= process_count)
        <4>1. w \notin Seen
          BY <1>1, <3>2 DEF Inv, SumInv, CountInv, Written
        <4> QED
          BY <3>2, <4>1 DEF Seen
      <3> QED
        BY <3>1, <3>2
    <2> QED
      BY <2>1, <2>2
  <1>2. Inv => SolutionIsSum
    BY <1>1 DEF SolutionIsSum
  <1> QED
    BY <1>2, InvHolds, PTL

\* No child fails, is killed, or comes too late, unless a read met the end of the
\* file (integral2.c 52, 59-60; sub_integral.c 19, 32).
THEOREM LostOnlyByEOF == Spec => []ChildLostOnlyByEOF
  <1>1. ASSUME Inv, NEW w \in Worker,
               \/ worker[w] \in {"failed", "killed"}
               \/ /\ worker[w] \in {"open", "opening"}
                  /\ parent \in {"unlink", "done"}
        PROVE  eof
    BY <1>1, LateOnlyAfterEOF, IntegralAssumption DEF Inv, SumInv, Closed, Written
  <1>2. Inv => ChildLostOnlyByEOF
    BY <1>1 DEF ChildLostOnlyByEOF
  <1> QED
    BY <1>2, InvHolds, PTL

-----------------------------------------------------------------------------
(* Deadlocks.  Who holds the pipe open tells for what the parent can still   *)
(* wait; which results are still to be read, for how many.                   *)

\* A child of zad2 never opens a FIFO; the parent of zad2 can write itself, and
\* meets no end of the file.  What was written is read, or still to be read.
WritersInv ==
    /\ \A w \in Worker : w \in writers <=> worker[w] \in {"opening", "write", "close"}
    /\ Parent \in writers <=> ~Named /\ parent # "done"
    /\ parent = "opening" =>
        \A w \in Worker : worker[w] \in {"none", "missing", "exec", "open"}
    /\ Named /\ parent = "fork" =>
        \A w \in Worker : worker[w] \in {"none", "missing", "exec", "open", "opening"}
    /\ reading => \A w \in Worker : worker[w] # "opening"
    /\ ~Named =>
        /\ \A w \in Worker : worker[w] \in {"none", "write", "close", "exited", "killed"}
        /\ parent # "done" => ~eof
    /\ ~Closed => \A w \in Worker : Written(w) =>
        w \in Seen \/ \E k \in 1 .. Len(buffer) : buffer[k] = w

LEMMA InitWriters == ASSUME IntegralAssumption, Init PROVE WritersInv
  BY DEF Init, IntegralAssumption, WritersInv, Named, NoResult, Closed, Seen, Written,
         Worker, Parent

LEMMA ForkWriters == ASSUME IntegralAssumption, Inv, WritersInv, Fork PROVE WritersInv'
  <1> USE DEF Fork, pipeVars, sumVars, Named, WorkerGoes, WritersInv
  <1>1. i \in Worker /\ worker[i] = "none" /\ Parent # i
    BY DEF Inv, CountInv, TypeOK, Worker, Parent
  <1>2. \A w \in Worker : w # i => worker'[w] = worker[w]
    BY DEF Inv, TypeOK
  <1>3. \/ worker' = worker /\ writers' = writers
        \/ Named /\ worker'[i] = "exec" /\ writers' = writers
        \/ ~Named /\ worker'[i] = "write" /\ writers' = writers \cup {i}
    BY <1>1 DEF Inv, TypeOK
  <1>4. \A w \in Worker : Written(w)' => Written(w)
    BY <1>1, <1>2, <1>3 DEF Written
  <1>5. Seen' = Seen /\ Closed' = Closed
    BY DEF Seen, Closed
  <1> QED
    BY <1>1, <1>2, <1>3, <1>4, <1>5

LEMMA WaitWriters == ASSUME IntegralAssumption, Inv, WritersInv, Wait PROVE WritersInv'
  BY DEF Wait, pipeVars, sumVars, Named, WritersInv, Seen, Closed, Written

LEMMA OpenToReadWriters ==
    ASSUME IntegralAssumption, Inv, WritersInv, OpenToRead PROVE WritersInv'
  <1> USE DEF OpenToRead, sumVars, Named, WritersInv
  <1>1. \A w \in Worker : worker'[w] =
                            IF worker[w] = "opening" THEN "write" ELSE worker[w]
    BY DEF Inv, TypeOK
  <1>2. \A w \in Worker : Written(w)' => Written(w)
    BY <1>1 DEF Written
  <1>3. Seen' = Seen /\ ~Closed
    BY DEF Seen, Closed
  <1> QED
    BY <1>1, <1>2, <1>3

LEMMA ReadWriters == ASSUME IntegralAssumption, Inv, WritersInv, Read PROVE WritersInv'
  <1> USE DEF Read, Add, Named, WritersInv
  <1> DEFINE r == Head(buffer)
  <1>1. /\ r \in Worker /\ r # NoResult /\ buffer[1] = r
        /\ Len(buffer') = Len(buffer) - 1 /\ Len(buffer) \in Nat
        /\ \A k \in 1 .. Len(buffer') : buffer'[k] = buffer[k + 1]
    BY DEF Inv, TypeOK, Worker, NoResult
  <1>2. Seen' = Seen \cup {r}
    <2>1. solution' = [solution EXCEPT ![r] = @ + 1]
      BY <1>1
    <2> QED
      BY <1>1, <2>1 DEF Seen, Inv, TypeOK
  <1>3. ASSUME NEW w \in Worker, NEW k \in 1 .. Len(buffer), buffer[k] = w, w # r
        PROVE  \E j \in 1 .. Len(buffer') : buffer'[j] = w
    <2>1. k - 1 \in 1 .. Len(buffer') /\ (k - 1) + 1 = k
      BY <1>1, <1>3
    <2> QED
      BY <1>1, <1>3, <2>1
  <1>4. ASSUME NEW w \in Worker, Written(w)
        PROVE  w \in Seen' \/ \E j \in 1 .. Len(buffer') : buffer'[j] = w
    BY <1>2, <1>3, <1>4 DEF Closed
  <1> QED
    BY <1>4 DEF Written, Closed

LEMMA ReadNothingWriters ==
    ASSUME IntegralAssumption, Inv, WritersInv, ReadNothing PROVE WritersInv'
  <1> USE DEF ReadNothing, pipeVars, Add, Named, WritersInv
  <1>1. Seen' = Seen
    BY DEF Inv, SumInv, TypeOK, Seen
  <1> QED
    BY <1>1 DEF Written, Closed

LEMMA CloseWriters == ASSUME IntegralAssumption, Inv, WritersInv, Close PROVE WritersInv'
  BY DEF Close, sumVars, Named, WritersInv, Closed, Parent, Worker

LEMMA UnlinkWriters ==
    ASSUME IntegralAssumption, Inv, WritersInv, Unlink PROVE WritersInv'
  BY DEF Unlink, pipeVars, sumVars, Named, WritersInv, Closed, Inv, OpenInv

LEMMA WorkerWriters ==
    ASSUME IntegralAssumption, Inv, WritersInv, NEW w \in Worker, WorkerStep(w)
    PROVE  WritersInv'
  <1> USE DEF WorkerGoes, Named, WritersInv
  <1>1. w # Parent /\ Seen' = Seen
    BY DEF WorkerStep, Exec, OpenToWrite, Write, Exit, sumVars, Worker, Parent, Seen
  <1>2. CASE Exec(w)
    <2>1. /\ worker[w] = "exec" /\ worker'[w] \in {"open", "missing"}
          /\ \A v \in Worker : v # w => worker'[v] = worker[v]
      BY <1>2 DEF Exec, Inv, TypeOK
    <2>2. UNCHANGED <<fifo, process_count, parent, i, pipeVars, sumVars>>
      BY <1>2 DEF Exec
    <2> QED
      BY <1>1, <2>1, <2>2 DEF Closed, Written, pipeVars, sumVars
  <1>3. CASE OpenToWrite(w)
    <2>1. \A v \in Worker : v # w => worker'[v] = worker[v]
      BY <1>3 DEF OpenToWrite, Inv, TypeOK
    <2>2. CASE fifo = "unlinked" /\ worker'[w] = "failed" /\ UNCHANGED <<parent, writers>>
      BY <1>1, <1>3, <2>1, <2>2 DEF OpenToWrite, Closed, Written, sumVars, Inv, OpenInv
    <2>3. CASE /\ fifo = "made"
               /\ worker'[w] = IF reading THEN "write" ELSE "opening"
               /\ writers' = writers \cup {w}
               /\ parent' = IF parent = "opening" THEN "read" ELSE parent
      <3>1. /\ worker[w] = "open" /\ Named /\ Named'
            /\ UNCHANGED <<fifo, buffer, reading, eof>>
        BY <1>3, <2>3 DEF OpenToWrite, sumVars
      <3>2. Parent \notin writers'
        BY <1>1, <2>3, <3>1
      <3>3. \A v \in Worker : Written(v)' <=> Written(v)
        BY <2>1, <2>3, <3>1 DEF Written
      <3>4. Closed' <=> Closed
        BY <2>3 DEF Closed
      <3>5. parent = "opening" => reading
        BY DEF Inv, OpenInv
      <3>6. parent' # "opening" /\ (parent' = "fork" => parent = "fork" /\ ~reading)
        BY <2>3, <3>1 DEF Inv, OpenInv
      <3> QED
        BY <1>1, <2>1, <2>3, <3>1, <3>2, <3>3, <3>4, <3>5, <3>6
    <2> QED
      BY <1>3, <2>2, <2>3 DEF OpenToWrite, Inv, TypeOK
  <1>4. CASE Write(w)
    <2>1. /\ worker[w] = "write" /\ \A v \in Worker : v # w => worker'[v] = worker[v]
          /\ UNCHANGED <<fifo, parent, reading, eof>>
      BY <1>4 DEF Write, Inv, TypeOK, sumVars
    <2>2. parent # "opening" /\ ~(Named /\ parent = "fork")
      BY <2>1
    <2>3. CASE /\ ~reading /\ worker'[w] = "killed"
               /\ writers' = writers \ {w} /\ buffer' = buffer
      BY <1>1, <2>1, <2>2, <2>3 DEF Written, Closed
    <2>4. CASE /\ reading /\ Len(buffer) < CAPACITY /\ worker'[w] = "close"
               /\ buffer' = Append(buffer, w) /\ writers' = writers
      <3>1. /\ Len(buffer') = Len(buffer) + 1 /\ Len(buffer) \in Nat
            /\ buffer'[Len(buffer')] = w
            /\ \A k \in 1 .. Len(buffer) : buffer'[k] = buffer[k]
        BY <2>4 DEF Inv, TypeOK
      <3>2. ASSUME ~Closed, NEW v \in Worker, Written(v)'
            PROVE  v \in Seen' \/ \E k \in 1 .. Len(buffer') : buffer'[k] = v
        <4>1. CASE v = w
          <5>1. Len(buffer') \in 1 .. Len(buffer')
            BY <3>1
          <5> QED
            BY <3>1, <4>1, <5>1
        <4>2. CASE v # w /\ v \in Seen
          BY <1>1, <4>2
        <4>3. CASE v # w /\ v \notin Seen
          <5>1. PICK k \in 1 .. Len(buffer) : buffer[k] = v
            BY <2>1, <3>2, <4>3 DEF Written
          <5>2. k \in 1 .. Len(buffer') /\ buffer'[k] = v
            BY <3>1, <5>1
          <5> QED
            BY <5>2
        <4> QED
          BY <4>1, <4>2, <4>3
      <3> QED
        BY <1>1, <2>1, <2>2, <2>4, <3>2 DEF Closed
    <2> QED
      BY <1>4, <2>3, <2>4 DEF Write, Inv, TypeOK
  <1>5. CASE Exit(w)
    <2>1. /\ worker[w] = "close" /\ worker'[w] = "exited"
          /\ \A v \in Worker : v # w => worker'[v] = worker[v]
          /\ writers' = writers \ {w}
          /\ UNCHANGED <<fifo, parent, buffer, reading, eof>>
      BY <1>5 DEF Exit, Inv, TypeOK, sumVars
    <2>2. \A v \in Worker : Written(v)' <=> Written(v)
      BY <2>1 DEF Written
    <2>3. parent # "opening" /\ ~(Named /\ parent = "fork")
      BY <2>1
    <2> QED
      BY <1>1, <2>1, <2>2, <2>3 DEF Closed
  <1> QED
    BY <1>2, <1>3, <1>4, <1>5 DEF WorkerStep

LEMMA NextWriters ==
    ASSUME IntegralAssumption, Inv, WritersInv, [Next]_vars PROVE WritersInv'
  <1>1. CASE ParentStep
    BY <1>1, ForkWriters, WaitWriters, OpenToReadWriters, ReadWriters,
       ReadNothingWriters, CloseWriters, UnlinkWriters DEF ParentStep
  <1>2. CASE UNCHANGED vars
    BY <1>2 DEF vars, pipeVars, sumVars, WritersInv, Closed, Written, Seen, Named
  <1> QED
    BY <1>1, <1>2, WorkerWriters DEF Next, Stopped

\* A full pipe and a child that still has to write are more children than the
\* pipe holds results.
LEMMA FullPipe ==
    ASSUME IntegralAssumption, Inv, ~Closed, Len(buffer) = CAPACITY,
           NEW w \in Worker, worker[w] = "write"
    PROVE  process_count > CAPACITY
  <1> DEFINE S == 1 .. CAPACITY
             T == (1 .. process_count) \ {w}
             f == [k \in S |-> buffer[k]]
  <1>1. w \in 1 .. process_count /\ process_count \in Nat /\ CAPACITY \in Nat
    BY DEF Inv, CountInv, TypeOK, Worker, IntegralAssumption
  <1>2. IsFiniteSet(1 .. process_count) /\ Cardinality(1 .. process_count) = process_count
    BY <1>1, FS_Interval
  <1>3. IsFiniteSet(T) /\ Cardinality(T) = process_count - 1
    BY <1>1, <1>2, FS_RemoveElement
  <1>4. IsFiniteSet(S) /\ Cardinality(S) = CAPACITY
    BY <1>1, FS_Interval
  <1>5. \A k \in S : buffer[k] \in T
    <2>1. ASSUME NEW k \in S PROVE buffer[k] \in Worker /\ Written(buffer[k])
      BY <2>1 DEF Inv, TypeOK, PipeInv
    <2> QED
      BY <2>1 DEF Inv, CountInv, Written, Worker, TypeOK
  <1>6. f \in [S -> T]
    BY <1>5
  <1>7. ~ \E x, y \in S : x # y /\ f[x] = f[y]
    BY DEF Inv, PipeInv
  <1>8. ~(Cardinality(T) < Cardinality(S))
    <2> HIDE DEF S, T, f
    <2> QED
      BY <1>3, <1>4, <1>6, <1>7, FS_PigeonHole
  <1> QED
    BY <1>1, <1>3, <1>4, <1>8

\* With all children gone and all their results read, the parent of zad2 reads
\* once more only if a fork failed.
LEMMA ResultMissing ==
    ASSUME IntegralAssumption, Inv, WritersInv, ~Named, parent = "read",
           i <= process_count, buffer = <<>>, \A w \in Worker : Gone(w)
    PROVE  \E w \in 1 .. process_count : worker[w] = "none"
  <1> SUFFICES ASSUME \A w \in 1 .. process_count : worker[w] # "none"
               PROVE  FALSE
    OBVIOUS
  <1>1. ~eof /\ ~Closed /\ Len(buffer) = 0
    BY DEF WritersInv, Closed
  <1>2. process_count \in 0 .. MaxProcesses /\ 1 .. process_count \subseteq Worker
    BY DEF Inv, TypeOK, Worker, IntegralAssumption
  <1>3. \A w \in 1 .. process_count : worker[w] = "exited"
    BY <1>1, <1>2 DEF Inv, SumInv, WritersInv, Gone
  <1>4. 1 .. process_count \subseteq Seen
    BY <1>1, <1>2, <1>3 DEF WritersInv, Written
  <1>5. Seen \subseteq 1 .. process_count
    BY DEF Inv, SumInv, CountInv, Seen, Written, Worker, TypeOK
  <1>6. Cardinality(1 .. process_count) = process_count
    BY <1>2, FS_Interval DEF IntegralAssumption
  <1>7. Cardinality(Seen) = i - 1
    BY <1>1 DEF Inv, SumInv
  <1>8. Seen = 1 .. process_count
    BY <1>4, <1>5
  <1>9. i - 1 = process_count
    BY <1>6, <1>7, <1>8
  <1> QED
    BY <1>2, <1>9 DEF Inv, TypeOK, IntegralAssumption

\* Whoever waits, and for whom, is as in one of the two deadlocks.
LEMMA WaitsAsStated ==
    ASSUME IntegralAssumption, Inv, WritersInv, EverybodyWaits
    PROVE  Outcome
  <1>1. CASE parent = "opening"
    <2>1. Named /\ \A w \in Worker : worker[w] \in {"none", "missing"}
      BY <1>1 DEF EverybodyWaits, WritersInv, Gone, Inv, OpenInv
    <2> QED
      BY <1>1, <2>1 DEF Outcome, NobodyComes, Gone
  <1>2. CASE parent = "fork" /\ ~Named /\ \E w \in Worker : ~Gone(w)
    <2>1. PICK w \in Worker : ~Gone(w)
      BY <1>2
    <2>2. worker[w] = "write" /\ Len(buffer) = CAPACITY
      BY <1>2, <2>1 DEF EverybodyWaits, WritersInv
    <2>3. process_count > CAPACITY
      BY <1>2, <2>2, FullPipe DEF Closed
    <2> QED
      BY <1>2, <2>2, <2>3 DEF Outcome, PipeFull
  <1>3. CASE parent = "read" /\ i <= process_count /\ buffer = <<>> /\ writers # {}
    <2>1. reading /\ Len(buffer) # CAPACITY
      BY <1>3 DEF Inv, OpenInv, IntegralAssumption
    <2>2. \A w \in Worker : Gone(w)
      BY <2>1 DEF EverybodyWaits, WritersInv
    <2>3. NobodyComes
      BY <1>3, <2>2 DEF NobodyComes
    <2>4. ~Named
      BY <1>3, <2>2 DEF WritersInv, Gone, Inv, TypeOK
    <2>5. \E w \in 1 .. process_count : worker[w] = "none"
      BY <1>3, <2>2, <2>4, ResultMissing
    <2> QED
      BY <2>3, <2>4, <2>5 DEF Outcome
  <1>4. CASE parent = "done"
    BY <1>4 DEF Outcome
  <1> QED
    BY <1>1, <1>2, <1>3, <1>4 DEF EverybodyWaits

\* Whatever the number of processes and the pipe, parent and children stop only
\* when the parent is done, or in one of the two deadlocks: with more children
\* than the pipe holds results, or after a failed fork or no child that came
\* (integral.c 46-59, integral2.c 48-52).
THEOREM NoOtherDeadlock == Spec => []OnlyTwoDeadlocks
  <1>1. Init => Inv /\ WritersInv
    BY InitInv, InitWriters, IntegralAssumption
  <1>2. (Inv /\ WritersInv) /\ [Next]_vars => (Inv /\ WritersInv)'
    BY NextInv, NextWriters, IntegralAssumption
  <1>3. Inv /\ WritersInv => OnlyTwoDeadlocks
    BY WaitsAsStated, IntegralAssumption DEF OnlyTwoDeadlocks
  <1> QED
    BY <1>1, <1>2, <1>3, PTL DEF Spec

===============================================================================
