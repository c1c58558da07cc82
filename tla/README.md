# Specifications of AGH-Operatiang_Systems

The repository is a collection of laboratory programs about operating systems:
some of a few lines, some systems of cooperating processes. This directory
models the latter in TLA+, checks the models with TLC on small instances, and
proves the most important properties with TLAPS for every instance.

## 1. The system's parts

| part | what it is | state | operations | how its processes meet |
|------|------------|-------|------------|------------------------|
| `cw07/zad1` salon | `hair_salon.c` forks `M` hairdressers and 20 clients | five semaphores, one more per client, a queue of pids | the system calls of `client.c` and `hairdresser.c`, `clear_up` | semaphores and shared memory |
| `cw07/zad1` queue | `haircut_queue.c` | an array, head, tail, length | `push`, `pop`, `queue_empty` | shared memory, no lock of its own |
| `cw07/zad1` helpers | `sem.c`, `shared_memory.c` | System V keys | make, open, acquire, release, remove | keys from `ftok` |
| `cw06/zad1` chat | `server.c`, `client.c` over System V queues | slots of `client_list`, a queue per process, `connected` | INIT, LIST, 2ALL, 2ONE, STOP, SIGINT of either side | messages taken by type |
| `cw06/zad2` chat | the same over POSIX queues | slots, open descriptors, a queue per name | INIT, LIST, 2ALL, 2ONE | messages taken by priority |
| `cw08/zad1` life | `life.c`, `grid.c`: a thread per cell | two grids, signals pending | draw, sleep, signal the cells, swap | `SIGUSR1` and shared memory |
| `cw05/zad2`, `zad3` | an integral in parts, a process for each, over a pipe and over a FIFO | the pipe, a sum | fork, exec, open, write, wait, read, unlink | the pipe or the FIFO |
| `cw05/zad1` | mail (unfinished) | none | popen | none |
| `cw04/zad3` | `sender.c` and `catcher.c` of commands | mode, counter, alarm | commands, confirmations | `SIGUSR1`, `SIGALRM` |
| `cw04/zad1`, `zad2` | `inherit.c`, `signal_for_exec.c`, `sigaction.c`: what signals do to children and with flags | dispositions, masks, `signals_received` | raise, kill, fork, exec, pause, wait | signals and `wait` |
| `cw03/zad3` | search in a directory tree, a process per directory | a buffer per process, what stdio holds back | fork, read, compare, flush | `wait`, and the output |
| `cw03/zad1`, `zad2` | fork and exec | none | print | none |
| `cw02` | replace, reverse, count bytes in files | files | read, write | none |
| `cw01` | a library of word counts and its command line | a table of blocks | create, delete, print, free | none |
| `*/lab` | warm-ups | none | | none |

What is hard about them, and where it bites, is the list `hazards` of
`PROJECT.json`. In short:

* **salon**: two semaphores looked at one after the other, seats given back by
  somebody else than the one who took them, hairdressers who decide alone
  whether to go home, a queue that is safe only under its mutex. It is correct
  when everybody admitted is shorn, once, first come first served, when all
  semaphores balance and when the simulation ends.
* **chats**: SIGINT between any two system calls, messages that overtake each
  other by type or priority, `msgsnd` that blocks both sides, answers taken by
  the wrong wait. They are correct when the server's slots and the clients'
  flags agree, when an answer meets its request, when the server handles only
  clients it lists and lets go of those that leave, and when all read the same
  conversation.
* **life**: signals that do not queue, threads that may be late, two grids that
  are swapped under them. It is correct when it plays the game of life, and when
  what a late thread spoils is mended once threads are in time again.
* **sender and catcher**: signals that do not queue, a confirmation that may come
  before the wait for it. It is correct when no sender is past a command that
  was not obeyed, and when nobody waits for ever but for a reason one can name.
* **signals**: a test and a pause with a gap between them, flags that are never
  initialised, waits that a signal interrupts. The programs are correct when
  they show what they are meant to show, and come to their end.
* **integrals**: a pipe that fills while its reader waits, ends of file while
  writers are still to come, forks that fail. They are correct when every part
  is added once, or the parent can know that it was not.
* **search**: processes that leave the loops they inherit, output buffered
  before a fork, the end of a longer file left in a buffer. It is correct when
  what matches is printed, once.

## 2. The modules

| module | models | |
|--------|--------|-|
| `HaircutQueue` | `haircut_queue.c`: `push` and `pop`, each cut where another process can come in between | operators |
| `Salon` | `hair_salon.c`, `client.c`, `hairdresser.c` | one action per system call |
| `TimedSalon` | `Salon` with naps that are long enough | conjoins a clock to its steps |
| `Barbershop` | what the salon promises | abstract |
| `SalonProofs` | | theorems about `Salon` and `TimedSalon` |
| `MessageQueues` | queues of the operating system as `cw06` uses them (external) | operators |
| `Chat` | `cw06/zad1` | server, clients, SIGINT |
| `MqChat` | `cw06/zad2` | server, clients |
| `ChatProofs`, `MqChatProofs` | | theorems about both chats |
| `GameOfLife` | the rules, over whole generations, until somebody disturbs the board | abstract |
| `Life` | `life.c`, `grid.c` | main thread, one thread per cell |
| `LifeProofs` | | theorems |
| `Handshake` | `cw04/zad3`: `sender.c`, `catcher.c` | senders, one catcher, SIGINT |
| `HandshakeProofs` | | theorems |
| `Signals` | `cw04/zad1`, `zad2`: `inherit.c`, `signal_for_exec.c`, `sigaction.c` | a parent and its children, under signals |
| `SignalsProofs` | | theorems |
| `Integral` | `cw05/zad2`, `zad3`: `integral.c`, `integral2.c`, `sub_integral.c` | parent, children, pipe or FIFO |
| `IntegralProofs` | | theorems |
| `Search` | `cw03/zad3`: `search.c` | a process per directory |
| `SearchProofs` | | theorems |
| `MCSalon`, `MCTimedSalon`, `MCChat`, `MCMqChat`, `MCLife`, `MCSearch` | instances for TLC | values, and symmetry sets where used |

`Salon` extends `HaircutQueue`, `TimedSalon` extends `Salon`; `Salon`
instantiates `Barbershop` and `Life` instantiates `GameOfLife` with a refinement
mapping. Both chats extend `MessageQueues`. The `map` of `PROJECT.json` gives
the lines each definition stands for.

Definitions marked `(wrong)` are mistakes the code does not make. Each stands
before the definition it is a wrong version of and has the same parameters; put
in its place, it makes one of the properties fail. They are how we know that a
property says something about the code.

### 2.1 Salon

A process is at a label, `pc[p]`, between two system calls; an action is the
code from one label to the next. `sem` are the five shared semaphores under the
names of `headers.h`, `selfMutex[c]` is the semaphore a client makes for
itself, `newHaircut[h]` the pid a hairdresser popped, `queue` the record in
shared memory.

| label of a client | it is about to | client.c |
|---|---|---|
| outside, enter | be forked, make its semaphore | 12-16 |
| ask, sit | look at `sem_hairdresser` and `sem_wait`, take a seat | 18-20 |
| wait | acquire `sem_hairdresser` | 24 |
| lock, place, count, unlock | push itself | 27-32 |
| announce, being_cut | release `sem_haircuts`, wait on its own semaphore | 34-37 |
| leave, shorn, turned_away | remove its semaphore, gone | 22, 39 |

| label of a hairdresser | it is about to | hairdresser.c |
|---|---|---|
| away, idle | be forked, wait for a haircut | 13-22 |
| look, free_seat | look at `sem_wait`, release it | 24 |
| pop, read, drop, popped | pop a client | 27-32 |
| chair, call, cut, finish, ready | chair, the client's semaphore, haircut, release | 34-45 |
| room, haircuts, nap, room_again, haircuts_again | the tests of the loop | 47-52 |
| home, failed | gone; `failed` when the client's semaphore was not there | 55, 66-69 |

Two tests joined by `&&` are two actions: another process may move between them.
`push` and `pop` are cut in two (the array, then the length; what is read, then
what is dropped), so that the models with the mutex taken away do show what it
is for. A sleep is a step that takes as long as it likes.

The one place where time matters is the hairdresser's nap (`sleep(TIMEOUT)`, 10
seconds, when client follows client after one second): if it could end at once,
a hairdresser could leave between two clients. `TimedSalon` therefore lets a nap
end only when, since it began, one more client was forked (or none is left) and
that client, as well as all those running then, has come to a point where it
blocks or exits. Nothing else is assumed about time; haircuts take as long as
they like.

### 2.2 Chat

`queues[p]` is the queue of process `p`, oldest message first. `msgsnd` blocks
while it is full and fails when it was removed; `msgrcv` takes the oldest
message of a type or, as the server does with `-6`, the oldest of the lowest
type. The server is a record: where it is, the message it works on, and the
counter of the loop it is in. SIGINT is an action of each process, enabled
between any two of its system calls, that leads to the handler. What messages
say is left out, except whether INIT was granted. A client that is started again
is another client. `srv` is reset between two messages, when its variables are
dead.

A process stands for the id of its queue, and two values that the code does not keep
apart from ids are not kept apart here:

* A user may type any id after INIT (`client.c` 84-86), and the client takes it for
  the server's from then on: `server_id[c]` is any of `Hosts`, a client's own id
  among them. Such a client reads its own INIT, or another's, as the answer, and is
  connected without a slot; one that asked another client may wait for ever. `named`
  are the clients whose id somebody typed so.
* 0 is an empty slot of `client_list` (`server.c` 27, 49), and `msgget` may return
  it: `Free` may be one of the clients. That client is told it is connected while
  its slot stays free.

`Ordinary` are the clients that are neither. What the properties of the slots and of
the answers say is not true of the others, as their comments say. `Nobody` is -1, or
an id that is no queue's: to send there fails (`NoQueue`), and the client goes on to
the next line.

A user's line and the message it leads to are two steps (`Command`, then
`SendInit`, `SendList`, `SendToAll`, `SendToOne`): from the first on the client is
bound to send, and blocks while the queue is full. STOP calls the handler as a
function: SIGINT, masked in the handler of a signal, may then still come before
`RemoveQueue` and between it and `Exit`, and run the handler again.

### 2.3 MqChat

A queue is known by its name. `Init` gives clients any names, equal ones too:
`rand_char` seeds with the time, so that clients started in the same second have
the same name and read the same queue. `handle_init` writes the *server's* name
into `client_list`, and so does the model; the variable `recipient` of
`handle_list` is then read without having been written, and `Recipients` lets
it be no descriptor at all or any that is open. A user's command and its
`mq_send` are one step, as a user waiting in `mq_send` does nothing that others
could see. 2ALL and 2ONE are one action since the client sends both with the
priority of the former.

### 2.4 Life

`grids` are the two grids, `foreground` says which one is drawn; the main thread
is drawing, sleeping or in the loops of `update_grid_using_threads`, at the cell
`next`. `pending[c]` is the signal the thread of `c` has pending, `handling[c]`
the grid its handler reads and what it may find there. What `malloc` left in the
second grid is arbitrary. `is_alive` is translated from its loops as a count over
offsets, and `GameOfLife` states the rules over cells that touch; that the two agree
at the edges is one of the theorems.

`usleep` (`life.c` 28) checks nothing, and half a second may be too short:
`SleepEnds` may come while threads are still at work. Such a thread is late. It may
miss its next signal, for SIGUSR1 is not queued twice; and it writes into the grid
the others now read, of which they may find the one or the other state: what a
handler read at the same time as somebody wrote is in `found`, and what it
writes is any of that. `late` is a history, true from a sleep that ended too soon to
one that did not. `Slow` are the cells whose threads may be late, a bound for TLC;
the theorems hold for any. Until somebody is late, generation follows generation.
`GameOfLife` allows the board to be disturbed then, promises nothing while it is, and
demands that the rules are followed again from the grid that is there when the next
sleep ends in time (`Resume`).

### 2.5 Handshake

`pc[s]` is where sender `s` is: about to `sigqueue`, about to `sigsuspend`,
suspended, through with its commands or killed. `pending` is the one `SIGUSR1` the
catcher can have pending, with its sender and operation: what comes while it is
there is dropped, and `sigqueue` to a catcher that is gone is an error nobody
looks at. The catcher's handler is two steps, what it does (`Obey`) and the `kill`
that confirms (`Confirm`), since a sender may be anywhere in between; operation 5
goes through `finish` and `Exit`. A sender takes a confirmation while it is
suspended (`Confirmation`) or just before (`EarlyConfirmation`, whose handler
does nothing). SIGINT kills where it is not blocked; it is blocked in the
catcher's handlers and in the sender's `sigsuspend`. `obeyed`, `early` and `lost`
are histories.

### 2.6 Signals

One module for four small programs that meet the same rules of the system, which
its first part states: dispositions, masks and pending signals of each process,
what `fork` and `execl` keep of them, when a signal is dropped, what it interrupts,
what a parent is sent when a child stops or ends. A process goes on only when no
signal is left for it to handle, which is what makes `raise` synchronous.
`option` chooses the program and, of `inherit.c`, its argument. A sleep lasts as
long as it likes. `sa_flags`, which `test_nocldstop` leaves as they were in
memory, are any of the four flags that make a difference. `i` is the last child
made, `missed` a history: the parent's signal to the child of `test_siginfo`
came before it was in `pause`.

### 2.7 Integral

`fifo` says which of the two programs it is (`zad2` has a pipe and no FIFO) and
whether the name still exists. A result is the number of its process; the sum is
how often each result went into it, so that one added twice, or never, shows.
`buffer` holds `CAPACITY` results. `writers` are those who can write, or wait in
`open` to do so: in `zad2` the parent is one of them for ever. `Read` and
`ReadNothing` are the two outcomes of `read`; at the end of the file both programs
add `sol_buff`, which still holds the last result.

### 2.8 Search

A process is known by the directory it searches, `proc[d]` is where it is. A file
is a few bytes, each TRUE when it is the one the string has there; `string_buff`
keeps what a shorter file does not overwrite. `todo[d]` is what `readdir` has
still to return, in any order. The break out of the inherited loops is the step
to `wait`, where every process waits for its own children and then exits, which
writes what stdio holds. What cannot be opened is fixed at the start; forks fail,
and so may `getcwd` of a path of 255 bytes.

## 3. What the runs check

| run | instance | it shows |
|-----|----------|----------|
| `salon` | 2 hairdressers, 4 clients, 1 chair, 1 seat | semaphores balance, a pop finds its client, nobody is served twice or while away, nobody stops but to wait, everybody waits only in a deserted salon, exactly the semaphores of those turned away are left behind, the salon implements `Barbershop` |
| `salon_timed` | 2 hairdressers, 3 clients, 1 seat, naps as in the code | everybody admitted is shorn, nobody is left when the last hairdresser leaves |
| `salon_never_finishes` | 2 hairdressers, 2 clients, naps as in the code | **violated**: a hairdresser may wait for ever for the haircut the other took |
| `chat` | 2 clients, 2 slots, queues of 2, users who type the server's own id after 2ONE, SIGINT to one client | LIST and INIT are answered and slots are freed, unless the server was told to close, is stuck on a full queue or sends to itself |
| `chat_slots` | 3 clients, one of them with the id 0, 1 slot, queues of 2, a client's id typed after INIT, SIGINT to the server and that client | of `Ordinary` clients: nobody has two slots, slots and flags agree, only listed ones are handled, answers meet their requests, though both sides block; an idle server keeps nobody waiting that asked it; a slot is lost only by a client that did not know of it |
| `server_never_closes` | 1 client, SIGINT to the server | **violated**: the server may wait for ever for a STOP that was thrown away |
| `mq_chat` | 3 clients with any names, 2 slots, queues of 2, 6 commands | the connected have slots, no request to connect is lost, all read the same conversation |
| `life` | 2 x 2 cells, every first grid, one thread that may be late | no grid is read while written, and the rules are followed, until somebody is late; and again once a sleep ends in time |
| `handshake` | 2 senders of 2 commands, SIGINT for one of them and for the catcher | no command is skipped or obeyed twice; who waits for ever does so for one of three reasons; all others come to their end; the time goes on being printed |
| `integral` | up to 4 processes, a pipe for 3 results, both programs | the sum is right unless a read met the end of the file; children are lost only then; there are two deadlocks and no other; in all else the parent ends |
| `search` | 3 directories, 3 files of any two bytes, what may fail failing | every match is printed, once, before its process is gone; a false match is a prefix completed by another file; nobody hangs |
| `signals` | four options of `inherit.c`, `sigaction.c` with 2 children in each half | ignored signals and masks are inherited, handlers by children, and what is pending by `execl` only; every process dies of what the test has in store; everybody waits only when the sleep was too short; in all else the programs end |

Bounds, and why they are enough:

* Salon: `N` and `WAITING_ROOM` are 1 so that both run out; two hairdressers are
  the fewest that can get in each other's way, three clients the fewest for one
  to be cut, one to sit and one to come in, and with a fourth one is turned
  away while two are on their way. Clients and hairdressers are symmetric in the
  safety run only. The array has a place for every client, as
  in the code (20 clients, 1024 places): this is an assumption of the module.
  The theorems need no bounds.
* Chat: `MaxCommands` bounds what each user types (two messages: one to connect, one
  to use it; three for one user in `chat`); STOP
  is not counted. Users who type for ever could starve LIST and STOP, which the server
  takes after everything else: the bound excludes that, and the comments say so. Queues
  of 2 make both sides block. `Hosts` and `Recipients` are the ids that may be
  typed after INIT and 2ONE: those that matter are the server's own after 2ONE, and a
  client's after INIT. `Interrupted` are the processes SIGINT may reach. One slot
  for three clients makes the server refuse; two for two let both be connected and
  broadcast to each other.
* MqChat: two slots for three clients, so that one is refused; six commands in
  all, enough to connect everybody and to fill a queue that nobody reads.
* Life: on a board of 2 x 2 every cell is next to every other, so that a late
  thread writes under the eyes of all; every one of the 16 grids comes first. The second
  grid starts all alive. One thread may be late (`Slow`). That the code counts
  rightly at edges and corners, on boards of every size, is the lemma `IsAliveLivesOn`.
* Handshake: two senders, the fewest whose signals can meet, and two commands, so
  that one comes after another; an operation that prints, 4 and 5, which are
  special, and 6, which is none.
* Integral: more processes than the pipe holds results, and fewer. In the code
  the pipe holds 8192.
* Search: a directory in a directory, so that a child has children; two files in
  one directory, so that one leaves its end to the other.
* Signals: `N` is 2 where the code has 5; two are enough for a child's end to
  come while the parent waits for the next to stop.

Deadlocks: the salon, the life, the integrals, the search and the signals are checked
for them. All but the life come to rest: then `Stopped`, a disjunct of `Next` that
changes nothing, is enabled. Its guard says that each process is gone
or blocked in a system call, and names the call and what it waits for; a process
that is nowhere of the kind and cannot move is an error TLC reports. What `Stopped`
may look like is a property of its own: `StuckOnlyWhenDeserted`, `OnlyTwoDeadlocks`,
`OnlySleepTooShort`; in `Search` every process is gone. `CHECK_DEADLOCK FALSE` stands
where users have typed all they may (`MaxCommands` is a bound, not the code's): both
chats, where `RequestsAnswered` and `SlotFreed` name what clients of the first may
wait for, and the handshake, where `WaitsForEverOnlyIf` does; and in the timed salon, which
stops when it is closed, or with a hairdresser that waits (`SalonFinishes`).

Fairness: `TimedSpec` has `WF(TimedNext)`, the machine runs as long as something can
run; no process is favoured. In `Chat`, `FairSpec` has weak fairness of the server and
of every client by itself: the scheduler runs every process that is not blocked. A user
types nothing but Enter under fairness: `EnterNothing` is what makes a client come round
to its loop again. SIGINT and commands are never fair: nobody has to press keys. So
`RequestsAnswered` and `SlotFreed` need their excuses: a server in the middle of a
`msgsnd` that blocks for good (`ServerStuck`), one that passes a message to itself on
and on (`SendsToItself`), or one that closes. In `Handshake` every process that is not
blocked runs, a pending signal is handled and an alarm rings; in `Integral` parent and
children are fair each by itself; in `Signals`, where nothing goes on for ever,
`WF(Next)` is enough, and a sleep comes to its end. `Search` is checked for safety and
deadlocks only.

### What goes wrong

The violated runs: `client.c` of `cw06/zad1` looks for a STOP and then prints
everything in its queue. A STOP that arrives in between is printed, and the server
waits for ever for the answer to it (`ServerCloses`). And with two hairdressers,
one may see a haircut announced, go back to wait for it and find that the other has taken
it (`hairdresser.c` 47): no more come, and `hair_salon` never clears up
(`SalonFinishes`).

The properties of the other runs name, in what they exclude, more that goes wrong:

* A client of `cw06/zad1` waits for its answer, or keeps its slot, for ever when the
  server blocks on a full queue, its own or that of a client which waits itself, and
  when somebody sends a message to the server's own id, which `server.c` 83 then passes
  on to itself for ever, before LIST and STOP (`RequestsAnswered`, `SlotFreed`). It is
  connected without a slot when its id was typed after INIT or is 0 (`Ordinary`).
* A thread of `life.c` that takes longer than the sleep spoils a generation (`late`).
* A sender hangs, and not even Control-C ends it, when the confirmation comes
  before `sigsuspend`, when its signal meets another's, or when the catcher is
  gone (`WaitsForEverOnlyIf`).
* `sigaction.c` hangs when the child is slower than its parent's second of sleep
  (`ProgramsEnd`).
* `integral.c` hangs with more processes than the pipe holds results, and when a
  fork fails, for it keeps its own end of the pipe open; `integral2.c` hangs when
  no child gets to the FIFO, and adds results twice when children are slow
  (`ParentEnds`, `SolutionIsSum`).
* `search.c` prints files that do not begin with the string
  (`FalseMatchIsPrefix`).

And three that no property is about, since they need no particular order of events:

* A hairdresser gives back a seat when any haircut begins (`hairdresser.c` 24),
  whether or not its client sat: more clients wait than `WAITING_ROOM` allows.
* raport2.txt (line 4) says of `cw04/zad1` that `execl` keeps handlers, as it keeps ignored
  signals. It resets them (`Exec`). `inherit.c` never calls `execl` with the
  option `handler`, so that no run of the program, or of the model, shows it:
  `InheritanceAsShown` is about the other lines of the report only.
* `fill_message` overwrites the name that `handle_init` of `cw06/zad2/server.c`
  copies on the next line (112-113): no client is listed under its own name, and
  `handle_list` sends its answer wherever an uninitialised variable points.

## 4. What is proved

The proofs hold for any number of clients, hairdressers, chairs and seats, for boards of
any size, for any number of slots, names and commands, queues of any length, any ids
typed and SIGINT anywhere, any threads that are late, any senders, any number of
children, any number of processes over any pipe, and any tree of directories. They rest
on the assumptions of the modules, which TLC evaluates in the runs:

| assumption | says |
|---|---|
| `SalonAssumption`, `QueueAssumption` | finite sets of processes; a place in the array for every client; -1 is no pid |
| `TimedAssumption` | a hairdresser and a seat to wait on (6 in the code); only for `LastOneAlwaysLocksUp`, which fails without them |
| `ChatAssumption` | no client has the server's id; -1 is no id; there is a slot. A client may have the id 0 of an empty slot |
| `MqChatAssumption`, `QueueSizeAssumption` | names differ from the server's and from a free slot; there is a slot; queues hold something |
| `LifeAssumption`, `BoundsAssumption` | a board with a cell; what memory held is a grid; who may be late is a cell |
| `HandshakeAssumption` | the catcher is no sender; `NoSignal` is no signal |
| `SignalsAssumption` | a child in each half of `test_nocldstop` (5 in the code) |
| `IntegralAssumption` | a pipe holds a result |
| `SearchAssumption` | directories are a tree: an entry is in one directory, and `Root` in none |

* `SalonProofs`. `TypeCorrect`; then `Accounts`, five equations between
  semaphores and the numbers of processes at some labels. None is inductive
  alone: the length of the queue ties `HaircutsCounted` to
  `HairdressersPromised`, and the pop that keeps both needs a client to be
  there, which follows from the first together with mutual exclusion. The lemma
  `CountStep` says how a set of processes at some labels grows or shrinks when
  one process moves; each action is a case of it. Out of `Accounts` come
  `PopAlwaysFindsClient`, `ChairsAlwaysAccounted`, `HairdressersAlwaysPromised`
  and `SeatsNeverLost`.
  - *What is left behind.* A client has its semaphore from `ask` to `leave`
    (`MutexWhileInside`), and the salon closes when all are gone:
    `OnlyTurnedAwayEverLeak`.
  - *Who is served.* Mutual exclusion of `push` and `pop` (`QueueAlwaysExclusive`)
    from the account of the mutex; then `Service`: where the line lies in the
    array (`LineInPlace`, with the half-done push and pop), that those in line
    wait, once each (`LineWaits`), that the semaphore of a client not yet in line
    is untouched (`MutexFresh`), and `ServesWaitingClient` itself. `LineInPlace`
    bounds the head by the clients that came in, so `HeadAlwaysInBounds`, though
    `pop` never wraps it round. The other way round, `NobodyEverForgotten`: who is
    counted in and not released is in the line or with a hairdresser.
  - *The barbershop.* `SalonImplementsBarbershop`: under the mapping of `Salon` (the
    line is the contents of the array, a hairdresser serves from the end of `pop`
    to the release of the client's semaphore), the second half of `push` is `Join`,
    the second half of `pop` is `Take`, releasing the client is `Finish`, and all
    else stutters.
  - *The last one locks up.* `LastToKnow`: when every hairdresser is past its first
    look round, either everybody is gone, or one of them has yet to look at
    `sem_haircuts` (or `sem_wait`) which will send it back, or one naps until there
    is something to see (`Watches`). Whoever falls asleep last watches. A client
    that comes in while all are off is one the nap expects; it ends up in a seat,
    in front of a full room, or announced, and each of these is seen. A nap that
    ends with everybody blocked and nobody expected leaves nobody inside, or
    haircuts announced: by `HairdressersPromised` a client blocked in the waiting
    room means that all hairdressers are promised to clients in the line, and by
    `NobodyForgotten` one blocked on its own semaphore is in the line
    (`SettledIsAnnounced`). `RoomInv` is needed because the seats given back twice
    could hide the one that is taken. So `LastOneAlwaysLocksUp`, for every number
    of hairdressers.
  - *Everybody waits.* `NeverWaitOnEachOther`: suppose every process is gone or
    blocked in `semop`. Then nobody is inside the mutexes, and by `Accounts` they are
    free, so nobody waits for them. A hairdresser that sleeps on `sem_haircuts` means that
    no haircut is announced, hence the line is empty, hence every hairdresser is free,
    and nobody is blocked on `sem_hairdresser`; and by `NobodyForgotten` a client on its own
    semaphore would be in the line. That no hairdresser has exited instead is
    `NobodyEverFails`. It is the invariant `StuckOnlyWhenDeserted` of the runs.
* `LifeProofs`. `CountIsLivingAround`, by a bijection between offsets and the
  cells that touch, and from it `IsAliveLivesOn`: the code's rules are the
  game's, at the edges too. `Inv` says, unless somebody was late, that a cell not yet
  signalled has its thread idle, and that what a handler found, and what was
  written, is what the source grid says; of the rest only types are left (`LateInv`), and
  a sleep that ends with no thread at work makes all of it true again, since nobody
  is handling and every cell is yet to be signalled (`SleepEndsInv`). From it
  `GridsNeverReadAndWritten` and `LifeImplementsGameOfLife`, for any set of threads that
  may be late: the write of the last cell is the step to the next generation, a
  sleep that ends too soon and what follows it disturb the board, and one that ends in
  time resumes play.
* `ChatProofs` and `MqChatProofs` begin with what is true of queues of any length: the
  message taken is the oldest of its type and was there, what is left was there
  before, in order (`RemoveAtElements`); and, by counting positions, that sending adds
  one message of a kind and taking removes one (`AppendElements`, `RemoveAtCounts`).
* `ChatProofs`. `Inv` follows what a client has under way. The flow of messages is
  followed for clients nobody has named as a server (`Unnamed`), slots for the
  `Ordinary` ones. `HostInv`: whom a client takes for the server was named, is the server
  or nobody. `FlowInv`: of requests in the server's queue, in its hands, and answers in
  the client's queue there is at most one for INIT and one for LIST; exactly one while
  the client waits for the server and the server is up, none when the client is about
  something else or asked another. `SlotInv`: who still asks has no slot, so that no client
  gets two; who has a slot knows it, or will (`Accepted`); who is connected, or will be,
  has a slot. `StopInv`: a STOP in the server's queue is that of a client that leaves or that
  the server dismissed, and when the server comes to it nothing else of that client is
  there (`LastWord`, as STOP is the type taken last). `TalkInv`, that what the server has
  to pass on comes from listed clients, needs the last word, and `SlotInv` needs the flow.
  `ConnectedAlwaysListed`, `HandlesOnlyTheListed` and `AnswersMeetRequests` are
  read off it; all three with SIGINT between any two calls, any id typed, and queues
  so short that both sides block. So are two more. `IdleServerNeverKeeps`: by the flow,
  what a client asked the server is not with a server that has nothing to read, so the
  answer is in the client's own queue. It says no more than that: of a server that is
  not idle, `RequestsAnswered` speaks, which is checked only. `SlotOnlyLostUnaware`: a client
  that knows it is connected goes through the handler, and if the server's queue is full
  waits until it can send its STOP; from there on the STOP is in that queue or in the
  server's hands until the slot is freed (`OwedInv`). What remains is the client that
  SIGINT found before the answer to INIT.
* `MqChatProofs`. A client connects on any message but a refusal, so `Inv` says that
  nothing else reaches a queue without a slot: neither what is in it nor what the
  server is about to send. For the answer to LIST, whose way is arbitrary, that is
  because descriptors are open for slots only; and since such an answer may come
  back to the server itself, `OwnMessages` says that it is the only kind that does:
  `ConnectedAlwaysListed`. `InitAlwaysUnderWay`: of a client whose name is its own,
  what it is to be told is taken by nobody else, and the server answers an INIT at
  once (`WaitInv`). `SameConversationForAll`: lines are numbered as they are typed.
  `LineInv` says that those given to the server are in order and younger than the
  one it hands out, which is younger than all handed out before; that the first
  slots have got that one, and the others not; and that of two queues listed once,
  a line which waits in one and not in the other is older than all of the other.
* `SearchProofs`. `Seen(d)`, what `readdir` has returned, only grows. A process holds
  back one file, from `fprintf` to `fflush`, and nothing when it forks, so nothing is
  printed twice (`HeldInv`, `PrintInv`): `NothingPrintedTwice`. What is in
  `string_buff` comes from files the process has seen (`BuffInv`), all of its own
  directory, since every process has a buffer of its own; hence
  `FalseMatchesArePrefixes`. `SearchInv` follows what was
  seen until it is printed or forked, and `ForkInv`, that a directory has one process,
  needs that it has one parent: `GoneHasSearched`. `SearchNeverHangs`: a process
  waits for children deeper in the tree only (`DepthInv`), so of those left the
  deepest, which exists by the well-foundedness of the naturals (`LeastNat`), waits
  for nobody, and whoever waits for nobody can go on (`CanGoOn`).
* `HandshakeProofs`. The properties speak of senders that wait or went on; `Inv`
  follows the one command each of them has under way (`CommandInv`): pending at the
  catcher, obeyed by its handler, confirmed, or astray, and then for one of three
  reasons. `CatcherInv` says that the catcher works on a signal in its handler only
  and takes none when it is gone; by `OthersMove` a step of one sender leaves the
  commands of the others where they are. `CommandsNeverSkipped` and
  `WaitsForEverForAReason` follow, and `WaitsLastForEver` by a case for each action
  that could have brought the confirmation. `SendersNeverStuck`: a command on its way
  is with a catcher that can go on, so when nobody can, every sender is at its end or
  waits for one of the three reasons. `AlarmChainUnbroken` is
  inductive by itself: in mode 4 an alarm is on its way or pending, since the handler
  sets the next one before it is done, and a mode that comes sets one of its own.
* `SignalsProofs`. In `inherit.c` what the option asked for, SIGUSR1 ignored, handled or
  blocked, holds in whoever may still raise it (`Unharmed`), through `fork` and `execl`,
  and what is pending stays with its process (`Lasting`): `AlwaysInheritsAsShown`.
  Handlers are kept through `fork` only, and the invariant needs that the program with a
  handler never gets to `execl`. In `sigaction.c` each test has an invariant of its own.
  In `test_siginfo` the parent handles every signal and leaves no child behind
  (`SiginfoInv`). In `test_nocldstop` it is sent nothing but SIGCHLD, of the last child,
  which stopped, or of the end of an older one (`NocldstopInv`); children before the
  last are killed (`ChildrenInv`). In `test_resethand` the second SIGINT meets the
  default (`ResethandInv`). Hence `AlwaysDiesAsTested`, for any number of children.
  `OnlyTheSleepDeadlocks` needs two more: which processes run is told by where they are
  (`RunsInv`), and the child of `test_siginfo` has counted its own signal and, unless it
  was `missed`, its parent's (`CountInv`). A parent that waits has then a child that can
  go on, or one that ended and can be waited for; only a child in `pause` whose parent's
  signal came too early cannot.
* `IntegralProofs`. `PipeInv`: what is in the pipe was written, once, and not read
  yet. `SumInv`: what was added was written, and as long as no read met the end of
  the file, as many different results were added as `read` was called. So after
  `process_count` reads the sum has that many of `process_count` results, which is
  all of them (`AllOfThem`, on cardinalities): `SolutionAlwaysSum`. And whoever has
  not written when the parent stops reading can be late after an end of file only
  (`LateOnlyAfterEOF`): `LostOnlyByEOF`. `CountInv` and `OpenInv` say which children
  there are and when the pipe is open. `NoOtherDeadlock`: a child blocked in `write`
  means that the pipe is full of results of others, and so that there are more processes
  than it holds; a parent blocked in `read` of an empty pipe has a writer that is
  not blocked, or is the writer itself and waits for a child never forked
  (`WritersInv` says who the writers are).

Only model-checked:

* Liveness: `AdmittedIsShorn`, `RequestsAnswered`, `SlotFreed`,
  `SendersComeToAnEnd`, `TimeIsPrinted`, `ParentEnds`, `ProgramsEnd`; the prover does
  not reason about fairness. `AlarmChainUnbroken` is the safety half of
  `TimeIsPrinted`, `SendersNeverStuck` of `SendersComeToAnEnd`, `NoOtherDeadlock` of
  `ParentEnds`, `OnlyTheSleepDeadlocks` of `ProgramsEnd`.
* That a step is enabled unless the guard of `Stopped` holds: this is TLC's check for
  deadlocks, and says ENABLED, which the prover does not know. What the guard means is
  proved, for the salon, the signals, the integrals and the search.

## 5. What is not modelled

* `handle_stop` and `handle_to_one` of `cw06/zad2`: no client sends anything that
  leads there. A server killed and started again.
* `update_grid` of `grid.c`, which nothing calls, and `end_threads`, which is
  never reached; `draw_grid` is a step without effect.
* `log_message` of both servers, and the wording of everything.
* Keys: `ftok` collisions; `rand() % 255` in `cw06/zad1/client.c`, by which two clients,
  or a client and the server, may come to share a queue; semaphores that outlive a
  killed salon. `fork` and `execl` are taken to succeed in `cw07` (in `cw03` to `cw05`
  they may fail); so are `mkfifo`, `open` and `read` in `integral2.c` (35-37, 49,
  52-54), of which the end of the file is modelled and errors are not.
* What is printed by the programs of `cw04`; `kill(-1, SIGUSR1)` in `sigaction.c` when
  `fork` failed, as far as it reaches processes of others; the integral itself.
* Links to directories, and the descriptors that `search.c` leaves open after
  every empty file.
* The parts listed as `not_modelled` in `PROJECT.json`: `cw01` and `cw02`, which are
  sequential and handle files or a table; `cw03/zad1`, `zad2`, which fork and print;
  `mail.c`, which is not finished; and the warm-ups.

## 6. Plan

What is left to model is an algorithm: the table of blocks of `cw01` (create,
delete, free) against an abstract table, and the keys by which the programs of
`cw07` find each other.

Every invariant, every action property and both refinements of the passing runs are
proved.
Theorems worth adding: the operators of `HaircutQueue` against a sequence, apart from
the salon; and, for the salon without `TimedSpec`, how many clients a nap that is too short
leaves behind.
