-------------------------------- MODULE Life --------------------------------
(***************************************************************************)
(* The game of life of cw08/zad1: life.c keeps two grids, draws one and    *)
(* has the threads of grid.c, one per cell, compute the other.  A thread   *)
(* does nothing but handle SIGUSR1, whose value carries the two grids and  *)
(* the cell.                                                               *)
(*                                                                         *)
(* The main thread waits for nobody: it sends its signals, swaps the       *)
(* grids, draws and sleeps for half a second, which may be too short: a    *)
(* thread that is late misses its next signal, and writes into the grid    *)
(* that the others read.                                                   *)
(*                                                                         *)
(* The definitions marked (wrong) are mistakes the code does not make: put *)
(* in place of the definition they precede, each breaks a property below.  *)
(***************************************************************************)
EXTENDS Integers, FiniteSets

CONSTANTS grid_height, grid_width,   \* 30 and 30 in the code
          Malloced,   \* bound: what the second grid may hold to begin with
          Slow        \* bound: the cells whose threads may be late

ASSUME LifeAssumption == /\ grid_height \in Nat \ {0}
                         /\ grid_width \in Nat \ {0}

Cell == (0 .. grid_height - 1) \X (0 .. grid_width - 1)
Grid == [Cell -> BOOLEAN]

ASSUME BoundsAssumption == Malloced \subseteq Grid /\ Slow \subseteq Cell

Buffer == {1, 2}
Other(b) == 3 - b
None == 0

VARIABLES
    grids,       \* the two grids
    foreground,  \* which of them is drawn
    at,          \* the main thread: "draw", "sleep" or "update"
    next,        \* <<i, j>>, the cell it sends the next signal to
    pending,     \* the grid named by the signal each thread has pending
    handling,    \* the grid each thread's handler reads, and what it may find
    late         \* history: somebody was late when the last sleep ended

vars == <<grids, foreground, at, next, pending, handling, late>>

Idle == [src |-> None, found |-> {}]
Last == <<grid_height, 0>>    \* next, when the loop is over

-----------------------------------------------------------------------------
(* grid.c *)

\* The neighbours the two loops of is_alive meet, as offsets.
Offset == {o \in (-1 .. 1) \X (-1 .. 1) : o # <<0, 0>>}
Shift(c, o) == <<c[1] + o[1], c[2] + o[2]>>

\* (wrong) The cell itself is counted.
CountsItself(c, g) ==
    Cardinality({o \in (-1 .. 1) \X (-1 .. 1) : /\ Shift(c, o) \in Cell
                                                /\ g[Shift(c, o)]})

\* Cells past the edges are passed over.
count(c, g) ==
    Cardinality({o \in Offset : Shift(c, o) \in Cell /\ g[Shift(c, o)]})

is_alive(c, g) == IF g[c] THEN count(c, g) = 2 \/ count(c, g) = 3
                          ELSE count(c, g) = 3

\* pthread_sigqueue: SIGUSR1 is not queued twice, so a signal to a thread that
\* has one pending is lost.
pthread_sigqueue(c, src) ==
    pending' = IF pending[c] = None THEN [pending EXCEPT ![c] = src]
                                    ELSE pending

\* The handler of a thread starts, with SIGUSR1 blocked, and reads its cells.
HandleUpdate(c) ==
    /\ pending[c] # None /\ handling[c].src = None
    /\ pending' = [pending EXCEPT ![c] = None]
    /\ handling' = [handling EXCEPT
          ![c] = [src |-> pending[c], found |-> {is_alive(c, grids[pending[c]])}]]
    /\ UNCHANGED <<grids, foreground, at, next, late>>

\* It writes its own cell of the other grid and returns.  The cells are read one
\* by one: whoever is reading that grid may find either.
WriteCell(c) ==
    LET dst == Other(handling[c].src)
    IN  /\ handling[c].src # None
        /\ \E alive \in handling[c].found :
              grids' = [grids EXCEPT ![dst][c] = alive]
        /\ handling' = [d \in Cell |->
              IF d = c THEN Idle
              ELSE IF handling[d].src = dst THEN [src |-> dst, found |-> BOOLEAN]
              ELSE handling[d]]
        /\ UNCHANGED <<foreground, at, next, pending, late>>

-----------------------------------------------------------------------------
(* life.c *)

Init ==
    /\ \E g \in Grid, m \in Malloced : grids = [b \in Buffer |->
                                                   IF b = 1 THEN g ELSE m]
    /\ foreground = 1
    /\ at = "draw"
    /\ next = Last
    /\ pending = [c \in Cell |-> None]
    /\ handling = [c \in Cell |-> Idle]
    /\ late = FALSE

Draw ==
    /\ at = "draw" /\ at' = "sleep"
    /\ UNCHANGED <<grids, foreground, next, pending, handling, late>>

AtWork == {c \in Cell : pending[c] # None \/ handling[c] # Idle}

\* usleep(500 * 1000) waits for nobody.
SleepEnds ==
    /\ at = "sleep" /\ at' = "update"
    /\ AtWork \subseteq Slow
    /\ late' = (AtWork # {})
    /\ next' = <<0, 0>>
    /\ UNCHANGED <<grids, foreground, pending, handling>>

\* update_grid_using_threads, one round of its loops.
SignalCell ==
    /\ at = "update" /\ next \in Cell
    /\ pthread_sigqueue(next, foreground)
    /\ next' = IF next[2] + 1 < grid_width THEN <<next[1], next[2] + 1>>
                                           ELSE <<next[1] + 1, 0>>
    /\ UNCHANGED <<grids, foreground, at, handling, late>>

\* (wrong) The grids are not swapped.
SwapNothing ==
    /\ at = "update" /\ next = Last
    /\ at' = "draw"
    /\ UNCHANGED <<grids, foreground, next, pending, handling, late>>

SwapGrids ==
    /\ at = "update" /\ next = Last
    /\ foreground' = Other(foreground)
    /\ at' = "draw"
    /\ UNCHANGED <<grids, next, pending, handling, late>>

ThreadStep(c) == HandleUpdate(c) \/ WriteCell(c)

MainStep == Draw \/ SleepEnds \/ SignalCell \/ SwapGrids

Next == MainStep \/ \E c \in Cell : ThreadStep(c)

Spec == Init /\ [][Next]_vars

-----------------------------------------------------------------------------
(* Properties *)

\* The type of every variable.
TypeOK ==
    /\ grids \in [Buffer -> Grid]
    /\ foreground \in Buffer
    /\ at \in {"draw", "sleep", "update"}
    /\ next \in Cell \cup {Last}
    /\ pending \in [Cell -> Buffer \cup {None}]
    /\ handling \in [Cell -> [src : Buffer \cup {None}, found : SUBSET BOOLEAN]]
    /\ late \in BOOLEAN

\* The grid being computed, or that was computed last, and the one it is
\* computed from.
Target == IF at = "update" THEN Other(foreground) ELSE foreground
Source == Other(Target)

\* The cells whose signal was sent, and those that were written since.
Signalled(c) == \/ c[1] < next[1]
                \/ c[1] = next[1] /\ c[2] < next[2]
Written(c) == Signalled(c) /\ pending[c] = None /\ handling[c] = Idle

\* Unless somebody was late, no handler reads a grid that another one, or its
\* own write, may change (grid.c 115): they all read the same grid, and it is
\* not their target.
NoReadOfWrittenGrid ==
    ~late => \A c \in Cell : /\ pending[c] \in {None, Source}
                             /\ handling[c].src \in {None, Source}

\* What the program shows when nobody writes: the target when the last cell was
\* written, the source until then.
Generation == IF \A c \in Cell : Written(c) THEN grids[Target]
                                            ELSE grids[Source]

Game == INSTANCE GameOfLife WITH generation <- Generation, disturbed <- late

\* The threads play the game of life: however they interleave with each other
\* and with the main thread, the grids go from generation to generation.  A
\* thread that is late disturbs the game (it misses a signal, and writes cells
\* of the wrong grid under the others' eyes, grid.c 166, life.c 28), but only
\* until a sleep ends in time: then play goes on from the grid there is.
ImplementsGameOfLife == Game!Spec
=============================================================================
