------------------------------ MODULE LifeProofs ------------------------------
(* Theorems about the game of life, for grids of every size and whatever the *)
(* second grid holds to begin with, and whoever is late.                     *)
EXTENDS Life, FiniteSetTheorems, TLAPS

(* The rules *)

\* There are eight neighbours, finitely many at any rate.
LEMMA OffsetsFinite == IsFiniteSet(Offset)
  <1>0. -1 \in Int /\ 1 \in Int
    OBVIOUS
  <1>1. IsFiniteSet(-1 .. 1)
    BY <1>0, FS_Interval
  <1>2. IsFiniteSet((-1 .. 1) \X (-1 .. 1))
    BY <1>1, FS_Product
  <1> QED
    BY <1>2, FS_Subset DEF Offset

\* The loops of is_alive count the living cells that touch a cell, those on
\* the edges of the board included (grid.c 58-77).
LEMMA CountIsLivingAround ==
    ASSUME LifeAssumption, NEW c \in Cell, NEW g \in Grid
    PROVE  count(c, g) = Game!LivingAround(c, g)
  <1> DEFINE S == {o \in Offset : Shift(c, o) \in Cell /\ g[Shift(c, o)]}
             T == {d \in Cell : Game!Adjacent(c, d) /\ g[d]}
             f == [o \in S |-> Shift(c, o)]
  <1>1. c[1] \in Int /\ c[2] \in Int /\ c = <<c[1], c[2]>>
    BY DEF Cell, LifeAssumption
  <1>2. ASSUME NEW o \in S
        PROVE  Shift(c, o) \in T
    <2>1. /\ o[1] \in -1 .. 1 /\ o[2] \in -1 .. 1
          /\ o = <<o[1], o[2]>> /\ o # <<0, 0>>
      BY <1>2 DEF Offset
    <2>2. /\ c[1] - (c[1] + o[1]) \in -1 .. 1
          /\ c[2] - (c[2] + o[2]) \in -1 .. 1
      BY <1>1, <2>1
    <2>3. c[1] + o[1] # c[1] \/ c[2] + o[2] # c[2]
      BY <1>1, <2>1
    <2> QED
      BY <1>1, <1>2, <2>2, <2>3 DEF Game!Adjacent, Shift
  <1>3. ASSUME NEW o \in S, NEW p \in S, Shift(c, o) = Shift(c, p)
        PROVE  o = p
    <2>1. /\ o[1] \in -1 .. 1 /\ o[2] \in -1 .. 1 /\ o = <<o[1], o[2]>>
          /\ p[1] \in -1 .. 1 /\ p[2] \in -1 .. 1 /\ p = <<p[1], p[2]>>
      BY DEF Offset
    <2>2. c[1] + o[1] = c[1] + p[1] /\ c[2] + o[2] = c[2] + p[2]
      BY <1>3 DEF Shift
    <2>3. o[1] = p[1] /\ o[2] = p[2]
      BY <1>1, <2>1, <2>2
    <2> QED
      BY <2>1, <2>3
  <1>4. ASSUME NEW d \in T
        PROVE  \E o \in S : Shift(c, o) = d
    <2> DEFINE o == <<d[1] - c[1], d[2] - c[2]>>
    <2>1. d[1] \in Int /\ d[2] \in Int /\ d = <<d[1], d[2]>> /\ d \in Cell
      BY DEF Cell, LifeAssumption
    <2>2. /\ c # d /\ c[1] - d[1] \in -1 .. 1 /\ c[2] - d[2] \in -1 .. 1
          /\ g[d]
      BY DEF Game!Adjacent
    <2>3. d[1] - c[1] \in -1 .. 1 /\ d[2] - c[2] \in -1 .. 1
      BY <1>1, <2>1, <2>2
    <2>4. d[1] # c[1] \/ d[2] # c[2]
      BY <1>1, <2>1, <2>2
    <2>5. o # <<0, 0>>
      BY <1>1, <2>1, <2>4
    <2>6. o \in Offset
      BY <2>3, <2>5 DEF Offset
    <2>7. c[1] + (d[1] - c[1]) = d[1] /\ c[2] + (d[2] - c[2]) = d[2]
      BY <1>1, <2>1
    <2>8. Shift(c, o) = d
      BY <2>1, <2>7 DEF Shift
    <2> QED
      BY <2>1, <2>2, <2>6, <2>8
  <1>5. f \in Bijection(S, T)
    <2>1. f \in [S -> T]
      BY <1>2
    <2>2. \A o, p \in S : f[o] = f[p] => o = p
      BY <1>3
    <2>3. \A d \in T : \E o \in S : f[o] = d
      BY <1>4
    <2> QED
      BY <2>1, <2>2, <2>3 DEF Bijection, Injection, Surjection, IsInjective
  <1>6. IsFiniteSet(S)
    BY OffsetsFinite, FS_Subset
  <1>7. Cardinality(T) = Cardinality(S)
    BY <1>5, <1>6, FS_Bijection DEF ExistsBijection
  <1>8. Game!Cardinality(T) = Cardinality(T)
    BY DEF Game!Cardinality, Cardinality
  <1> QED
    BY <1>7, <1>8 DEF count, Game!LivingAround

\* is_alive decides as the rules of the game do (grid.c 54-93).
LEMMA IsAliveLivesOn ==
    ASSUME LifeAssumption, NEW c \in Cell, NEW g \in Grid
    PROVE  is_alive(c, g) = Game!LivesOn(c, g)
  <1>1. count(c, g) = Game!LivingAround(c, g)
    BY CountIsLivingAround
  <1>2. g[c] \in BOOLEAN
    BY DEF Grid
  <1> QED
    BY <1>1, <1>2 DEF is_alive, Game!LivesOn

-----------------------------------------------------------------------------
(* The threads *)

\* A thread without a grid to read is idle.
HandlingIdle ==
    \A c \in Cell : handling[c].src = None => handling[c] = Idle

\* Between two updates the loops are over.
LoopsOver == at # "update" => next = Last

\* A cell whose signal is still to be sent has its thread idle.
QuietUntilSignalled ==
    \A c \in Cell : ~Signalled(c) => pending[c] = None /\ handling[c] = Idle

\* What a handler found is what the source says.
HandlersRight ==
    \A c \in Cell :
        handling[c].src # None => handling[c].found = {is_alive(c, grids[Source])}

\* While an update is under way, the cells written are those of the next
\* generation.  (The first grid was computed from nothing.)
CellsRight ==
    (\E c \in Cell : ~Written(c)) =>
        \A c \in Cell :
            Written(c) => grids[Target][c] = is_alive(c, grids[Source])

\* When somebody was late, only the first three are left of it.
Inv == /\ TypeOK
       /\ HandlingIdle
       /\ LoopsOver
       /\ NoReadOfWrittenGrid
       /\ ~late => QuietUntilSignalled /\ HandlersRight /\ CellsRight

\* Rows, columns and the end of the loops, as numbers.
LEMMA Loops ==
    ASSUME LifeAssumption
    PROVE  /\ \A c \in Cell : /\ c[1] \in 0 .. grid_height - 1
                              /\ c[2] \in 0 .. grid_width - 1
                              /\ c = <<c[1], c[2]>>
           /\ \A i, j : <<i, j>> \in Cell <=> /\ i \in 0 .. grid_height - 1
                                              /\ j \in 0 .. grid_width - 1
           /\ Last[1] = grid_height /\ Last[2] = 0
           /\ Last \notin Cell
           /\ grid_height \in Nat \ {0} /\ grid_width \in Nat \ {0}
  BY DEF LifeAssumption, Cell, Last

\* When the loops are over every signal was sent, and when they begin none.
LEMMA LoopEnds ==
    ASSUME LifeAssumption
    PROVE  /\ next = Last => \A c \in Cell : Signalled(c)
           /\ next = <<0, 0>> => \A c \in Cell : ~Signalled(c)
  BY Loops DEF Signalled

\* One round of the loops signals one cell, the next one (grid.c 155-157).
LEMMA LoopStep ==
    ASSUME LifeAssumption, next \in Cell,
           next' = IF next[2] + 1 < grid_width THEN <<next[1], next[2] + 1>>
                                               ELSE <<next[1] + 1, 0>>
    PROVE  /\ next' \in Cell \cup {Last}
           /\ \A c \in Cell : Signalled(c)' <=> Signalled(c) \/ c = next
           /\ ~Signalled(next)
  <1> DEFINE i == next[1]
             j == next[2]
  <1>1. /\ i \in 0 .. grid_height - 1 /\ j \in 0 .. grid_width - 1
        /\ next = <<i, j>>
    BY Loops
  <1>2. grid_height \in Nat \ {0} /\ grid_width \in Nat \ {0}
    BY Loops
  <1>3. CASE j + 1 < grid_width
    <2>1. next' = <<i, j + 1>> /\ next'[1] = i /\ next'[2] = j + 1
      BY <1>3
    <2>2. next' \in Cell
      BY <1>1, <1>2, <1>3, <2>1, Loops
    <2>3. ASSUME NEW c \in Cell
          PROVE  Signalled(c)' <=> Signalled(c) \/ c = next
      <3>1. /\ c[1] \in 0 .. grid_height - 1 /\ c[2] \in 0 .. grid_width - 1
            /\ c = <<c[1], c[2]>>
        BY Loops
      <3>2. c = next <=> c[1] = i /\ c[2] = j
        BY <1>1, <3>1
      <3>3. Signalled(c)' <=> c[1] < i \/ (c[1] = i /\ c[2] < j + 1)
        BY <2>1 DEF Signalled
      <3> HIDE DEF i, j
      <3>4. (c[1] < i \/ (c[1] = i /\ c[2] < j + 1))
              <=> (c[1] < i \/ (c[1] = i /\ c[2] < j))
                    \/ (c[1] = i /\ c[2] = j)
        BY <1>1, <3>1
      <3> QED
        BY <3>2, <3>3, <3>4 DEF Signalled, i, j
    <2> QED
      BY <1>1, <2>2, <2>3 DEF Signalled
  <1>4. CASE ~(j + 1 < grid_width)
    <2>0. j = grid_width - 1
      BY <1>1, <1>2, <1>4
    <2>1. next' = <<i + 1, 0>> /\ next'[1] = i + 1 /\ next'[2] = 0
      BY <1>4
    <2>2. next' \in Cell \cup {Last}
      <3>1. CASE i + 1 = grid_height
        BY <2>1, <3>1 DEF Last
      <3>2. CASE i + 1 # grid_height
        <4>1. i + 1 \in 0 .. grid_height - 1 /\ 0 \in 0 .. grid_width - 1
          BY <1>1, <1>2, <3>2
        <4> QED
          BY <4>1, <2>1, Loops
      <3> QED
        BY <3>1, <3>2
    <2>3. ASSUME NEW c \in Cell
          PROVE  Signalled(c)' <=> Signalled(c) \/ c = next
      <3>1. /\ c[1] \in 0 .. grid_height - 1 /\ c[2] \in 0 .. grid_width - 1
            /\ c = <<c[1], c[2]>>
        BY Loops
      <3>2. c = next <=> c[1] = i /\ c[2] = j
        BY <1>1, <3>1
      <3>3. Signalled(c)' <=> c[1] < i + 1 \/ (c[1] = i + 1 /\ c[2] < 0)
        BY <2>1 DEF Signalled
      <3> HIDE DEF i, j
      <3>4. (c[1] < i + 1 \/ (c[1] = i + 1 /\ c[2] < 0))
              <=> (c[1] < i \/ (c[1] = i /\ c[2] < j))
                    \/ (c[1] = i /\ c[2] = j)
        BY <1>1, <1>2, <2>0, <3>1
      <3> QED
        BY <3>2, <3>3, <3>4 DEF Signalled, i, j
    <2> QED
      BY <1>1, <2>2, <2>3 DEF Signalled
  <1> QED
    BY <1>3, <1>4

-----------------------------------------------------------------------------
(* The invariant *)

\* There are two grids, and the other one of the other one is the first.
LEMMA Buffers ==
    /\ 1 \in Buffer /\ None \notin Buffer
    /\ \A b \in Buffer : /\ Other(b) \in Buffer /\ Other(b) # b
                         /\ Other(Other(b)) = b
  BY DEF Buffer, Other, None

\* The program starts with an idle thread for every cell (life.c 12-23).
LEMMA InitInv ==
    ASSUME LifeAssumption, BoundsAssumption, Init
    PROVE  Inv
  <1>1. TypeOK
    BY Buffers DEF Init, TypeOK, Idle, Buffer
  <1>2. \A c \in Cell : pending[c] = None /\ handling[c] = Idle
    BY DEF Init
  <1>3. \A c \in Cell : Written(c)
    BY <1>2, LoopEnds DEF Init, Written
  <1> QED
    BY <1>1, <1>2, <1>3 DEF Inv, HandlingIdle, LoopsOver, Init, Idle,
          QuietUntilSignalled, NoReadOfWrittenGrid, HandlersRight, CellsRight

\* is_alive is a Boolean, whatever the grid.
LEMMA IsAliveType ==
    ASSUME NEW c \in Cell, NEW g \in Grid
    PROVE  is_alive(c, g) \in BOOLEAN
  BY DEF is_alive, Grid

\* A handler that starts reads the source, which nobody writes (grid.c 115).
LEMMA HandleUpdateInv ==
    ASSUME LifeAssumption, Inv, ~late, NEW c \in Cell, HandleUpdate(c)
    PROVE  Inv'
  <1> DEFINE new == [src |-> pending[c], found |-> {is_alive(c, grids[pending[c]])}]
  <1>1. /\ pending[c] = Source /\ pending[c] \in Buffer
        /\ handling[c].src = None
        /\ pending' = [pending EXCEPT ![c] = None]
        /\ handling' = [handling EXCEPT ![c] = new]
        /\ UNCHANGED <<grids, foreground, at, next, late>>
    BY DEF HandleUpdate, Inv, TypeOK, NoReadOfWrittenGrid
  <1>2. /\ new.src = Source /\ new.found = {is_alive(c, grids[Source])}
        /\ new \in [src : Buffer \cup {None}, found : SUBSET BOOLEAN]
        /\ new # Idle
    BY <1>1, IsAliveType, Buffers DEF Inv, TypeOK, Idle
  <1>3. /\ \A d \in Cell : d # c => /\ pending'[d] = pending[d]
                                    /\ handling'[d] = handling[d]
        /\ pending'[c] = None /\ handling'[c] = new
    BY <1>1 DEF Inv, TypeOK
  <1>4. Source' = Source /\ Target' = Target
    BY <1>1 DEF Source, Target
  <1>5. \A d \in Cell : Signalled(d)' = Signalled(d)
    BY <1>1 DEF Signalled
  <1>6. ~Written(c) /\ ~Written(c)'
    BY <1>1, <1>2, <1>3, Buffers DEF Written
  <1>7. \A d \in Cell : Written(d)' = Written(d)
    BY <1>3, <1>5, <1>6 DEF Written
  <1> HIDE DEF new
  <1>8. TypeOK'
    BY <1>1, <1>2 DEF Inv, TypeOK
  <1>9. HandlingIdle'
    <2>1. new.src # None
      BY <1>1, <1>2, Buffers
    <2>2. \A d \in Cell : d # c => (handling'[d].src = None => handling'[d] = Idle)
      BY <1>3 DEF Inv, HandlingIdle
    <2> QED
      BY <1>3, <2>1, <2>2 DEF HandlingIdle, Idle
  <1>10. QuietUntilSignalled'
    BY <1>1, <1>3, <1>5, Buffers DEF Inv, QuietUntilSignalled
  <1>11. NoReadOfWrittenGrid'
    BY <1>2, <1>3, <1>4 DEF Inv, NoReadOfWrittenGrid
  <1>12. HandlersRight'
    BY <1>1, <1>2, <1>3, <1>4 DEF Inv, HandlersRight
  <1>13. CellsRight'
    BY <1>1, <1>4, <1>7 DEF Inv, CellsRight
  <1> QED
    BY <1>1, <1>8, <1>9, <1>10, <1>11, <1>12, <1>13 DEF Inv, LoopsOver

\* What a handler that ends does to the target, and to nothing else.
LEMMA WriteCellEffect ==
    ASSUME Inv, ~late, NEW c \in Cell, WriteCell(c)
    PROVE  /\ handling[c].src = Source
           /\ grids' \in [Buffer -> Grid]
           /\ grids'[Source] = grids[Source]
           /\ \A d \in Cell : d # c => grids'[Target][d] = grids[Target][d]
           /\ grids'[Target][c] = is_alive(c, grids[Source])
           /\ handling' = [handling EXCEPT ![c] = Idle]
           /\ UNCHANGED <<foreground, at, next, pending, late>>
  <1> DEFINE alive == is_alive(c, grids[Source])
  <1>1. /\ handling[c].src = Source
        /\ handling[c].found = {alive}
    BY DEF WriteCell, Inv, TypeOK, NoReadOfWrittenGrid, HandlersRight
  <1>2. /\ Target \in Buffer /\ Source \in Buffer /\ Source # Target
        /\ Other(Source) = Target /\ Target # None
    BY Buffers DEF Target, Source, Inv, TypeOK
  <1>3. /\ grids' = [grids EXCEPT ![Target][c] = alive]
        /\ alive \in BOOLEAN
    <2>1. alive \in BOOLEAN
      BY <1>2, IsAliveType DEF Inv, TypeOK
    <2> HIDE DEF alive
    <2> QED
      BY <1>1, <1>2, <2>1 DEF WriteCell
  <1>9. handling' = [handling EXCEPT ![c] = Idle]
    <2>1. \A d \in Cell : handling[d].src # Target
      BY <1>2 DEF Inv, NoReadOfWrittenGrid
    <2> QED
      BY <1>1, <1>2, <2>1 DEF WriteCell, Inv, TypeOK
  <1> HIDE DEF alive
  <1>4. grids \in [Buffer -> Grid] /\ grids[Target] \in [Cell -> BOOLEAN]
    BY <1>2 DEF Inv, TypeOK, Grid
  <1>5. grids' = [grids EXCEPT ![Target] =
                      [grids[Target] EXCEPT ![c] = alive]]
    BY <1>3
  <1>6. [grids[Target] EXCEPT ![c] = alive] \in Grid
    BY <1>3, <1>4 DEF Grid
  <1>7. grids' \in [Buffer -> Grid] /\ grids'[Source] = grids[Source]
    BY <1>2, <1>4, <1>5, <1>6
  <1>8. grids'[Target] = [grids[Target] EXCEPT ![c] = alive]
    BY <1>2, <1>4, <1>5
  <1> QED
    BY <1>1, <1>4, <1>7, <1>8, <1>9 DEF WriteCell, alive

\* A handler that ends adds its cell to the next generation (grid.c 115).
LEMMA WriteCellInv ==
    ASSUME LifeAssumption, Inv, ~late, NEW c \in Cell, WriteCell(c)
    PROVE  Inv'
  <1>1. /\ handling[c].src = Source
        /\ grids' \in [Buffer -> Grid]
        /\ grids'[Source] = grids[Source]
        /\ \A d \in Cell : d # c => grids'[Target][d] = grids[Target][d]
        /\ grids'[Target][c] = is_alive(c, grids[Source])
        /\ handling' = [handling EXCEPT ![c] = Idle]
        /\ UNCHANGED <<foreground, at, next, pending, late>>
    BY WriteCellEffect
  <1>2. Source' = Source /\ Target' = Target /\ Source \in Buffer
    BY <1>1, Buffers DEF Source, Target, Inv, TypeOK
  <1>3. /\ \A d \in Cell : d # c => handling'[d] = handling[d]
        /\ handling'[c] = Idle
        /\ Idle \in [src : Buffer \cup {None}, found : SUBSET BOOLEAN]
        /\ Idle.src = None
    BY <1>1 DEF Inv, TypeOK, Idle
  <1>4. \A d \in Cell : Signalled(d)' = Signalled(d)
    BY <1>1 DEF Signalled
  <1>5. ~Written(c)
    BY <1>1, <1>2, <1>3, Buffers DEF Written
  <1>6. \A d \in Cell : d # c => Written(d)' = Written(d)
    BY <1>1, <1>3, <1>4 DEF Written
  <1>7. TypeOK'
    BY <1>1, <1>3 DEF Inv, TypeOK
  <1>8. HandlingIdle'
    BY <1>1, <1>3 DEF Inv, HandlingIdle
  <1>9. QuietUntilSignalled'
    BY <1>1, <1>3, <1>4 DEF Inv, QuietUntilSignalled
  <1>10. NoReadOfWrittenGrid'
    BY <1>1, <1>2, <1>3 DEF Inv, NoReadOfWrittenGrid
  <1>11. HandlersRight'
    BY <1>1, <1>2, <1>3 DEF Inv, HandlersRight
  <1>12. CellsRight'
    BY <1>1, <1>2, <1>5, <1>6 DEF Inv, CellsRight
  <1> QED
    BY <1>1, <1>7, <1>8, <1>9, <1>10, <1>11, <1>12 DEF Inv, LoopsOver

\* A signal is sent to an idle thread and names the source (grid.c 166).
LEMMA SignalCellInv ==
    ASSUME LifeAssumption, Inv, ~late, SignalCell
    PROVE  Inv'
  <1>1. /\ at = "update" /\ next \in Cell
        /\ next' \in Cell \cup {Last}
        /\ \A c \in Cell : Signalled(c)' <=> Signalled(c) \/ c = next
        /\ ~Signalled(next)
        /\ UNCHANGED <<grids, foreground, at, handling, late>>
    BY LoopStep DEF SignalCell
  <1>2. Source' = Source /\ Target' = Target
    BY <1>1 DEF Source, Target
  <1>3. Source = foreground /\ foreground \in Buffer
    BY <1>1, Buffers DEF Source, Target, Inv, TypeOK
  <1>4. pending[next] = None /\ handling[next] = Idle
    BY <1>1 DEF Inv, QuietUntilSignalled
  <1>5. pending' = [pending EXCEPT ![next] = foreground]
    BY <1>4 DEF SignalCell, pthread_sigqueue
  <1>6. /\ \A c \in Cell : c # next => pending'[c] = pending[c]
        /\ pending'[next] = foreground /\ foreground # None
    BY <1>1, <1>3, <1>5, Buffers DEF Inv, TypeOK
  <1>7. \A c \in Cell : Written(c)' = Written(c)
    BY <1>1, <1>6 DEF Written
  <1>8. TypeOK'
    BY <1>1, <1>3, <1>5 DEF Inv, TypeOK
  <1>9. QuietUntilSignalled'
    BY <1>1, <1>6 DEF Inv, QuietUntilSignalled
  <1>10. NoReadOfWrittenGrid'
    BY <1>1, <1>2, <1>3, <1>6 DEF Inv, NoReadOfWrittenGrid
  <1>11. HandlingIdle' /\ HandlersRight' /\ LoopsOver'
    BY <1>1, <1>2 DEF Inv, HandlingIdle, HandlersRight, LoopsOver
  <1>12. CellsRight'
    BY <1>1, <1>2, <1>7 DEF Inv, CellsRight
  <1> QED
    BY <1>8, <1>9, <1>10, <1>11, <1>12 DEF Inv

\* A new update begins with every thread idle, or somebody is late (life.c 28-31).
LEMMA SleepEndsInv ==
    ASSUME LifeAssumption, Inv, SleepEnds
    PROVE  Inv'
  <1>1. /\ next' = <<0, 0>> /\ at' = "update"
        /\ late' \in BOOLEAN /\ (~late' => AtWork = {})
        /\ UNCHANGED <<grids, foreground, pending, handling>>
    BY DEF SleepEnds
  <1>2. <<0, 0>> \in Cell
    BY Loops
  <1>3. \A c \in Cell : ~Signalled(c)'
    BY <1>1, Loops DEF Signalled
  <1>4. \A c \in Cell : ~Written(c)'
    BY <1>3 DEF Written
  <1>5. TypeOK' /\ HandlingIdle' /\ LoopsOver'
    BY <1>1, <1>2 DEF Inv, TypeOK, HandlingIdle, LoopsOver
  <1>6. ASSUME ~late'
        PROVE  \A c \in Cell : /\ pending'[c] = None /\ handling'[c] = Idle
                               /\ handling'[c].src = None
    <2>1. Idle.src = None
      BY DEF Idle
    <2>2. pending' = pending /\ handling' = handling
      BY <1>1
    <2> QED
      BY <1>1, <1>6, <2>1, <2>2 DEF AtWork
  <1>7. ~late' => QuietUntilSignalled'
    BY <1>6 DEF QuietUntilSignalled
  <1>8. NoReadOfWrittenGrid' /\ (~late' => HandlersRight' /\ CellsRight')
    BY <1>4, <1>6 DEF NoReadOfWrittenGrid, HandlersRight, CellsRight
  <1> QED
    BY <1>5, <1>7, <1>8 DEF Inv

\* The swap changes which grid is drawn, and neither source nor target.
LEMMA SwapGridsInv ==
    ASSUME LifeAssumption, Inv, ~late, SwapGrids
    PROVE  Inv' /\ Source' = Source /\ Target' = Target
  <1>1. /\ at = "update" /\ at' = "draw" /\ next = Last
        /\ foreground' = Other(foreground) /\ foreground \in Buffer
        /\ UNCHANGED <<grids, next, pending, handling, late>>
    BY DEF SwapGrids, Inv, TypeOK
  <1>2. Source' = Source /\ Target' = Target
    BY <1>1 DEF Source, Target
  <1>3. \A c \in Cell : /\ Signalled(c)' = Signalled(c)
                        /\ Written(c)' = Written(c)
    BY <1>1 DEF Signalled, Written
  <1>4. TypeOK'
    BY <1>1, Buffers DEF Inv, TypeOK
  <1>5. LoopsOver'
    BY <1>1 DEF LoopsOver
  <1> QED
    BY <1>1, <1>2, <1>3, <1>4, <1>5 DEF Inv, HandlingIdle,
          QuietUntilSignalled, NoReadOfWrittenGrid, HandlersRight, CellsRight

\* A step that draws, or none, changes nothing the invariant looks at.
LEMMA QuietInv ==
    ASSUME Inv, Draw \/ UNCHANGED vars
    PROVE  /\ Inv' /\ Source' = Source /\ Target' = Target
           /\ UNCHANGED <<grids, next, pending, handling, late>>
  <1>1. /\ UNCHANGED <<grids, foreground, next, pending, handling, late>>
        /\ at' = at \/ (at = "draw" /\ at' = "sleep")
    BY DEF Draw, vars
  <1>2. Source' = Source /\ Target' = Target
    BY <1>1 DEF Source, Target
  <1>3. \A c \in Cell : /\ Signalled(c)' = Signalled(c)
                        /\ Written(c)' = Written(c)
    BY <1>1 DEF Signalled, Written
  <1>4. TypeOK' /\ LoopsOver'
    BY <1>1 DEF Inv, TypeOK, LoopsOver
  <1> QED
    BY <1>1, <1>2, <1>3, <1>4 DEF Inv, HandlingIdle,
          QuietUntilSignalled, NoReadOfWrittenGrid, HandlersRight, CellsRight

\* Once somebody was late, the types are all there is until the next sleep ends.
LEMMA LateInv ==
    ASSUME LifeAssumption, Inv, late,
           SignalCell \/ SwapGrids \/ \E c \in Cell : ThreadStep(c)
    PROVE  Inv' /\ late'
  <1>1. CASE SignalCell
    <2>1. next' \in Cell \cup {Last}
      BY <1>1, LoopStep DEF SignalCell
    <2>2. pending' \in [Cell -> Buffer \cup {None}]
      BY <1>1 DEF SignalCell, pthread_sigqueue, Inv, TypeOK
    <2> QED
      BY <1>1, <2>1, <2>2 DEF SignalCell, Inv, TypeOK, HandlingIdle, LoopsOver,
         NoReadOfWrittenGrid
  <1>2. CASE SwapGrids
    BY <1>2, Buffers DEF SwapGrids, Inv, TypeOK, HandlingIdle, LoopsOver,
       NoReadOfWrittenGrid
  <1>3. ASSUME NEW c \in Cell, HandleUpdate(c)
        PROVE  Inv' /\ late'
    <2>1. pending[c] \in Buffer /\ grids[pending[c]] \in Grid
      BY <1>3 DEF HandleUpdate, Inv, TypeOK
    <2>2. is_alive(c, grids[pending[c]]) \in BOOLEAN
      BY <2>1, IsAliveType
    <2>3. PICK new \in [src : Buffer, found : SUBSET BOOLEAN] :
             handling' = [handling EXCEPT ![c] = new]
      BY <1>3, <2>1, <2>2 DEF HandleUpdate
    <2> QED
      BY <1>3, <2>1, <2>3, Buffers DEF HandleUpdate, Inv, TypeOK, HandlingIdle,
         LoopsOver, NoReadOfWrittenGrid
  <1>4. ASSUME NEW c \in Cell, WriteCell(c)
        PROVE  Inv' /\ late'
    <2> DEFINE dst == Other(handling[c].src)
    <2>1. dst \in Buffer /\ dst # None
      BY <1>4, Buffers DEF WriteCell, Inv, TypeOK
    <2>2. PICK alive \in BOOLEAN : grids' = [grids EXCEPT ![dst][c] = alive]
      BY <1>4 DEF WriteCell, Inv, TypeOK
    <2> HIDE DEF dst
    <2>3. [grids[dst] EXCEPT ![c] = alive] \in Grid
      BY <2>1 DEF Inv, TypeOK, Grid
    <2>4. grids' \in [Buffer -> Grid]
      BY <2>1, <2>2, <2>3 DEF Inv, TypeOK
    <2>5. Idle \in [src : Buffer \cup {None}, found : SUBSET BOOLEAN] /\ Idle.src = None
      BY DEF Idle
    <2>6. /\ handling' = [d \in Cell |->
                IF d = c THEN Idle
                ELSE IF handling[d].src = dst THEN [src |-> dst, found |-> BOOLEAN]
                ELSE handling[d]]
          /\ UNCHANGED <<foreground, at, next, pending, late>>
      BY <1>4 DEF WriteCell, dst
    <2>7. handling' \in [Cell -> [src : Buffer \cup {None}, found : SUBSET BOOLEAN]]
      BY <2>1, <2>5, <2>6 DEF Inv, TypeOK
    <2>8. HandlingIdle'
      BY <2>1, <2>5, <2>6 DEF Inv, HandlingIdle
    <2> QED
      BY <2>4, <2>6, <2>7, <2>8 DEF Inv, TypeOK, LoopsOver, NoReadOfWrittenGrid
  <1> QED
    BY <1>1, <1>2, <1>3, <1>4 DEF ThreadStep

\* The invariant holds for ever.
THEOREM InvHolds == Spec => []Inv
  <1>1. Init => Inv
    BY InitInv, LifeAssumption, BoundsAssumption
  <1>2. Inv /\ [Next]_vars => Inv'
    <2> SUFFICES ASSUME Inv, [Next]_vars
                 PROVE  Inv'
      OBVIOUS
    <2>1. CASE Draw \/ UNCHANGED vars
      BY <2>1, QuietInv
    <2>2. CASE SleepEnds
      BY <2>2, SleepEndsInv, LifeAssumption
    <2>3. CASE late /\ (SignalCell \/ SwapGrids \/ \E c \in Cell : ThreadStep(c))
      BY <2>3, LateInv, LifeAssumption
    <2>4. CASE ~late /\ SignalCell
      BY <2>4, SignalCellInv, LifeAssumption
    <2>5. CASE ~late /\ SwapGrids
      BY <2>5, SwapGridsInv, LifeAssumption
    <2>6. ASSUME ~late, NEW c \in Cell, ThreadStep(c)
          PROVE  Inv'
      BY <2>6, HandleUpdateInv, WriteCellInv, LifeAssumption DEF ThreadStep
    <2> QED
      BY <2>1, <2>2, <2>3, <2>4, <2>5, <2>6 DEF Next, MainStep
  <1> QED
    BY <1>1, <1>2, PTL DEF Spec

\* The types of the program's variables (life.c, grid.c).
THEOREM TypeCorrect == Spec => []TypeOK
  <1>1. Inv => TypeOK
    BY DEF Inv
  <1> QED
    BY <1>1, InvHolds, PTL

\* No grid is read while it is written, unless somebody was late (grid.c 115).
THEOREM GridsNeverReadAndWritten == Spec => []NoReadOfWrittenGrid
  <1>1. Inv => NoReadOfWrittenGrid
    BY DEF Inv
  <1> QED
    BY <1>1, InvHolds, PTL

-----------------------------------------------------------------------------
(* The refinement *)

\* The generation shown does not change while no cell becomes written.
LEMMA SameGeneration ==
    ASSUME UNCHANGED <<grids, Source, Target>>,
           \A c \in Cell : Written(c)' = Written(c)
    PROVE  Generation' = Generation
  BY DEF Generation

\* What is shown is a grid.
LEMMA GenerationType == ASSUME Inv' PROVE Generation' \in [Cell -> BOOLEAN]
  <1>1. Target' \in Buffer /\ Source' \in Buffer
    BY Buffers DEF Target, Source, Inv, TypeOK
  <1> QED
    BY <1>1 DEF Generation, Inv, TypeOK, Grid

\* The last handler to write makes the next generation, the others none.
LEMMA WriteCellRefines ==
    ASSUME LifeAssumption, Inv, ~late, NEW c \in Cell, WriteCell(c)
    PROVE  [Game!Next]_<<Generation, late>>
  <1>1. /\ handling[c].src = Source
        /\ grids' \in [Buffer -> Grid]
        /\ grids'[Source] = grids[Source]
        /\ \A d \in Cell : d # c => grids'[Target][d] = grids[Target][d]
        /\ grids'[Target][c] = is_alive(c, grids[Source])
        /\ handling' = [handling EXCEPT ![c] = Idle]
        /\ UNCHANGED <<foreground, at, next, pending, late>>
    BY WriteCellEffect
  <1>2. /\ Source' = Source /\ Target' = Target
        /\ Source \in Buffer /\ Target \in Buffer
    BY <1>1, Buffers DEF Source, Target, Inv, TypeOK
  <1>3. ~Written(c)
    BY <1>1, <1>2, Buffers DEF Written, Idle
  <1>4. \A d \in Cell : d # c => Written(d)' = Written(d)
    BY <1>1 DEF Written, Signalled, Inv, TypeOK
  <1>5. Generation = grids[Source]
    BY <1>3 DEF Generation
  <1>6. CASE \E d \in Cell : ~Written(d)'
    BY <1>1, <1>2, <1>5, <1>6 DEF Generation
  <1>7. CASE \A d \in Cell : Written(d)'
    <2>1. Generation' = grids'[Target]
      BY <1>2, <1>7 DEF Generation
    <2>2. \A d \in Cell : grids'[Target][d] = is_alive(d, grids[Source])
      BY <1>1, <1>3, <1>4, <1>7 DEF Inv, CellsRight
    <2>3. \A d \in Cell : grids'[Target][d] = Game!LivesOn(d, grids[Source])
      BY <1>2, <2>2, IsAliveLivesOn DEF Inv, TypeOK
    <2>4. grids'[Target] = [d \in Cell |-> grids'[Target][d]]
      BY <1>1, <1>2 DEF Grid
    <2> QED
      BY <1>1, <1>5, <2>1, <2>3, <2>4 DEF Game!Next, Game!Live
  <1> QED
    BY <1>6, <1>7

\* However the threads interleave, the program plays the game of life: until one
\* of them is late, and again from the next sleep that ends in time (life.c 28).
THEOREM LifeImplementsGameOfLife == Spec => ImplementsGameOfLife
  <1>1. Init => Game!Init
    <2> SUFFICES ASSUME Init PROVE Game!Init
      OBVIOUS
    <2>1. Inv
      BY InitInv, LifeAssumption, BoundsAssumption
    <2>2. Target \in Buffer /\ Source \in Buffer
      BY <2>1, Buffers DEF Target, Source, Inv, TypeOK
    <2> QED
      BY <2>1, <2>2 DEF Generation, Inv, TypeOK, Grid, Game!Init, Init
  <1>2. Inv /\ Inv' /\ [Next]_vars => [Game!Next]_<<Generation, late>>
    <2> SUFFICES ASSUME Inv, Inv', [Next]_vars
                 PROVE  [Game!Next]_<<Generation, late>>
      OBVIOUS
    <2>1. CASE Draw \/ UNCHANGED vars
      <3>1. /\ UNCHANGED <<grids, Source, Target>>
            /\ UNCHANGED <<next, pending, handling, late>>
        BY <2>1, QuietInv
      <3>2. \A c \in Cell : Written(c)' = Written(c)
        BY <3>1 DEF Written, Signalled
      <3> QED
        BY <3>1, <3>2, SameGeneration
    <2>2. CASE late'
      <3>1. Generation' \in [Cell -> BOOLEAN]
        BY GenerationType
      <3> QED
        BY <2>2, <3>1 DEF Game!Next, Game!Disturb, Inv, TypeOK
    <2>7. CASE SleepEnds /\ ~late'
      <3>1. /\ \A c \in Cell : Written(c)
            /\ at = "sleep" /\ at' = "update"
            /\ UNCHANGED <<grids, foreground>>
        BY <2>7, LoopEnds, LifeAssumption
           DEF SleepEnds, AtWork, Written, Inv, LoopsOver
      <3>2. <<0, 0>> \in Cell /\ next' = <<0, 0>>
        BY <2>7, Loops, LifeAssumption DEF SleepEnds
      <3>3. ~Written(<<0, 0>>)'
        BY <3>2, Loops, LifeAssumption DEF Written, Signalled
      <3>4. Source' = Target
        BY <3>1, Buffers DEF Source, Target, Inv, TypeOK
      <3>5. Generation' = Generation
        BY <3>1, <3>2, <3>3, <3>4 DEF Generation
      <3> QED
        BY <2>7, <3>5 DEF Game!Next, Game!Resume, Inv, TypeOK
    <2>3. CASE SignalCell /\ ~late
      <3>1. UNCHANGED <<grids, Source, Target, late>>
        BY <2>3 DEF SignalCell, Source, Target
      <3>2. \A c \in Cell : Signalled(c)' <=> Signalled(c) \/ c = next
        BY <2>3, LoopStep, LifeAssumption DEF SignalCell
      <3>3. ~Signalled(next) /\ next \in Cell
        BY <2>3, LoopStep, LifeAssumption DEF SignalCell
      <3>4. /\ pending[next] = None
            /\ pending' = [pending EXCEPT ![next] = foreground]
            /\ handling' = handling
        BY <2>3, <3>3
           DEF SignalCell, pthread_sigqueue, Inv, QuietUntilSignalled
      <3>5. /\ pending'[next] # None
            /\ \A c \in Cell : c # next => pending'[c] = pending[c]
        BY <3>3, <3>4, Buffers DEF Inv, TypeOK
      <3>6. \A c \in Cell : Written(c)' = Written(c)
        BY <3>2, <3>3, <3>4, <3>5 DEF Written
      <3> QED
        BY <3>1, <3>6, SameGeneration
    <2>4. CASE SwapGrids /\ ~late
      <3>1. UNCHANGED <<grids, Source, Target, late>>
        BY <2>4, SwapGridsInv, LifeAssumption DEF SwapGrids
      <3>2. \A c \in Cell : Written(c)' = Written(c)
        BY <2>4 DEF SwapGrids, Written, Signalled
      <3> QED
        BY <3>1, <3>2, SameGeneration
    <2>5. ASSUME ~late, NEW c \in Cell, HandleUpdate(c)
          PROVE  [Game!Next]_<<Generation, late>>
      <3>1. UNCHANGED <<grids, Source, Target, next, late>>
        BY <2>5 DEF HandleUpdate, Source, Target
      <3>2. /\ pending[c] # None
            /\ handling'[c].src # None
            /\ \A d \in Cell : d # c => /\ pending'[d] = pending[d]
                                        /\ handling'[d] = handling[d]
        BY <2>5 DEF HandleUpdate, Inv, TypeOK
      <3>3. \A d \in Cell : Written(d)' = Written(d)
        BY <3>1, <3>2 DEF Written, Signalled, Idle
      <3> QED
        BY <3>1, <3>3, SameGeneration
    <2>6. ASSUME ~late, NEW c \in Cell, WriteCell(c)
          PROVE  [Game!Next]_<<Generation, late>>
      BY <2>6, WriteCellRefines, LifeAssumption
    <2> QED
      <3>1. late /\ ~late' => SleepEnds
        BY DEF Next, MainStep, ThreadStep, Draw, SignalCell, SwapGrids, HandleUpdate,
           WriteCell, vars
      <3> QED
        BY <2>1, <2>2, <2>3, <2>4, <2>5, <2>6, <2>7, <3>1 DEF Next, MainStep, ThreadStep
  <1> QED
    BY <1>1, <1>2, InvHolds, PTL DEF Spec, ImplementsGameOfLife, Game!Spec
=============================================================================
