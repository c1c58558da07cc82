----------------------------- MODULE GameOfLife -----------------------------
(***************************************************************************)
(* The game of life, as its rules say it: on a board of cells without a    *)
(* world beyond its edges, all cells go from one generation to the next at *)
(* once.  Somebody may overturn the board: then nothing is promised until  *)
(* play is resumed, from the generation there is by then.                  *)
(***************************************************************************)
EXTENDS Integers, FiniteSets

CONSTANTS Cell   \* pairs of a row and a column

VARIABLES generation, disturbed

\* Cells that touch in a row, a column or a corner.
Adjacent(c, d) == /\ c # d
                  /\ c[1] - d[1] \in -1 .. 1
                  /\ c[2] - d[2] \in -1 .. 1

LivingAround(c, g) == Cardinality({d \in Cell : Adjacent(c, d) /\ g[d]})

\* A cell is born with three living neighbours and survives with two or three.
LivesOn(c, g) == \/ LivingAround(c, g) = 3
                 \/ g[c] /\ LivingAround(c, g) = 2

Init == generation \in [Cell -> BOOLEAN] /\ disturbed = FALSE

Live == /\ ~disturbed /\ UNCHANGED disturbed
        /\ generation' = [c \in Cell |-> LivesOn(c, generation)]

Disturb == disturbed' = TRUE /\ generation' \in [Cell -> BOOLEAN]

Resume == disturbed /\ disturbed' = FALSE /\ UNCHANGED generation

Next == Live \/ Disturb \/ Resume

Spec == Init /\ [][Next]_<<generation, disturbed>>
=============================================================================
