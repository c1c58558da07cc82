\* Two rows of two cells: every grid to begin with, and one thread that may be late.
SPECIFICATION Spec
CONSTANTS
    grid_height = 2
    grid_width = 2
    Malloced <- MCMalloced
    Slow <- MCSlow
INVARIANTS
    NoReadOfWrittenGrid
PROPERTIES
    ImplementsGameOfLife
