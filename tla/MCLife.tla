-------------------------------- MODULE MCLife --------------------------------
(* The game of life on a small board for TLC: see the .cfg file. *)
EXTENDS Life

\* Memory that reads as living cells.
MCMalloced == {[c \in Cell |-> TRUE]}

\* The thread of one corner.
MCSlow == {<<0, 0>>}
=============================================================================
