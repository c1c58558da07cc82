-------------------------------- MODULE MCChat --------------------------------
(* The chat on small instances for TLC: see the .cfg files. *)
EXTENDS Chat

CONSTANTS Talkative,   \* the users that type at most Most lines,
          Most,
          Least        \* and the bound of the others

Lines == [c \in Client |-> IF c \in Talkative THEN Most ELSE Least]
=============================================================================
