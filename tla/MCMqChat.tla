------------------------------- MODULE MCMqChat -------------------------------
(* The chat over POSIX queues on small instances for TLC: see the .cfg files. *)
EXTENDS MqChat, TLC

\* Clients are interchangeable, and so are names.
Symmetry == Permutations(Client) \cup Permutations(Name)
=============================================================================
