------------------------------- MODULE MCSalon -------------------------------
(* The salon on small instances for TLC. *)
EXTENDS Salon, TLC

\* Clients are interchangeable, and so are hairdressers; only for safety.
Symmetry == Permutations(Client) \cup Permutations(Hairdresser)
=============================================================================
