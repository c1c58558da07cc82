-------------------------------- MODULE MCSearch -------------------------------
(* A small directory tree for TLC. *)
EXTENDS Search, TLC

CONSTANTS f1, f2, f3, d1, d2

MCEntries == Root :> {f1, f2, d1} @@ d1 :> {f3, d2} @@ d2 :> {}
=============================================================================
