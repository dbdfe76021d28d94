---------------------------- MODULE MCConnection ----------------------------
(* Model values for the connection layer. *)
EXTENDS Connection, TLC

Symmetry == Permutations(Handlers) \cup Permutations(ClientIDs)
=============================================================================
