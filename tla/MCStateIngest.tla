---------------------------- MODULE MCStateIngest ----------------------------
(* Model values for OEE state ingestion. *)
EXTENDS StateIngest, TLC

MCTimes == 1..3

\* Machines are not symmetric: Start is given some of them.
Symmetry == Permutations(States)
=============================================================================
