------------------------------- MODULE MCBroker -------------------------------
(* Model values for the composition of connections and ingestion. *)
EXTENDS Broker, TLC

Symmetry == Permutations(Handlers) \cup Permutations(ClientIDs)
=============================================================================
