----------------------------- MODULE MCIngestion -----------------------------
(* The ingestion and processing layers for TLC.  No symmetry is used: the   *)
(* run checks liveness.                                                     *)
EXTENDS Ingestion
=============================================================================
