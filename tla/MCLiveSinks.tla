----------------------------- MODULE MCLiveSinks -----------------------------
(* Model values for the live sinks. *)
EXTENDS LiveSinks
=============================================================================
