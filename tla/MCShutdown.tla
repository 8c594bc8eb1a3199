----------------------------- MODULE MCShutdown -----------------------------
(* An instance of Shutdown for TLC.  No symmetry: liveness is checked.     *)
EXTENDS Shutdown
=============================================================================
