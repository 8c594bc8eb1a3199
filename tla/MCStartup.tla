----------------------------- MODULE MCStartup -----------------------------
(***************************************************************************)
(* Instances of Startup for TLC: migration 1 is the schema of a release    *)
(* with a key file, migration 2 the key table, migration 3 a later one.    *)
(***************************************************************************)
EXTENDS Startup, TLC

ProcessesAndKeys == Permutations(Processes) \cup Permutations(Generated)
=============================================================================
