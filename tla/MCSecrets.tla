----------------------------- MODULE MCSecrets -----------------------------
(***************************************************************************)
(* Instances of Secrets for TLC.                                           *)
(***************************************************************************)
EXTENDS Secrets, TLC

\* Writers are interchangeable, and so are values: no action compares them.
WritersAndValues == Permutations(Writers) \cup Permutations(Values)
=============================================================================
