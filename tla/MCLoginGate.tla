---------------------------- MODULE MCLoginGate ----------------------------
(***************************************************************************)
(* Instances of LoginGate for TLC: a limit of two attempts in two ticks    *)
(* for the 10 in 10 minutes of the code.                                   *)
(***************************************************************************)
EXTENDS LoginGate, TLC

HandlersAndPeers == Permutations(Handlers) \cup Permutations(Peers)
=============================================================================
