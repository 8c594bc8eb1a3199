--------------------------- MODULE MCEventStream ---------------------------
(***************************************************************************)
(* An instance of EventStream for TLC.  No symmetry: the runs check        *)
(* liveness.                                                               *)
(***************************************************************************)
EXTENDS EventStream
=============================================================================
