------------------------------ MODULE MCClient ------------------------------
(* Small instances of Client for TLC.  No symmetry: liveness is checked.   *)
EXTENDS Client

CONSTANTS db, api

WholeBoundary == {{db, api}}
OneOrAll == {{}, {api}}
=============================================================================
