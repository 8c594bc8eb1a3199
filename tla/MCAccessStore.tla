--------------------------- MODULE MCAccessStore ---------------------------
(* Small instances of AccessStore for TLC.                                 *)
EXTENDS AccessStore, TLC

CONSTANTS db, api

\* One path, asked for as the application's configured paths; an edit moves
\* it into or out of the boundary.
InOrOut == {{db}, {}}
TokenOnly == {{}}

\* Two paths: a narrow or a wide boundary, the configured paths or one name.
TwoBoundaries == {{db}, {db, api}}
TwoAsks == {{}, {api}}

\* Bound: nobody calls with a token that was never issued, which Authenticate
\* refuses before it looks at anything else.
IssuedTokens == \A p \in Handlers : pc[p] = "idle" \/ job[p].token # 0

\* Handlers are interchangeable.  Requests are not: FreshId picks one of them.
Symmetry == Permutations(Handlers)
=============================================================================
