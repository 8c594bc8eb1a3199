--------------------------- MODULE SecretHistory ---------------------------
(***************************************************************************)
(* What LockGate promises about a secret: its versions are a sequence that *)
(* only grows at its end, a restored version is a new one with an old      *)
(* value, and archiving hides a secret until the next version is written.  *)
(***************************************************************************)
EXTENDS Naturals, Sequences

CONSTANTS
    Paths,      \* secret paths
    Values      \* key/value bundles

VARIABLES
    history,    \* history[q]: the values of versions 1, 2, ... of q
    archived    \* the paths an administrator has archived

vars == <<history, archived>>

TypeOK ==
    /\ history \in [Paths -> Seq(Values)]
    /\ archived \subseteq Paths

Init ==
    /\ history = [q \in Paths |-> <<>>]
    /\ archived = {}

Save(q, x) ==
    /\ history' = [history EXCEPT ![q] = Append(@, x)]
    /\ archived' = archived \ {q}

Restore(q, n) ==
    /\ n \in DOMAIN history[q]
    /\ Save(q, history[q][n])

Archive(q) ==
    /\ history[q] # <<>>
    /\ q \notin archived
    /\ archived' = archived \cup {q}
    /\ UNCHANGED history

Next ==
    \E q \in Paths :
        \/ \E x \in Values : Save(q, x)
        \/ \E n \in DOMAIN history[q] : Restore(q, n)
        \/ Archive(q)

Spec == Init /\ [][Next]_vars
=============================================================================
