--------------------------- MODULE AccessPolicy ---------------------------
(***************************************************************************)
(* What LockGate promises about one application's access to secrets, said  *)
(* without tables, transactions or locks.  An application is in one of     *)
(* five phases; secrets leave the server only while it is "granted", and   *)
(* the only way there is an administrator's approval of a request made     *)
(* since the last change of its identity or of its boundary.  AccessStore  *)
(* is shown to implement this specification.                               *)
(***************************************************************************)
CONSTANTS
    Apps,       \* registered identities: rows of table applications
    Handlers    \* HTTP requests the server may be answering at one time

VARIABLES
    phase,      \* phase[a]: where application a stands
    due,        \* the granted applications whose grant has run out
    served      \* the handlers whose answer carries decrypted secrets

vars == <<phase, due, served>>

Phases == {"absent", "disabled", "closed", "asked", "granted"}

TypeOK ==
    /\ phase \in [Apps -> Phases]
    /\ due \subseteq Apps
    /\ served \subseteq Handlers

Init ==
    /\ phase = [a \in Apps |-> "absent"]
    /\ due = {}
    /\ served = {}

\* Every step out of "granted" also forgets that the grant had run out.
Move(a, from, to) ==
    /\ phase[a] \in from
    /\ phase' = [phase EXCEPT ![a] = to]
    /\ due' = due \ {a}
    /\ UNCHANGED served

Register(a) == Move(a, {"absent"}, "closed")

\* A request is raised by an application without access, or by one whose
\* grant has run out, never past a grant that still stands.
Ask(a) ==
    \/ Move(a, {"closed"}, "asked")
    \/ a \in due /\ Move(a, {"granted"}, "asked")

Approve(a) == Move(a, {"asked"}, "granted")

Deny(a) == Move(a, {"asked"}, "closed")

\* Rotation, an edited boundary and revocation: back to the start.
Withdraw(a) == Move(a, {"closed", "asked", "granted"}, "closed")

Disable(a) == Move(a, Phases \ {"absent"}, "disabled")

\* Enabling restores the identity and no access.
Enable(a) == Move(a, {"disabled"}, "closed")

\* The server notices that a grant has run out.
Lapse(a) == a \in due /\ Move(a, {"granted"}, "closed")

\* Time passes for some granted applications.
RunOut(as) ==
    /\ \A a \in as : phase[a] = "granted"
    /\ due' = due \cup as
    /\ UNCHANGED <<phase, served>>

Serve(p, a) ==
    /\ phase[a] = "granted"
    /\ served' = served \cup {p}
    /\ UNCHANGED <<phase, due>>

Forget(p) ==
    /\ served' = served \ {p}
    /\ UNCHANGED <<phase, due>>

Next ==
    \/ \E a \in Apps :
          \/ Register(a) \/ Ask(a) \/ Approve(a) \/ Deny(a)
          \/ Withdraw(a) \/ Disable(a) \/ Enable(a) \/ Lapse(a)
    \/ \E as \in SUBSET Apps : RunOut(as)
    \/ \E p \in Handlers : Forget(p) \/ \E a \in Apps : Serve(p, a)

Spec == Init /\ [][Next]_vars
===========================================================================
