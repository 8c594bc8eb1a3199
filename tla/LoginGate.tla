----------------------------- MODULE LoginGate -----------------------------
(***************************************************************************)
(* Server.login and loginAllowed of internal/server/server.go: what stands *)
(* between POST /admin/login and Argon2id.  An attempt counts against its  *)
(* peer's entry of the attempts map, under the mutex, and then needs one   *)
(* of the slots, which it does not wait for.                               *)
(***************************************************************************)
EXTENDS Naturals, FiniteSets

CONSTANTS
    Handlers,  \* login requests in flight
    Peers,     \* client addresses
    None,
    Limit,     \* attempts an entry lets through (10)
    Window,    \* ticks an entry lives (10 minutes)
    Cap,       \* entries the map takes (10000)
    Slots      \* capacity of loginSlots (2)

ASSUME NoneAssumption == None \notin Peers
ASSUME SizesAssumption == {Limit, Window, Cap, Slots} \subseteq Nat \ {0}

VARIABLES
    count,     \* Count of a peer's entry; one above Limit is as good as more
    left,      \* ticks until time is after its Until; 0 when it is
    known,     \* peers with an entry
    taken,     \* slots in use
    pc, peer,  \* where a handler is, and who asks
    recent     \* recent[p][a]: attempts of p let through in this tick and the
               \* a ticks before it (history)

vars == <<count, left, known, taken, pc, peer, recent>>

\* The ways out of a login that has a slot: a field is too long, Store.Login
\* turns it down, or fails, or gives a session.
Ways == {"invalid", "rejected", "failed", "session"}
Places == {"idle", "asked", "passed", "hashing", "refused"} \cup Ways

TypeOK ==
    /\ count \in [Peers -> 0 .. Limit + 1]
    /\ left \in [Peers -> 0 .. Window + 1]
    /\ known \subseteq Peers /\ Cardinality(known) <= Cap
    /\ taken \in 0 .. Slots
    /\ pc \in [Handlers -> Places]
    /\ peer \in [Handlers -> Peers \cup {None}]
    /\ recent \in [Peers -> [0 .. Window - 1 -> Nat]]

Init ==
    /\ count = [p \in Peers |-> 0]
    /\ left = [p \in Peers |-> 0]
    /\ known = {}
    /\ taken = 0
    /\ pc = [h \in Handlers |-> "idle"]
    /\ peer = [h \in Handlers |-> None]
    /\ recent = [p \in Peers |-> [a \in 0 .. Window - 1 |-> 0]]

-----------------------------------------------------------------------------
Go(h, place) == pc' = [pc EXCEPT ![h] = place]

\* A form comes in with its cookie, origin and CSRF token in order.
Ask(h, p) ==
    /\ pc[h] = "idle"
    /\ Go(h, "asked")
    /\ peer' = [peer EXCEPT ![h] = p]
    /\ UNCHANGED <<count, left, known, taken, recent>>

\* Entries that are not swept away by this call.
Kept == {p \in known : left[p] > 0}

Overfull == Cardinality(Kept) > Cap \* mutant
Full == Cardinality(Kept) >= Cap

NextCount(p) == IF p \in Kept THEN count[p] + 1 ELSE 1
Capped(n) == IF n > Limit THEN Limit + 1 ELSE n

\* An entry keeps the Until it began with.
Prolonged(p) == Window + 1 \* mutant: every attempt starts the window again
TimeLeft(p) == IF p \in Kept THEN left[p] ELSE Window + 1

OneMore(n) == n <= Limit + 1 \* mutant: compared before it is incremented
WithinLimit(n) == n <= Limit

\* The attempt is one of the latest, in spans of every length.
OneLater(f) == [a \in 0 .. Window - 1 |-> f[a] + 1]

\* loginAllowed, under the mutex: sweep, look up, refuse a stranger when the
\* map is full, count, compare.
LoginAllowed(h) ==
    LET p == peer[h]
    IN  /\ pc[h] = "asked"
        /\ \/ /\ p \notin Kept /\ Full
              /\ known' = Kept
              /\ Go(h, "refused")
              /\ UNCHANGED <<count, left, recent>>
           \/ /\ p \in Kept \/ ~Full
              /\ known' = Kept \cup {p}
              /\ count' = [count EXCEPT ![p] = Capped(NextCount(p))]
              /\ left' = [left EXCEPT ![p] = TimeLeft(p)]
              /\ \/ /\ WithinLimit(NextCount(p))
                    /\ recent' = [recent EXCEPT ![p] = OneLater(@)]
                    /\ Go(h, "passed")
                 \/ /\ ~WithinLimit(NextCount(p))
                    /\ UNCHANGED recent
                    /\ Go(h, "refused")
        /\ UNCHANGED <<taken, peer>>

\* A free slot is taken without waiting, or the login is "busy".
TakeSlot(h) ==
    /\ pc[h] = "passed"
    /\ \/ /\ taken < Slots
          /\ taken' = taken + 1
          /\ Go(h, "hashing")
       \/ /\ taken = Slots
          /\ Go(h, "refused")
          /\ UNCHANGED taken
    /\ UNCHANGED <<count, left, known, peer, recent>>

\* The deferred receive runs on every way out, after the answer is chosen.
OnSuccess(way) == taken' = IF way = "session" THEN taken - 1 ELSE taken \* mutant
FreeSlot(way) == taken' = taken - 1

Finish(h, way) ==
    /\ pc[h] = "hashing"
    /\ FreeSlot(way)
    /\ Go(h, way)
    /\ UNCHANGED <<count, left, known, peer, recent>>

Answer(h) ==
    /\ pc[h] \in Ways \cup {"refused"}
    /\ Go(h, "idle")
    /\ peer' = [peer EXCEPT ![h] = None]
    /\ UNCHANGED <<count, left, known, taken, recent>>

\* Time passes, also for attempts that were let through.
Tick ==
    /\ left' = [p \in Peers |-> IF left[p] = 0 THEN 0 ELSE left[p] - 1]
    /\ recent' = [p \in Peers |->
                    [a \in 0 .. Window - 1 |->
                        IF a = 0 THEN 0 ELSE recent[p][a - 1]]]
    /\ UNCHANGED <<count, known, taken, pc, peer>>

Proceed(h) ==
    \/ LoginAllowed(h) \/ TakeSlot(h) \/ Answer(h)
    \/ \E way \in Ways : Finish(h, way)

Next ==
    \/ \E h \in Handlers : Proceed(h) \/ \E p \in Peers : Ask(h, p)
    \/ Tick

Spec == Init /\ [][Next]_vars

\* Goroutines go on, calls to the database return and time passes; no peer
\* has to try.
FairSpec == Spec /\ WF_vars(Tick) /\ \A h \in Handlers : WF_vars(Proceed(h))

-----------------------------------------------------------------------------
LetThrough(p) == recent[p][Window - 1]

\* "Login is limited to 10 attempts per peer per 10 minutes" (README.md:101) is
\* true of each window of a peer.  Windows do not overlap, so no span as long
\* as one sees more than two: at most twice the limit gets through in it.
AtMostTwiceTheLimit == \A p \in Peers : LetThrough(p) <= 2 * Limit

\* Slots are lent exactly to the logins that hash, at most Slots at a time,
\* and come back whichever of the ways out the login takes.
SlotsAreReturned ==
    /\ taken = Cardinality({h \in Handlers : pc[h] = "hashing"})
    /\ taken <= Slots

\* A peer that keeps trying is not shut out for ever by its own attempts: the
\* entry runs out although refused attempts count too.  Only a map full of
\* other peers turns it away again and again.
Tries(p) == \E h \in Handlers : pc[h] = "asked" /\ peer[h] = p
Passes(p) == \E h \in Handlers : pc[h] = "passed" /\ peer[h] = p

Crowded(p) == Tries(p) /\ Full /\ p \notin Kept

LockoutEnds ==
    \A p \in Peers : []<>Tries(p) => []<>(Passes(p) \/ Crowded(p))
=============================================================================
