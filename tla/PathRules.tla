----------------------------- MODULE PathRules -----------------------------
(***************************************************************************)
(* The names of secrets: ValidPath, ValidPattern and Allowed of            *)
(* internal/secure, and what internal/store makes of lists of them.        *)
(* AccessStore takes an application's boundary and what a caller asks for  *)
(* as sets of paths; here paths are strings, patterns are matched letter   *)
(* by letter, lists come in some order with repetitions, and the stored    *)
(* list of an instance is compared as text.  One application, one pending  *)
(* request; who is asking, grants that run out and locks are AccessStore's.*)
(***************************************************************************)
EXTENDS Naturals, FiniteSets, SequencesExt

CONSTANTS
    Names,      \* strings that may be entered as a path or pattern
    Lists,      \* lists of strings that a caller may name; not the empty one
    Boundaries, \* lists of strings that may be entered as allowed_paths
    Collates(_, _), \* the order of the database's collation
    Keys,       \* values of the Idempotency-Key header
    MaxLength,  \* 512 bytes of a path
    MaxPaths    \* 100 paths of a request, 100 patterns of an application

ASSUME BoundAssumption == MaxLength \in Nat /\ MaxPaths \in Nat

VARIABLES
    live,     \* paths of secrets that are not archived
    allowed,  \* allowed_paths of the application; <<>> before it is created
    granted,  \* it has an active grant
    stored,   \* paths of the instances of its pending request, by key
    by,       \* how an instance was asked for: "names", "configured" or "none"
    answer    \* the last answer of the access API

vars == <<live, allowed, granted, stored, by, answer>>

-----------------------------------------------------------------------------
(* Strings are sequences of characters, here in the order of their bytes.  *)

Bytes == <<"*", "-", ".", "/", "0", "A", "_", "a">>
Word == {"-", "0", "A", "_", "a"}
Code(c) == CHOOSE i \in DOMAIN Bytes : Bytes[i] = c

\* sort.Strings: the shorter or the smaller at the first difference.
Less(s, t) ==
    \E n \in 0 .. Len(t) - 1 :
        /\ n <= Len(s)
        /\ SubSeq(s, 1, n) = SubSeq(t, 1, n)
        /\ n = Len(s) \/ Code(s[n + 1]) < Code(t[n + 1])

\* Words with one separator between any two: the regular expression, which
\* leaves nothing for the test of "..".
ValidPath(s) ==
    /\ Len(s) \in 1 .. MaxLength
    /\ \A i \in DOMAIN s :
          \/ s[i] \in Word
          \/ /\ s[i] \in {".", "/"}
             /\ i \in 2 .. Len(s) - 1
             /\ s[i - 1] \in Word

Star == <<"/", "*">>
Trimmed(s, n) == SubSeq(s, 1, Len(s) - n)

ValidPattern(s) ==
    \/ ValidPath(s)
    \/ IsSuffix(Star, s) /\ ValidPath(Trimmed(s, 2))

\* The prefix of a pattern keeps its slash.
WithoutSlash(pattern) == Trimmed(pattern, 2) \* mutant: a neighbour fits too
Prefix(pattern) == Trimmed(pattern, 1)

Allowed(patterns, s) ==
    /\ ValidPath(s)
    /\ \E i \in DOMAIN patterns :
          \/ patterns[i] = s
          \/ IsSuffix(Star, patterns[i]) /\ IsPrefix(Prefix(patterns[i]), s)

\* The elements of S in an order, each of them once.
Ascending(S, Before(_, _)) ==
    CHOOSE list \in [1 .. Cardinality(S) -> S] :
        \A i, j \in 1 .. Cardinality(S) : i < j => Before(list[i], list[j])

\* normalizePaths: sorted, and every path once.
AsSent(list) == list \* mutant: neither
Normal(list) == Ascending(ToSet(list), Less)

NamesFit(list) ==
    /\ Len(list) \in 1 .. MaxPaths
    /\ \A i \in DOMAIN list : ValidPath(list[i])

\* configuredPaths: SELECT path ... ORDER BY path, those that are allowed.
Configured == Ascending({s \in live : Allowed(allowed, s)}, Collates)

\* Strings are strings, and the database puts any two paths in an order.
Strings == Seq(ToSet(Bytes))
Paths == {s \in Names : ValidPath(s)}
ASSUME StringsAssumption ==
    Names \subseteq Strings /\ Lists \cup Boundaries \subseteq Seq(Strings)
ASSUME CollationAssumption ==
    \A s, t, u \in Paths :
        /\ ~Collates(s, s)
        /\ s = t \/ Collates(s, t) \/ Collates(t, s)
        /\ Collates(s, t) /\ Collates(t, u) => Collates(s, u)

-----------------------------------------------------------------------------
NoAnswer == [key |-> "none", form |-> "none", status |-> "none", paths |-> <<>>]

Init ==
    /\ live = {}
    /\ allowed = <<>>
    /\ granted = FALSE
    /\ stored = [k \in Keys |-> <<>>]
    /\ by = [k \in Keys |-> "none"]
    /\ answer = NoAnswer

Asked == \E k \in Keys : by[k] # "none"

\* The pending request is decided or revoked, and its instances with it.
Forget ==
    /\ stored' = [k \in Keys |-> <<>>]
    /\ by' = [k \in Keys |-> "none"]

\* CreateApplication and ChangeApplication "paths": validateApp, revoke.
SetBoundary(list) ==
    /\ Len(list) \in 1 .. MaxPaths
    /\ \A i \in DOMAIN list : ValidPattern(list[i])
    /\ allowed' = list
    /\ granted' = FALSE
    /\ Forget
    /\ answer' = NoAnswer
    /\ UNCHANGED live

\* SaveSecret and Restore.
Publish(s) ==
    /\ ValidPath(s)
    /\ live' = live \cup {s}
    /\ answer' = NoAnswer
    /\ UNCHANGED <<allowed, granted, stored, by>>

Archive(s) ==
    /\ s \in live
    /\ live' = live \ {s}
    /\ answer' = NoAnswer
    /\ UNCHANGED <<allowed, granted, stored, by>>

\* Resolve.
Decide(approve) ==
    /\ Asked
    /\ granted' = approve
    /\ Forget
    /\ answer' = NoAnswer
    /\ UNCHANGED <<live, allowed>>

\* ChangeApplication "revoke".
Revoke ==
    /\ Asked \/ granted
    /\ granted' = FALSE
    /\ Forget
    /\ answer' = NoAnswer
    /\ UNCHANGED <<live, allowed>>

Say(k, form, status, list) ==
    answer' = [key |-> k, form |-> form, status |-> status, paths |-> list]

Refuse(k, form, status, list) ==
    Say(k, form, status, list) /\ UNCHANGED <<live, allowed, granted, stored, by>>

\* strings.Join(stored, "\n") != strings.Join(paths, "\n")
SameList(k, list) == stored[k] \in {<<>>, list}

\* Access from checkPaths on.
Answer(k, form, list) ==
    \/ /\ \E i \in DOMAIN list : ~Allowed(allowed, list[i])
       /\ Refuse(k, form, "forbidden", list)
    \/ /\ \A i \in DOMAIN list : Allowed(allowed, list[i])
       /\ \/ ~(ToSet(list) \subseteq live) /\ Refuse(k, form, "not_found", list)
          \/ /\ ToSet(list) \subseteq live
             /\ \/ granted /\ Refuse(k, form, "approved", list)
                \/ ~granted /\ ~SameList(k, list) /\ Refuse(k, form, "conflict", list)
                \/ /\ ~granted /\ SameList(k, list)
                   /\ Say(k, form, "waiting", list)
                   /\ stored' = [stored EXCEPT ![k] = list]
                   /\ by' = [by EXCEPT ![k] = IF @ = "none" THEN form ELSE @]
                   /\ UNCHANGED <<live, allowed, granted>>

AskByName(k, list) ==
    /\ allowed # <<>>
    /\ \/ ~NamesFit(list) /\ Refuse(k, "names", "invalid", list)
       \/ NamesFit(list) /\ Answer(k, "names", Normal(list))

AskConfigured(k) ==
    /\ allowed # <<>>
    /\ \/ Configured = <<>> /\ Refuse(k, "configured", "not_found", <<>>)
       \/ Configured # <<>> /\ Answer(k, "configured", Configured)

Next ==
    \/ \E list \in Boundaries : SetBoundary(list)
    \/ \E s \in Names : Publish(s) \/ Archive(s)
    \/ \E approve \in BOOLEAN : Decide(approve)
    \/ Revoke
    \/ \E k \in Keys :
          \/ AskConfigured(k)
          \/ \E list \in Lists : AskByName(k, list)

Spec == Init /\ [][Next]_vars

-----------------------------------------------------------------------------
\* What the patterns mean as places in a tree: a path stands below each of
\* its beginnings that end before a slash.
Above(s) == {SubSeq(s, 1, i - 1) : i \in {j \in DOMAIN s : s[j] = "/"}}

Below(patterns, s) ==
    \E i \in DOMAIN patterns :
        \/ patterns[i] = s
        \/ \E dir \in Above(s) : patterns[i] = dir \o Star

\* A boundary is a set of subtrees and single paths, whatever the letters of
\* a neighbour's name begin with: nothing outside of it is accepted, nothing
\* inside of it is refused as outside, and without names a caller gets all
\* there is inside and nothing else.
AnswersBySubtree ==
    LET asked == ToSet(answer.paths)
        outside == \E s \in asked : ~Below(allowed, s)
    IN  /\ answer.status = "forbidden" => outside
        /\ answer.status \in {"approved", "waiting", "conflict", "not_found"} =>
               ~outside
        /\ answer.status \in {"approved", "waiting"} => asked \subseteq live
        /\ answer.form = "configured" =>
               asked = {s \in live : Below(allowed, s)}

\* "Idempotency keys cannot be reused with a different secret set": asked for
\* in the same way again while the request waits, a key is refused exactly when
\* the set is another one, in whatever order and however often a path is named.
\* Under an active grant the code does not compare at all (access.go:146).
KeyNamesOneSet ==
    [][\A k \in Keys :
         LET same == ToSet(answer'.paths) = ToSet(stored[k])
         IN  answer'.key = k /\ answer'.form = by[k] =>
               /\ answer'.status = "conflict" => ~same
               /\ answer'.status = "waiting" => same /\ stored'[k] = stored[k]]_vars
=============================================================================
