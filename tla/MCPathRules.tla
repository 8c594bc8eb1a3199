---------------------------- MODULE MCPathRules ----------------------------
(* A small instance of PathRules for TLC, over four characters.            *)
EXTENDS PathRules

a == <<"a">>
aa == <<"a", "a">>
below == <<"a", "/", "a">>
beside == <<"a", "a", "/", "a">>
dotted == <<"a", ".", "a">>
deep == <<"a", "/", "a", ".", "a">>

Entered == {a, below, beside, dotted, deep, <<"a", "/">>, <<"a", ".", ".", "a">>}

\* Punctuation counts last, as in many locales; bytes put dotted before below.
Locale == <<a, aa, below, dotted, deep, beside>>
LocaleOrder(s, t) ==
    \E i, j \in DOMAIN Locale : i < j /\ Locale[i] = s /\ Locale[j] = t

\* Every string of at most three characters, and lists of two and three.
Short == UNION {[1 .. n -> {"a", ".", "/", "*"}] : n \in 0 .. 3}
Asked2 == {<<below, dotted>>, <<dotted, below>>, <<deep, below>>, <<beside, below>>}
AskedLists == {<<s>> : s \in Short \cup Entered} \cup Asked2
                \cup {<<below, below>>, <<deep, below, deep>>}

SubtreeA == <<<<"a", "/", "*">>>>
SubtreesAndName == <<<<"a", "/", "a", "/", "*">>, dotted, <<"a", "/", "*">>>>
Names2 == <<below, dotted, below>>
EnteredBoundaries ==
    {SubtreeA, SubtreesAndName, Names2, <<>>, <<<<"*">>>>, <<<<"a", "*">>>>,
     <<a, a, a, a>>}
=============================================================================
