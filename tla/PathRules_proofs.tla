------------------------- MODULE PathRules_proofs -------------------------
(***************************************************************************)
(* Proofs about PathRules: what a list of patterns means, for strings of   *)
(* any length, that lists can be sorted, and that a key stands for a set.  *)
(***************************************************************************)
EXTENDS PathRules, SequenceTheorems, FiniteSetTheorems, FunctionTheorems,
        WellFoundedInduction, TLAPS

-----------------------------------------------------------------------------
(* Beginnings and ends of strings, letter by letter.                       *)

LEMMA AsSequence ==
    ASSUME NEW C, NEW n \in Nat, NEW f \in [1 .. n -> C]
    PROVE  f \in Seq(C) /\ Len(f) = n
BY SeqDef, LenProperties

LEMMA FirstLetters ==
    ASSUME NEW C, NEW s \in Seq(C), NEW n \in 0 .. Len(s)
    PROVE  /\ SubSeq(s, 1, n) \in Seq(C) /\ Len(SubSeq(s, 1, n)) = n
           /\ \A i \in 1 .. n : SubSeq(s, 1, n)[i] = s[i]
<1>1. n \in Nat /\ Len(s) \in Nat
  BY LenProperties
<1>2. \A i \in 1 .. n : s[i] \in C
  BY <1>1, ElementOfSeq
<1>3. /\ SubSeq(s, 1, n) \in Seq(C)
      /\ Len(SubSeq(s, 1, n)) = IF 1 <= n THEN n - 1 + 1 ELSE 0
      /\ \A i \in 1 .. n - 1 + 1 : SubSeq(s, 1, n)[i] = s[1 + i - 1]
  BY <1>1, <1>2, SubSeqProperties
<1> QED BY <1>1, <1>3

LEMMA PrefixByLetters ==
    ASSUME NEW C, NEW p \in Seq(C), NEW s \in Seq(C)
    PROVE  IsPrefix(p, s) <=>
             Len(p) <= Len(s) /\ \A i \in 1 .. Len(p) : p[i] = s[i]
<1> DEFINE n == Len(p)
<1>1. n \in Nat /\ Len(s) \in Nat
  BY LenProperties
<1>2. CASE n <= Len(s)
  <2> DEFINE a == SubSeq(p, 1, n)
  <2> DEFINE b == SubSeq(s, 1, n)
  <2>1. /\ a \in Seq(C) /\ Len(a) = n /\ \A i \in 1 .. n : a[i] = p[i]
        /\ b \in Seq(C) /\ Len(b) = n /\ \A i \in 1 .. n : b[i] = s[i]
    BY <1>1, <1>2, FirstLetters
  <2>2. IsPrefix(p, s) <=> a = b
    BY <1>2 DEF IsPrefix
  <2> HIDE DEF a, b, n
  <2>3. a = b <=> \A i \in 1 .. n : a[i] = b[i]
    BY <2>1, SeqEqual
  <2> QED BY <1>2, <2>1, <2>2, <2>3 DEF n
<1>3. CASE ~(n <= Len(s))
  BY <1>3 DEF IsPrefix
<1> QED BY <1>2, <1>3

\* strings.HasSuffix(pattern, "/*")
LEMMA EndsInStar ==
    ASSUME NEW C, "/" \in C, "*" \in C, NEW t \in Seq(C)
    PROVE  IsSuffix(Star, t) <=>
             Len(t) >= 2 /\ t[Len(t) - 1] = "/" /\ t[Len(t)] = "*"
<1>1. Len(t) \in Nat
  BY LenProperties
<1>2. \A i \in 1 .. Len(t) : t[Len(t) - i + 1] \in C
  <2> SUFFICES ASSUME NEW i \in 1 .. Len(t) PROVE t[Len(t) - i + 1] \in C
    OBVIOUS
  <2>1. Len(t) - i + 1 \in 1 .. Len(t)
    BY <1>1
  <2> QED BY <2>1, ElementOfSeq
<1>3. PICK r \in Seq(C) :
        r = Reverse(Star) /\ Len(r) = 2 /\ r[1] = "*" /\ r[2] = "/"
  <2>1. Reverse(Star) = [i \in 1 .. 2 |-> IF i = 1 THEN "*" ELSE "/"]
    BY DEF Reverse, Star
  <2>2. Reverse(Star) \in [1 .. 2 -> C]
    BY <2>1
  <2>3. Reverse(Star) \in Seq(C) /\ Len(Reverse(Star)) = 2
    BY <2>2, AsSequence
  <2>4. Reverse(Star)[1] = "*" /\ Reverse(Star)[2] = "/"
    BY <2>1
  <2> QED BY <2>3, <2>4
<1>4. PICK u \in Seq(C) : /\ u = Reverse(t) /\ Len(u) = Len(t)
                          /\ \A i \in 1 .. Len(t) : u[i] = t[Len(t) - i + 1]
  <2>1. Reverse(t) = [i \in 1 .. Len(t) |-> t[Len(t) - i + 1]]
    BY DEF Reverse
  <2>2. Reverse(t) \in [1 .. Len(t) -> C]
    BY <1>2, <2>1
  <2>3. Reverse(t) \in Seq(C) /\ Len(Reverse(t)) = Len(t)
    BY <1>1, <2>2, AsSequence
  <2> QED BY <2>1, <2>3
<1>5. IsSuffix(Star, t) <=> IsPrefix(r, u)
  BY <1>3, <1>4 DEF IsSuffix
<1>6. IsPrefix(r, u) <=> 2 <= Len(t) /\ \A i \in 1 .. 2 : r[i] = u[i]
  <2>1. IsPrefix(r, u) <=>
          Len(r) <= Len(u) /\ \A i \in 1 .. Len(r) : r[i] = u[i]
    BY PrefixByLetters
  <2>2. Len(r) = 2 /\ Len(u) = Len(t)
    BY <1>3, <1>4
  <2> QED BY <2>1, <2>2
<1>7. CASE Len(t) >= 2
  <2>1. 1 \in 1 .. Len(t) /\ 2 \in 1 .. Len(t)
    BY <1>1, <1>7
  <2>2. u[1] = t[Len(t) - 1 + 1] /\ u[2] = t[Len(t) - 2 + 1]
    BY <1>4, <2>1
  <2>3. Len(t) - 1 + 1 = Len(t) /\ Len(t) - 2 + 1 = Len(t) - 1
    BY <1>1
  <2>4. u[1] = t[Len(t)] /\ u[2] = t[Len(t) - 1]
    BY <2>2, <2>3
  <2> QED BY <1>3, <1>5, <1>6, <1>7, <2>4
<1>8. CASE ~(Len(t) >= 2)
  BY <1>1, <1>3, <1>4, <1>5, <1>6, <1>8
<1> QED BY <1>7, <1>8

\* A directory and its pattern.
LEMMA PatternOf ==
    ASSUME NEW C, "/" \in C, "*" \in C, NEW dir \in Seq(C)
    PROVE  /\ dir \o Star \in Seq(C) /\ Len(dir \o Star) = Len(dir) + 2
           /\ \A i \in 1 .. Len(dir) : (dir \o Star)[i] = dir[i]
           /\ (dir \o Star)[Len(dir) + 1] = "/"
           /\ (dir \o Star)[Len(dir) + 2] = "*"
<1>1. Star \in Seq(C) /\ Len(Star) = 2 /\ Star[1] = "/" /\ Star[2] = "*"
  BY DEF Star
<1>2. Len(dir) \in Nat
  BY LenProperties
<1>3. /\ dir \o Star \in Seq(C) /\ Len(dir \o Star) = Len(dir) + Len(Star)
      /\ \A i \in 1 .. Len(dir) + Len(Star) :
           (dir \o Star)[i] = IF i <= Len(dir) THEN dir[i] ELSE Star[i - Len(dir)]
  BY <1>1, ConcatProperties
<1> QED BY <1>1, <1>2, <1>3

-----------------------------------------------------------------------------
(* One pattern with a star.                                                *)

\* A pattern t fits a path s as the code compares them, and as a subtree.
Matches(t, s) == IsSuffix(Star, t) /\ IsPrefix(Prefix(t), s)
Covers(t, s) == \E dir \in Above(s) : t = dir \o Star

LEMMA StarIsSubtree ==
    ASSUME NEW C, "/" \in C, "*" \in C, NEW s \in Seq(C), NEW t \in Seq(C)
    PROVE  Matches(t, s) <=> Covers(t, s)
<1>0. Len(s) \in Nat /\ Len(t) \in Nat /\ DOMAIN s = 1 .. Len(s)
  BY LenProperties
<1>1. ASSUME IsSuffix(Star, t), IsPrefix(Prefix(t), s)
      PROVE  \E dir \in Above(s) : t = dir \o Star
  <2>1. PICK n \in Nat : n = Len(t) - 1
    BY <1>0, <1>1, EndsInStar
  <2>2. n >= 1 /\ Len(t) = n + 1 /\ t[n] = "/" /\ t[n + 1] = "*"
    BY <1>0, <1>1, <2>1, EndsInStar
  <2>3. PICK p \in Seq(C) : /\ p = Prefix(t) /\ Len(p) = n
                            /\ \A i \in 1 .. n : p[i] = t[i]
    <3>1. Prefix(t) = SubSeq(t, 1, n) /\ n \in 0 .. Len(t)
      BY <1>0, <2>1, <2>2 DEF Prefix, Trimmed
    <3> QED BY <3>1, FirstLetters
  <2>4. n <= Len(s) /\ \A i \in 1 .. n : t[i] = s[i]
    BY <1>1, <2>3, PrefixByLetters
  <2>5. n \in DOMAIN s /\ s[n] = "/"
    BY <1>0, <2>2, <2>4
  <2>6. PICK dir \in Seq(C) : /\ dir = SubSeq(s, 1, n - 1) /\ Len(dir) = n - 1
                              /\ \A i \in 1 .. n - 1 : dir[i] = s[i]
    <3>1. n - 1 \in 0 .. Len(s)
      BY <1>0, <2>2, <2>4
    <3> QED BY <3>1, FirstLetters
  <2>7. dir \in Above(s)
    BY <2>5, <2>6 DEF Above
  <2>8. PICK q \in Seq(C) : /\ q = dir \o Star /\ Len(q) = n + 1
                            /\ \A i \in 1 .. n - 1 : q[i] = dir[i]
                            /\ q[n] = "/" /\ q[n + 1] = "*"
    <3>1. Len(dir) + 1 = n /\ Len(dir) + 2 = n + 1
      BY <2>2, <2>6
    <3>2. /\ dir \o Star \in Seq(C) /\ Len(dir \o Star) = Len(dir) + 2
          /\ \A i \in 1 .. Len(dir) : (dir \o Star)[i] = dir[i]
          /\ (dir \o Star)[Len(dir) + 1] = "/"
          /\ (dir \o Star)[Len(dir) + 2] = "*"
      BY PatternOf
    <3>3. Len(dir) = n - 1
      BY <2>6
    <3> QED BY <3>1, <3>2, <3>3
  <2>9. \A i \in 1 .. n + 1 : t[i] = q[i]
    BY <2>2, <2>4, <2>6, <2>8
  <2>10. t = q
    BY <2>2, <2>8, <2>9, SeqEqual
  <2> QED BY <2>7, <2>8, <2>10
<1>2. ASSUME NEW dir \in Above(s), t = dir \o Star
      PROVE  IsSuffix(Star, t) /\ IsPrefix(Prefix(t), s)
  <2>1. PICK n \in 1 .. Len(s) : s[n] = "/" /\ dir = SubSeq(s, 1, n - 1)
    BY <1>0 DEF Above
  <2>2. /\ dir \in Seq(C) /\ Len(dir) = n - 1
        /\ \A i \in 1 .. n - 1 : dir[i] = s[i]
    BY <1>0, <2>1, FirstLetters
  <2>3. /\ Len(t) = n + 1 /\ t[n] = "/" /\ t[n + 1] = "*"
        /\ \A i \in 1 .. n - 1 : t[i] = dir[i]
    BY <1>2, <2>1, <2>2, PatternOf
  <2>4. IsSuffix(Star, t)
    BY <2>1, <2>3, EndsInStar
  <2>5. PICK p \in Seq(C) : /\ p = Prefix(t) /\ Len(p) = n
                            /\ \A i \in 1 .. n : p[i] = t[i]
    <3>1. Len(t) - 1 = n /\ n \in 0 .. Len(t)
      BY <1>0, <2>1, <2>3
    <3>2. Prefix(t) = SubSeq(t, 1, n)
      BY <3>1 DEF Prefix, Trimmed
    <3> QED BY <3>1, <3>2, FirstLetters
  <2>6. \A i \in 1 .. n : p[i] = s[i]
    BY <2>1, <2>2, <2>3, <2>5
  <2>7. IsPrefix(p, s)
    BY <2>1, <2>5, <2>6, PrefixByLetters
  <2> QED BY <2>4, <2>5, <2>7
<1> QED BY <1>1, <1>2 DEF Matches, Covers

-----------------------------------------------------------------------------
(* The theorem.                                                            *)

\* Allowed, which compares the beginning of a path with each pattern letter
\* by letter, accepts exactly the valid paths that are named themselves or lie
\* below a named directory: a neighbour whose name begins alike is outside,
\* whatever the strings are and however long.
THEOREM AllowedIsSubtree ==
    ASSUME NEW C, "/" \in C, "*" \in C, NEW s \in Seq(C),
           NEW patterns \in Seq(Seq(C))
    PROVE  Allowed(patterns, s) <=> ValidPath(s) /\ Below(patterns, s)
<1>1. \A i \in DOMAIN patterns : patterns[i] \in Seq(C)
  BY LenProperties, ElementOfSeq
<1>2. ASSUME NEW i \in DOMAIN patterns
      PROVE  Matches(patterns[i], s) <=> Covers(patterns[i], s)
  BY <1>1, StarIsSubtree
<1> QED BY <1>2 DEF Allowed, Below, Matches, Covers
-----------------------------------------------------------------------------
(* The order of sort.Strings.                                              *)

Letters == ToSet(Bytes)

LEMMA LetterCodes ==
    /\ \A c \in Letters : Code(c) \in 1 .. 8
    /\ \A c, d \in Letters : Code(c) = Code(d) => c = d
    /\ "/" \in Letters /\ "*" \in Letters
<1>1. DOMAIN Bytes = 1 .. 8
  BY DEF Bytes
<1>2. \A c \in Letters : Code(c) \in 1 .. 8 /\ Bytes[Code(c)] = c
  <2> SUFFICES ASSUME NEW c \in Letters
               PROVE  Code(c) \in 1 .. 8 /\ Bytes[Code(c)] = c
    OBVIOUS
  <2>1. \E i \in DOMAIN Bytes : Bytes[i] = c
    BY DEF Letters, ToSet
  <2> QED BY <1>1, <2>1 DEF Code
<1>3. Bytes[1] = "*" /\ Bytes[4] = "/"
  BY DEF Bytes
<1>4. "/" \in Letters /\ "*" \in Letters
  BY <1>1, <1>3 DEF Letters, ToSet
<1> QED BY <1>2, <1>4

\* Less with its substrings read letter by letter.
Differ(s, t, n) ==
    /\ n \in 0 .. Len(t) - 1 /\ n <= Len(s)
    /\ \A i \in 1 .. n : s[i] = t[i]
    /\ n = Len(s) \/ Code(s[n + 1]) < Code(t[n + 1])

LEMMA LessByLetters ==
    ASSUME NEW s \in Strings, NEW t \in Strings
    PROVE  Less(s, t) <=> \E n \in Nat : Differ(s, t, n)
<1>1. s \in Seq(Letters) /\ t \in Seq(Letters) /\ Len(s) \in Nat /\ Len(t) \in Nat
  BY LenProperties DEF Strings, Letters
<1>2. ASSUME NEW n \in 0 .. Len(t) - 1, n <= Len(s)
      PROVE  SubSeq(s, 1, n) = SubSeq(t, 1, n) <=> \A i \in 1 .. n : s[i] = t[i]
  <2> DEFINE a == SubSeq(s, 1, n)
             b == SubSeq(t, 1, n)
  <2>1. n \in 0 .. Len(s) /\ n \in 0 .. Len(t)
    BY <1>1, <1>2
  <2>2. /\ a \in Seq(Letters) /\ Len(a) = n /\ \A i \in 1 .. n : a[i] = s[i]
        /\ b \in Seq(Letters) /\ Len(b) = n /\ \A i \in 1 .. n : b[i] = t[i]
    BY <1>1, <2>1, FirstLetters
  <2> HIDE DEF a, b
  <2>3. a = b <=> \A i \in 1 .. n : a[i] = b[i]
    BY <2>2, SeqEqual
  <2> QED BY <2>2, <2>3 DEF a, b
<1> QED BY <1>1, <1>2 DEF Less, Differ

LEMMA LessIrreflexive ==
    ASSUME NEW s \in Strings
    PROVE  ~Less(s, s)
<1>1. s \in Seq(Letters) /\ Len(s) \in Nat
  BY LenProperties DEF Strings, Letters
<1> SUFFICES ASSUME NEW n \in Nat, Differ(s, s, n) PROVE FALSE
  BY LessByLetters
<1>2. n + 1 \in 1 .. Len(s)
  BY <1>1 DEF Differ
<1>3. s[n + 1] \in Letters
  BY <1>1, <1>2, ElementOfSeq
<1> QED BY <1>1, <1>3, LetterCodes DEF Differ

LEMMA LessTransitive ==
    ASSUME NEW s \in Strings, NEW t \in Strings, NEW u \in Strings,
           Less(s, t), Less(t, u)
    PROVE  Less(s, u)
<1>1. /\ s \in Seq(Letters) /\ t \in Seq(Letters) /\ u \in Seq(Letters)
      /\ Len(s) \in Nat /\ Len(t) \in Nat /\ Len(u) \in Nat
  BY LenProperties DEF Strings, Letters
<1>2. PICK n \in Nat : Differ(s, t, n)
  BY LessByLetters
<1>3. PICK m \in Nat : Differ(t, u, m)
  BY LessByLetters
<1>4. CASE n < m
  <2>1. n \in 0 .. Len(u) - 1 /\ n <= Len(s)
    BY <1>1, <1>2, <1>3, <1>4 DEF Differ
  <2>2. \A i \in 1 .. n : s[i] = u[i]
    BY <1>2, <1>3, <1>4 DEF Differ
  <2>3. t[n + 1] = u[n + 1]
    BY <1>3, <1>4 DEF Differ
  <2>4. Differ(s, u, n)
    BY <1>2, <2>1, <2>2, <2>3 DEF Differ
  <2> QED BY <2>4, LessByLetters
<1>5. CASE n = m
  <2>1. n \in 0 .. Len(u) - 1 /\ n <= Len(s) /\ n # Len(t)
    BY <1>1, <1>2, <1>3, <1>5 DEF Differ
  <2>2. \A i \in 1 .. n : s[i] = u[i]
    BY <1>2, <1>3, <1>5 DEF Differ
  <2>3. n = Len(s) \/ Code(s[n + 1]) < Code(u[n + 1])
    <3> SUFFICES ASSUME n # Len(s) PROVE Code(s[n + 1]) < Code(u[n + 1])
      OBVIOUS
    <3>1. Code(s[n + 1]) < Code(t[n + 1]) /\ Code(t[n + 1]) < Code(u[n + 1])
      BY <1>2, <1>3, <1>5, <2>1 DEF Differ
    <3>2. n + 1 \in 1 .. Len(s) /\ n + 1 \in 1 .. Len(t) /\ n + 1 \in 1 .. Len(u)
      BY <1>1, <1>2, <2>1 DEF Differ
    <3>3. s[n + 1] \in Letters /\ t[n + 1] \in Letters /\ u[n + 1] \in Letters
      BY <1>1, <3>2, ElementOfSeq
    <3>4. /\ Code(s[n + 1]) \in 1 .. 8 /\ Code(t[n + 1]) \in 1 .. 8
          /\ Code(u[n + 1]) \in 1 .. 8
      BY <3>3, LetterCodes
    <3> QED BY <3>1, <3>4
  <2>4. Differ(s, u, n)
    BY <2>1, <2>2, <2>3 DEF Differ
  <2> QED BY <2>4, LessByLetters
<1>6. CASE m < n
  <2>1. m \in 0 .. Len(u) - 1 /\ m <= Len(s) /\ m # Len(t)
    BY <1>1, <1>2, <1>3, <1>6 DEF Differ
  <2>2. \A i \in 1 .. m : s[i] = u[i]
    BY <1>2, <1>3, <1>6 DEF Differ
  <2>3. s[m + 1] = t[m + 1] /\ Code(t[m + 1]) < Code(u[m + 1])
    BY <1>2, <1>3, <1>6, <2>1 DEF Differ
  <2>4. Differ(s, u, m)
    BY <2>1, <2>2, <2>3 DEF Differ
  <2> QED BY <2>4, LessByLetters
<1> QED BY <1>4, <1>5, <1>6

LEMMA LessTotal ==
    ASSUME NEW s \in Strings, NEW t \in Strings, s # t
    PROVE  Less(s, t) \/ Less(t, s)
<1>1. /\ s \in Seq(Letters) /\ t \in Seq(Letters)
      /\ Len(s) \in Nat /\ Len(t) \in Nat
  BY LenProperties DEF Strings, Letters
<1> DEFINE Ends == {n \in Nat : \/ n = Len(s) \/ n = Len(t)
                                \/ s[n + 1] # t[n + 1]}
<1>2. PICK m \in Ends : \A k \in Ends : m <= k
  <2>1. Len(s) \in Ends
    BY <1>1
  <2>2. \E m \in Ends : \A k \in Ends : ~(<<k, m>> \in OpToRel(<, Nat))
    BY <2>1, NatLessThanWellFounded, WFMin
  <2>3. PICK m \in Ends : \A k \in Ends : ~(<<k, m>> \in OpToRel(<, Nat))
    BY <2>2
  <2>4. \A k \in Ends : ~(k < m)
    BY <2>3 DEF OpToRel
  <2>5. \A k \in Ends : k \in Nat
    OBVIOUS
  <2>6. ASSUME NEW k \in Ends PROVE m <= k
    <3>1. k \in Nat /\ m \in Nat /\ ~(k < m)
      BY <2>4, <2>5
    <3> QED BY <3>1
  <2> QED BY <2>6
<1>3. m \in Nat /\ m <= Len(s) /\ m <= Len(t)
  BY <1>1, <1>2
<1>4. ASSUME NEW i \in 1 .. m PROVE s[i] = t[i]
  <2>1. i - 1 \in Nat /\ i - 1 < m /\ (i - 1) + 1 = i
    BY <1>3
  <2>2. i - 1 \notin Ends
    <3> SUFFICES ASSUME i - 1 \in Ends PROVE FALSE
      OBVIOUS
    <3> HIDE DEF Ends
    <3>1. m <= i - 1
      BY <1>2
    <3> QED BY <1>3, <2>1, <3>1
  <2>3. s[(i - 1) + 1] = t[(i - 1) + 1]
    BY <2>1, <2>2
  <2> QED BY <2>1, <2>3
<1>5. CASE m = Len(s) /\ m = Len(t)
  BY <1>1, <1>4, <1>5, SeqEqual
<1>6. CASE m = Len(s) /\ m < Len(t)
  BY <1>3, <1>4, <1>6, LessByLetters DEF Differ
<1>7. CASE m < Len(s) /\ m = Len(t)
  <2>1. Differ(t, s, m)
    BY <1>3, <1>4, <1>7 DEF Differ
  <2> QED BY <1>3, <2>1, LessByLetters
<1>8. CASE m < Len(s) /\ m < Len(t)
  <2>1. s[m + 1] # t[m + 1]
    BY <1>2, <1>3, <1>8
  <2>2. m + 1 \in 1 .. Len(s) /\ m + 1 \in 1 .. Len(t)
    BY <1>1, <1>3, <1>8
  <2>3. s[m + 1] \in Letters /\ t[m + 1] \in Letters
    BY <1>1, <2>2, ElementOfSeq
  <2>4. Code(s[m + 1]) < Code(t[m + 1]) \/ Code(t[m + 1]) < Code(s[m + 1])
    BY <2>1, <2>3, LetterCodes
  <2>5. Differ(s, t, m) \/ Differ(t, s, m)
    BY <1>1, <1>3, <1>4, <1>8, <2>4 DEF Differ
  <2> QED BY <1>3, <2>5, LessByLetters
<1> QED BY <1>1, <1>3, <1>5, <1>6, <1>7, <1>8
-----------------------------------------------------------------------------
(* Finite sets can be put in order.                                        *)

\* The place of an element is the number of those before it.
LEMMA SortExists ==
    ASSUME NEW S, IsFiniteSet(S), NEW R,
           \A x \in S : <<x, x>> \notin R,
           \A x, y \in S : x = y \/ <<x, y>> \in R \/ <<y, x>> \in R,
           \A x, y, z \in S : <<x, y>> \in R /\ <<y, z>> \in R => <<x, z>> \in R
    PROVE  \E list \in [1 .. Cardinality(S) -> S] :
             \A i, j \in 1 .. Cardinality(S) : i < j => <<list[i], list[j]>> \in R
<1> DEFINE n == Cardinality(S)
           Lower(x) == {y \in S : <<y, x>> \in R}
<1>1. n \in Nat
  BY FS_CardinalityType
<1>2. ASSUME NEW x \in S
      PROVE  /\ IsFiniteSet(Lower(x))
             /\ Cardinality(Lower(x)) \in Nat /\ Cardinality(Lower(x)) < n
  <2>1. Lower(x) \in SUBSET S /\ x \notin Lower(x)
    OBVIOUS
  <2> DEFINE low == Lower(x)
  <2> HIDE DEF Lower, low
  <2>2. low \in SUBSET S /\ x \notin low
    BY <2>1 DEF low
  <2>3. IsFiniteSet(low) /\ Cardinality(low) <= n /\ (n = Cardinality(low) => S = low)
    BY <2>2, FS_Subset
  <2>4. Cardinality(low) \in Nat
    BY <2>3, FS_CardinalityType
  <2>5. S # low
    BY <2>2
  <2>6. Cardinality(low) < n
    <3> HIDE DEF n
    <3> QED BY <1>1, <2>3, <2>4, <2>5
  <2> QED BY <2>3, <2>4, <2>6 DEF low
<1>3. ASSUME NEW x \in S, NEW y \in S, <<x, y>> \in R
      PROVE  Cardinality(Lower(x)) < Cardinality(Lower(y))
  <2>1. Lower(x) \in SUBSET Lower(y) /\ x \in Lower(y) /\ x \notin Lower(x)
    BY <1>3
  <2>2. /\ IsFiniteSet(Lower(x)) /\ Cardinality(Lower(x)) \in Nat
        /\ IsFiniteSet(Lower(y)) /\ Cardinality(Lower(y)) \in Nat
    BY <1>2
  <2> HIDE DEF Lower
  <2>3. /\ Cardinality(Lower(x)) <= Cardinality(Lower(y))
        /\ Cardinality(Lower(y)) = Cardinality(Lower(x)) => Lower(y) = Lower(x)
    BY <2>1, <2>2, FS_Subset
  <2>4. Lower(y) # Lower(x)
    BY <2>1
  <2> QED BY <2>2, <2>3, <2>4
<1> DEFINE rank == [x \in S |-> Cardinality(Lower(x)) + 1]
<1>4. rank \in [S -> 1 .. n]
  <2> SUFFICES ASSUME NEW x \in S PROVE Cardinality(Lower(x)) + 1 \in 1 .. n
    OBVIOUS
  <2>1. Cardinality(Lower(x)) \in Nat /\ Cardinality(Lower(x)) < n
    BY <1>2
  <2> HIDE DEF Lower, n
  <2> QED BY <1>1, <2>1
<1>5. ASSUME NEW x \in S, NEW y \in S, <<x, y>> \in R PROVE rank[x] < rank[y]
  <2>1. /\ Cardinality(Lower(x)) \in Nat /\ Cardinality(Lower(y)) \in Nat
        /\ Cardinality(Lower(x)) < Cardinality(Lower(y))
    BY <1>2, <1>3, <1>5
  <2>2. /\ rank[x] = Cardinality(Lower(x)) + 1
        /\ rank[y] = Cardinality(Lower(y)) + 1
    OBVIOUS
  <2> HIDE DEF Lower, rank
  <2> QED BY <2>1, <2>2
<1> HIDE DEF rank, Lower, n
<1>6. \A x, y \in S : rank[x] = rank[y] => x = y
  <2> SUFFICES ASSUME NEW x \in S, NEW y \in S, x # y PROVE rank[x] # rank[y]
    OBVIOUS
  <2>1. rank[x] \in 1 .. n /\ rank[y] \in 1 .. n
    BY <1>4
  <2>2. CASE <<x, y>> \in R
    BY <1>1, <1>5, <2>1, <2>2
  <2>3. CASE <<y, x>> \in R
    BY <1>1, <1>5, <2>1, <2>3
  <2> QED BY <2>2, <2>3
<1>7. rank \in Surjection(S, 1 .. n)
  <2>1. rank \in Injection(S, 1 .. n)
    BY <1>4, <1>6 DEF Injection, IsInjective
  <2>2. IsFiniteSet(1 .. n) /\ Cardinality(1 .. n) = n
    BY <1>1, FS_Interval
  <2> QED BY <2>1, <2>2, FS_Injection DEF n
<1>8. \A i \in 1 .. n : \E x \in S : rank[x] = i
  BY <1>7 DEF Surjection
<1> DEFINE list == [i \in 1 .. n |-> CHOOSE x \in S : rank[x] = i]
<1>9. \A i \in 1 .. n : list[i] \in S /\ rank[list[i]] = i
  BY <1>8
<1>10. list \in [1 .. n -> S]
  BY <1>9
<1> HIDE DEF list
<1>11. ASSUME NEW i \in 1 .. n, NEW j \in 1 .. n, i < j
       PROVE  <<list[i], list[j]>> \in R
  <2>1. list[i] \in S /\ list[j] \in S /\ rank[list[i]] = i /\ rank[list[j]] = j
    BY <1>9
  <2>2. list[i] # list[j]
    BY <1>1, <1>11, <2>1
  <2>3. <<list[j], list[i]>> \notin R
    <3> SUFFICES ASSUME <<list[j], list[i]>> \in R PROVE FALSE
      OBVIOUS
    <3>1. rank[list[j]] < rank[list[i]]
      BY <1>5, <2>1
    <3> QED BY <1>1, <1>11, <2>1, <3>1
  <2> QED BY <2>1, <2>2, <2>3
<1> QED BY <1>10, <1>11 DEF n

\* A list of as many different elements as the set has names all of them.
LEMMA SortedCovers ==
    ASSUME NEW S, IsFiniteSet(S), NEW list \in [1 .. Cardinality(S) -> S],
           \A i, j \in 1 .. Cardinality(S) : i < j => list[i] # list[j]
    PROVE  /\ list \in Seq(S) /\ Len(list) = Cardinality(S)
           /\ ToSet(list) = S
<1> DEFINE n == Cardinality(S)
<1>1. n \in Nat
  BY FS_CardinalityType
<1>2. list \in Seq(S) /\ Len(list) = n
  BY <1>1, AsSequence
<1>3. \A i, j \in 1 .. n : list[i] = list[j] => i = j
  <2> HIDE DEF n
  <2> SUFFICES ASSUME NEW i \in 1 .. n, NEW j \in 1 .. n, i # j
               PROVE  list[i] # list[j]
    OBVIOUS
  <2>1. i < j \/ j < i
    BY <1>1
  <2> QED BY <2>1 DEF n
<1>4. list \in Injection(1 .. n, S)
  BY <1>3 DEF Injection, IsInjective
<1>5. Cardinality(1 .. n) = n
  BY <1>1, FS_Interval
<1>6. list \in Surjection(1 .. n, S)
  BY <1>4, <1>5, FS_Injection
<1>7. \A x \in S : \E i \in 1 .. n : list[i] = x
  BY <1>6 DEF Surjection
<1>8. DOMAIN list = 1 .. n /\ \A i \in 1 .. n : list[i] \in S
  OBVIOUS
<1> HIDE DEF n
<1>9. ToSet(list) = S
  BY <1>7, <1>8 DEF ToSet
<1> QED BY <1>2, <1>9 DEF n

LEMMA SetOfList ==
    ASSUME NEW C, NEW list \in Seq(C)
    PROVE  IsFiniteSet(ToSet(list)) /\ ToSet(list) \subseteq C
<1>1. Len(list) \in Nat /\ DOMAIN list = 1 .. Len(list)
  BY LenProperties
<1>2. \A i \in 1 .. Len(list) : list[i] \in C
  BY <1>1, ElementOfSeq
<1>3. list \in Surjection(1 .. Len(list), ToSet(list))
  <2>1. list \in [1 .. Len(list) -> C]
    BY LenProperties
  <2>2. list \in [1 .. Len(list) -> ToSet(list)]
    BY <1>1, <2>1 DEF ToSet
  <2>3. \A x \in ToSet(list) : \E i \in 1 .. Len(list) : list[i] = x
    BY <1>1 DEF ToSet
  <2> QED BY <2>2, <2>3 DEF Surjection
<1>4. IsFiniteSet(1 .. Len(list))
  BY <1>1, FS_Interval
<1>5. IsFiniteSet(ToSet(list))
  BY <1>3, <1>4, FS_Surjection
<1>6. ToSet(list) \subseteq C
  BY <1>1, <1>2 DEF ToSet
<1> QED BY <1>5, <1>6

\* What the two sorts give: the elements, each once, and nothing else.
LEMMA AscendingByLess ==
    ASSUME NEW S \in SUBSET Strings, IsFiniteSet(S)
    PROVE  Ascending(S, Less) \in Seq(S) /\ ToSet(Ascending(S, Less)) = S
<1> DEFINE R == {p \in S \X S : Less(p[1], p[2])}
<1>1. \A x, y \in S : <<x, y>> \in R <=> Less(x, y)
  OBVIOUS
<1> HIDE DEF R
<1>2. \A x \in S : <<x, x>> \notin R
  BY <1>1, LessIrreflexive
<1>3. \A x, y \in S : x = y \/ <<x, y>> \in R \/ <<y, x>> \in R
  BY <1>1, LessTotal
<1>4. \A x, y, z \in S : <<x, y>> \in R /\ <<y, z>> \in R => <<x, z>> \in R
  BY <1>1, LessTransitive
<1>5. PICK sorted \in [1 .. Cardinality(S) -> S] :
        \A i, j \in 1 .. Cardinality(S) : i < j => <<sorted[i], sorted[j]>> \in R
  BY <1>2, <1>3, <1>4, SortExists
<1>6. \A i, j \in 1 .. Cardinality(S) : i < j => Less(sorted[i], sorted[j])
  BY <1>1, <1>5
<1>7. PICK list \in [1 .. Cardinality(S) -> S] :
        /\ list = Ascending(S, Less)
        /\ \A i, j \in 1 .. Cardinality(S) : i < j => Less(list[i], list[j])
  BY <1>6 DEF Ascending
<1>8. \A i, j \in 1 .. Cardinality(S) : i < j => list[i] # list[j]
  BY <1>7, LessIrreflexive
<1> QED BY <1>7, <1>8, SortedCovers

LEMMA AscendingByCollation ==
    ASSUME NEW S \in SUBSET Paths, IsFiniteSet(S)
    PROVE  Ascending(S, Collates) \in Seq(S) /\ ToSet(Ascending(S, Collates)) = S
<1> DEFINE R == {p \in S \X S : Collates(p[1], p[2])}
<1>1. \A x, y \in S : <<x, y>> \in R <=> Collates(x, y)
  OBVIOUS
<1> HIDE DEF R
<1>2. \A x \in S : <<x, x>> \notin R
  BY <1>1, CollationAssumption
<1>3. \A x, y \in S : x = y \/ <<x, y>> \in R \/ <<y, x>> \in R
  BY <1>1, CollationAssumption
<1>4. \A x, y, z \in S : <<x, y>> \in R /\ <<y, z>> \in R => <<x, z>> \in R
  BY <1>1, CollationAssumption
<1>5. PICK sorted \in [1 .. Cardinality(S) -> S] :
        \A i, j \in 1 .. Cardinality(S) : i < j => <<sorted[i], sorted[j]>> \in R
  BY <1>2, <1>3, <1>4, SortExists
<1>6. \A i, j \in 1 .. Cardinality(S) : i < j => Collates(sorted[i], sorted[j])
  BY <1>1, <1>5
<1>7. PICK list \in [1 .. Cardinality(S) -> S] :
        /\ list = Ascending(S, Collates)
        /\ \A i, j \in 1 .. Cardinality(S) : i < j => Collates(list[i], list[j])
  BY <1>6 DEF Ascending
<1>8. \A i, j \in 1 .. Cardinality(S) : i < j => list[i] # list[j]
  BY <1>7, CollationAssumption
<1> QED BY <1>7, <1>8, SortedCovers
-----------------------------------------------------------------------------
(* The invariant.                                                          *)

\* A list of paths as it is compared and stored: sorted, without repetitions.
InOrder(form, list) ==
    /\ form = "names" => list = Ascending(ToSet(list), Less)
    /\ form = "configured" => list = Ascending(ToSet(list), Collates)

LiveOK == live \subseteq Paths /\ IsFiniteSet(live)
AllowedOK == allowed \in Seq(Strings)
StoredOK ==
    /\ stored \in [Keys -> Seq(Strings)]
    /\ by \in [Keys -> {"none", "names", "configured"}]
    /\ \A k \in Keys : /\ by[k] = "none" <=> stored[k] = <<>>
                       /\ InOrder(by[k], stored[k])

RulesInv == LiveOK /\ AllowedOK /\ StoredOK /\ AnswersBySubtree

LEMMA StringsAreStrings ==
    /\ "/" \in Letters /\ "*" \in Letters /\ Strings = Seq(Letters)
    /\ Paths \subseteq Strings
BY LetterCodes, StringsAssumption DEF Strings, Letters, Paths

\* Whether a string is allowed, for the boundaries and names there are.
LEMMA AllowedIsBelow ==
    ASSUME NEW patterns \in Seq(Strings), NEW s \in Strings
    PROVE  Allowed(patterns, s) <=> ValidPath(s) /\ Below(patterns, s)
BY StringsAreStrings, AllowedIsSubtree

LEMMA NormalList ==
    ASSUME NEW list \in Seq(Strings)
    PROVE  /\ Normal(list) \in Seq(Strings)
           /\ ToSet(Normal(list)) = ToSet(list)
           /\ InOrder("names", Normal(list))
<1> DEFINE S == ToSet(list)
<1>1. S \in SUBSET Strings /\ IsFiniteSet(S)
  BY SetOfList
<1> HIDE DEF S
<1>2. Ascending(S, Less) \in Seq(S) /\ ToSet(Ascending(S, Less)) = S
  BY <1>1, AscendingByLess
<1>3. Normal(list) = Ascending(S, Less)
  BY DEF Normal, S
<1>4. Normal(list) \in Seq(Strings)
  BY <1>1, <1>2, <1>3, SeqMonotonic
<1>5. ToSet(Normal(list)) = S
  BY <1>2, <1>3
<1>6. InOrder("names", Normal(list))
  BY <1>3, <1>5 DEF InOrder
<1> QED BY <1>4, <1>5, <1>6 DEF S

LEMMA ConfiguredList ==
    ASSUME LiveOK
    PROVE  /\ Configured \in Seq(Strings)
           /\ ToSet(Configured) = {s \in live : Allowed(allowed, s)}
           /\ InOrder("configured", Configured)
<1> DEFINE S == {s \in live : Allowed(allowed, s)}
<1>1. S \in SUBSET live /\ S \in SUBSET Paths /\ S \in SUBSET Strings
  BY StringsAreStrings DEF LiveOK
<1>2. IsFiniteSet(S)
  BY <1>1, FS_Subset DEF LiveOK
<1> HIDE DEF S
<1>3. PICK T \in SUBSET Paths : T = S
  BY <1>1
<1>4. Ascending(T, Collates) \in Seq(T) /\ ToSet(Ascending(T, Collates)) = T
  BY <1>2, <1>3, AscendingByCollation
<1>5. Configured = Ascending(T, Collates)
  BY <1>3 DEF Configured, S
<1>6. Configured \in Seq(Strings)
  BY <1>1, <1>3, <1>4, <1>5, SeqMonotonic
<1>7. ToSet(Configured) = T
  BY <1>4, <1>5
<1>8. InOrder("configured", Configured)
  BY <1>5, <1>7 DEF InOrder
<1> QED BY <1>3, <1>6, <1>7, <1>8 DEF S

LEMMA SomeElement ==
    ASSUME NEW list \in Seq(Strings), list # <<>>
    PROVE  ToSet(list) # {}
<1>1. Len(list) \in Nat /\ DOMAIN list = 1 .. Len(list) /\ Len(list) # 0
  BY LenProperties, EmptySeq
<1>2. 1 \in DOMAIN list
  BY <1>1
<1> QED BY <1>2 DEF ToSet

LEMMA NoElement ==
    ToSet(<<>>) = {}
BY DEF ToSet

-----------------------------------------------------------------------------
(* One answer.                                                             *)

\* What a list must be for checkPaths: valid paths, in order; and without
\* names all the live paths that are allowed.
Suits(form, list) ==
    /\ list \in Seq(Strings) /\ list # <<>>
    /\ \A s \in ToSet(list) : ValidPath(s)
    /\ InOrder(form, list)
    /\ form = "configured" => ToSet(list) = {s \in live : Allowed(allowed, s)}

\* The properties' bodies, for one step.
AnswerOK ==
    LET asked == ToSet(answer.paths)
        outside == \E s \in asked : ~Below(allowed, s)
    IN  /\ answer.status = "forbidden" => outside
        /\ answer.status \in {"approved", "waiting", "conflict", "not_found"} =>
               ~outside
        /\ answer.status \in {"approved", "waiting"} => asked \subseteq live
        /\ answer.form = "configured" => asked = {s \in live : Below(allowed, s)}

KeyStep ==
    \A k \in Keys :
      LET same == ToSet(answer'.paths) = ToSet(stored[k])
      IN  answer'.key = k /\ answer'.form = by[k] =>
            /\ answer'.status = "conflict" => ~same
            /\ answer'.status = "waiting" => same /\ stored'[k] = stored[k]

LEMMA BodyOfAnswers ==
    AnswersBySubtree <=> AnswerOK
BY DEF AnswersBySubtree, AnswerOK

\* Every element of a list in terms of the tree.
LEMMA ByElement ==
    ASSUME LiveOK, AllowedOK, NEW form, NEW list, Suits(form, list)
    PROVE  /\ (\E i \in DOMAIN list : ~Allowed(allowed, list[i])) <=>
                 (\E s \in ToSet(list) : ~Below(allowed, s))
           /\ form = "configured" =>
                 ToSet(list) = {s \in live : Below(allowed, s)}
<1>1. \A s \in ToSet(list) : s \in Strings /\ ValidPath(s)
  BY SetOfList DEF Suits
<1>2. \A s \in ToSet(list) : Allowed(allowed, s) <=> Below(allowed, s)
  BY <1>1, AllowedIsBelow DEF AllowedOK
<1>3. (\E i \in DOMAIN list : ~Allowed(allowed, list[i])) <=>
         (\E s \in ToSet(list) : ~Allowed(allowed, s))
  BY DEF ToSet
<1>4. \A s \in live : Allowed(allowed, s) <=> Below(allowed, s)
  <2> SUFFICES ASSUME NEW s \in live
               PROVE  Allowed(allowed, s) <=> Below(allowed, s)
    OBVIOUS
  <2>1. s \in Strings /\ ValidPath(s)
    BY StringsAreStrings DEF LiveOK, Paths
  <2> QED BY <2>1, AllowedIsBelow DEF AllowedOK
<1> QED BY <1>2, <1>3, <1>4 DEF Suits

LEMMA AnswerStep ==
    ASSUME RulesInv, NEW k \in Keys, NEW form \in {"names", "configured"},
           NEW list, Suits(form, list), Answer(k, form, list)
    PROVE  LiveOK' /\ AllowedOK' /\ StoredOK' /\ AnswerOK' /\ KeyStep
<1>1. LiveOK /\ AllowedOK /\ StoredOK
  BY DEF RulesInv
<1>2. /\ (\E i \in DOMAIN list : ~Allowed(allowed, list[i])) <=>
            (\E s \in ToSet(list) : ~Below(allowed, s))
      /\ form = "configured" => ToSet(list) = {s \in live : Below(allowed, s)}
  BY <1>1, ByElement
<1>3. UNCHANGED <<live, allowed>>
  BY DEF Answer, Refuse
<1>4. LiveOK' /\ AllowedOK'
  BY <1>1, <1>3 DEF LiveOK, AllowedOK
<1>5. PICK status \in {"forbidden", "not_found", "approved", "conflict", "waiting"} :
        answer' = [key |-> k, form |-> form, status |-> status, paths |-> list]
  BY DEF Answer, Refuse, Say
<1>6. /\ status = "forbidden" => \E i \in DOMAIN list : ~Allowed(allowed, list[i])
      /\ status # "forbidden" => \A i \in DOMAIN list : Allowed(allowed, list[i])
      /\ status \in {"approved", "waiting"} => ToSet(list) \subseteq live
  BY <1>5 DEF Answer, Refuse, Say
<1>7. AnswerOK'
  <2>1. /\ answer'.status = status /\ answer'.form = form
        /\ answer'.paths = list /\ live' = live /\ allowed' = allowed
    BY <1>3, <1>5
  <2>2. \A s : Below(allowed, s)' <=> Below(allowed, s)
    BY <2>1 DEF Below
  <2> QED BY <1>2, <1>6, <2>1, <2>2 DEF AnswerOK
<1>8. CASE status = "waiting"
  <2>1. /\ SameList(k, list)
        /\ stored' = [stored EXCEPT ![k] = list]
        /\ by' = [by EXCEPT ![k] = IF @ = "none" THEN form ELSE @]
    BY <1>5, <1>8 DEF Answer, Refuse, Say
  <2>2. /\ stored \in [Keys -> Seq(Strings)]
        /\ by \in [Keys -> {"none", "names", "configured"}]
        /\ list \in Seq(Strings) /\ list # <<>> /\ InOrder(form, list)
    BY <1>1 DEF StoredOK, Suits
  <2>3. /\ stored' \in [Keys -> Seq(Strings)] /\ stored'[k] = list
        /\ \A other \in Keys : other # k => stored'[other] = stored[other]
    BY <2>1, <2>2
  <2>4. /\ by' \in [Keys -> {"none", "names", "configured"}]
        /\ by'[k] = IF by[k] = "none" THEN form ELSE by[k]
        /\ \A other \in Keys : other # k => by'[other] = by[other]
    BY <2>1, <2>2
  <2>5. by[k] = "none" \/ stored[k] = list
    BY <1>1, <2>1 DEF SameList, StoredOK
  <2>6. InOrder(by'[k], list) /\ by'[k] # "none"
    <3>1. CASE by[k] = "none"
      BY <2>2, <2>4, <3>1
    <3>2. CASE by[k] # "none"
      BY <1>1, <2>4, <2>5, <3>2 DEF StoredOK
    <3> QED BY <3>1, <3>2
  <2>7. ASSUME NEW other \in Keys
        PROVE  /\ by'[other] = "none" <=> stored'[other] = <<>>
               /\ InOrder(by'[other], stored'[other])
    <3>1. CASE other = k
      BY <2>2, <2>3, <2>4, <2>6, <3>1
    <3>2. CASE other # k
      BY <1>1, <2>3, <2>4, <3>2 DEF StoredOK
    <3> QED BY <3>1, <3>2
  <2>8. StoredOK'
    <3>1. \A other \in Keys : InOrder(by'[other], stored'[other]) =>
                                InOrder(by[other], stored[other])'
      BY DEF InOrder
    <3> QED BY <2>3, <2>4, <2>7, <3>1 DEF StoredOK
  <2>9. KeyStep
    <3>1. ASSUME by[k] = form
          PROVE  stored[k] = list /\ stored'[k] = stored[k]
      BY <2>3, <2>5, <3>1
    <3>2. /\ answer'.key = k /\ answer'.form = form /\ answer'.status = "waiting"
          /\ answer'.paths = list
      BY <1>5, <1>8
    <3> QED BY <3>1, <3>2 DEF KeyStep
  <2> QED BY <1>4, <1>7, <2>8, <2>9
<1>9. CASE status # "waiting"
  <2>1. stored' = stored /\ by' = by
    BY <1>5, <1>9 DEF Answer, Refuse, Say
  <2>2. StoredOK'
    BY <1>1, <2>1 DEF StoredOK, InOrder
  <2>3. ASSUME status = "conflict", by[k] = form
        PROVE  ToSet(list) # ToSet(stored[k])
    <3>1. ~SameList(k, list)
      BY <1>5, <2>3 DEF Answer, Refuse, Say
    <3>2. stored[k] # list
      BY <3>1 DEF SameList
    <3>3. InOrder(form, stored[k]) /\ InOrder(form, list)
      BY <1>1, <2>3 DEF StoredOK, Suits
    <3> QED BY <3>2, <3>3 DEF InOrder
  <2>4. /\ answer'.key = k /\ answer'.form = form /\ answer'.status = status
        /\ answer'.paths = list
    BY <1>5
  <2>5. KeyStep
    BY <1>9, <2>3, <2>4 DEF KeyStep
  <2> QED BY <1>4, <1>7, <2>2, <2>5
<1> QED BY <1>8, <1>9

\* A refusal before checkPaths: too many names, an invalid one, or nothing.
LEMMA RefusedStep ==
    ASSUME RulesInv, NEW k, NEW form, NEW status \in {"invalid", "not_found"},
           NEW list, Refuse(k, form, status, list),
           \/ form = "names" /\ status = "invalid"
           \/ /\ form = "configured" /\ status = "not_found" /\ list = <<>>
              /\ \A s \in live : ~Below(allowed, s)
    PROVE  LiveOK' /\ AllowedOK' /\ StoredOK' /\ AnswerOK' /\ KeyStep
<1>1. UNCHANGED <<live, allowed, granted, stored, by>>
  BY DEF Refuse
<1>2. LiveOK' /\ AllowedOK' /\ StoredOK'
  BY <1>1 DEF RulesInv, LiveOK, AllowedOK, StoredOK, InOrder
<1>3. /\ answer'.status = status /\ answer'.form = form /\ answer'.paths = list
  BY DEF Refuse, Say
<1>4. KeyStep
  BY <1>3 DEF KeyStep
<1>5. AnswerOK'
  <2>1. live' = live /\ allowed' = allowed
    BY <1>1
  <2>2. \A s : Below(allowed, s)' <=> Below(allowed, s)
    BY <2>1 DEF Below
  <2> QED BY <1>3, <2>1, <2>2, NoElement DEF AnswerOK
<1> QED BY <1>2, <1>4, <1>5

\* Every other step leaves no answer behind.
LEMMA QuietStep ==
    ASSUME answer' = NoAnswer
    PROVE  AnswerOK' /\ KeyStep
<1>1. /\ answer'.status = "none" /\ answer'.form = "none"
  BY DEF NoAnswer
<1> QED BY <1>1 DEF AnswerOK, KeyStep

LEMMA ForgetStep ==
    ASSUME Forget
    PROVE  StoredOK'
<1>1. <<>> \in Seq(Strings)
  BY EmptySeq
<1>2. \A k \in Keys : by'[k] = "none" /\ stored'[k] = <<>>
  BY DEF Forget
<1>3. /\ stored' \in [Keys -> Seq(Strings)]
      /\ by' \in [Keys -> {"none", "names", "configured"}]
  BY <1>1 DEF Forget
<1>4. \A k \in Keys : InOrder(by[k], stored[k])'
  BY <1>2 DEF InOrder
<1> QED BY <1>2, <1>3, <1>4 DEF StoredOK

-----------------------------------------------------------------------------
LEMMA RulesInitially ==
    Init => RulesInv
<1> SUFFICES ASSUME Init PROVE RulesInv
  OBVIOUS
<1>1. <<>> \in Seq(Strings)
  BY EmptySeq
<1>2. LiveOK /\ AllowedOK
  BY <1>1, FS_EmptySet DEF Init, LiveOK, AllowedOK
<1>3. StoredOK
  BY <1>1 DEF Init, StoredOK, InOrder
<1>4. AnswersBySubtree
  BY DEF Init, NoAnswer, AnswersBySubtree
<1> QED BY <1>2, <1>3, <1>4 DEF RulesInv

LEMMA RulesStep ==
    ASSUME RulesInv, Next
    PROVE  RulesInv' /\ KeyStep
<1>0. LiveOK /\ AllowedOK /\ StoredOK
  BY DEF RulesInv
<1> SUFFICES LiveOK' /\ AllowedOK' /\ StoredOK' /\ AnswerOK' /\ KeyStep
  <2>1. AnswersBySubtree' <=> AnswerOK'
    BY BodyOfAnswers, PTL
  <2> QED BY <2>1 DEF RulesInv
<1>1. ASSUME NEW list \in Boundaries, SetBoundary(list)
      PROVE  LiveOK' /\ AllowedOK' /\ StoredOK' /\ AnswerOK' /\ KeyStep
  <2>1. answer' = NoAnswer /\ Forget /\ live' = live /\ allowed' = list
    BY <1>1 DEF SetBoundary
  <2>2. LiveOK' /\ AllowedOK'
    BY <1>0, <2>1, StringsAssumption DEF LiveOK, AllowedOK
  <2> QED BY <2>1, <2>2, QuietStep, ForgetStep
<1>2. ASSUME NEW s \in Names, Publish(s) \/ Archive(s)
      PROVE  LiveOK' /\ AllowedOK' /\ StoredOK' /\ AnswerOK' /\ KeyStep
  <2>1. answer' = NoAnswer /\ UNCHANGED <<allowed, stored, by>>
    BY <1>2 DEF Publish, Archive
  <2>2. LiveOK'
    <3>1. CASE Publish(s)
      BY <1>0, <3>1, FS_AddElement DEF Publish, LiveOK, Paths
    <3>2. CASE Archive(s)
      BY <1>0, <3>2, FS_RemoveElement DEF Archive, LiveOK
    <3> QED BY <1>2, <3>1, <3>2
  <2>3. AllowedOK' /\ StoredOK'
    BY <1>0, <2>1 DEF AllowedOK, StoredOK, InOrder
  <2> QED BY <2>1, <2>2, <2>3, QuietStep
<1>3. ASSUME NEW approve \in BOOLEAN, Decide(approve)
      PROVE  LiveOK' /\ AllowedOK' /\ StoredOK' /\ AnswerOK' /\ KeyStep
  <2>1. answer' = NoAnswer /\ Forget /\ live' = live /\ allowed' = allowed
    BY <1>3 DEF Decide
  <2>2. LiveOK' /\ AllowedOK'
    BY <1>0, <2>1 DEF LiveOK, AllowedOK
  <2> QED BY <2>1, <2>2, QuietStep, ForgetStep
<1>4. ASSUME Revoke
      PROVE  LiveOK' /\ AllowedOK' /\ StoredOK' /\ AnswerOK' /\ KeyStep
  <2>1. answer' = NoAnswer /\ Forget /\ live' = live /\ allowed' = allowed
    BY <1>4 DEF Revoke
  <2>2. LiveOK' /\ AllowedOK'
    BY <1>0, <2>1 DEF LiveOK, AllowedOK
  <2> QED BY <2>1, <2>2, QuietStep, ForgetStep
<1>5. ASSUME NEW k \in Keys, AskConfigured(k)
      PROVE  LiveOK' /\ AllowedOK' /\ StoredOK' /\ AnswerOK' /\ KeyStep
  <2>1. PICK list \in Seq(Strings) :
          /\ list = Configured
          /\ ToSet(list) = {s \in live : Allowed(allowed, s)}
          /\ InOrder("configured", list)
    BY <1>0, ConfiguredList
  <2>2. CASE list = <<>>
    <3>1. Refuse(k, "configured", "not_found", <<>>)
      BY <1>5, <2>1, <2>2 DEF AskConfigured
    <3>2. \A s \in live : ~Allowed(allowed, s)
      BY <2>1, <2>2, NoElement
    <3>3. \A s \in live : ~Below(allowed, s)
      <4> SUFFICES ASSUME NEW s \in live PROVE ~Below(allowed, s)
        OBVIOUS
      <4>1. s \in Strings /\ ValidPath(s)
        BY <1>0, StringsAreStrings DEF LiveOK, Paths
      <4> QED BY <1>0, <3>2, <4>1, AllowedIsBelow DEF AllowedOK
    <3> QED BY <3>1, <3>3, RefusedStep
  <2>3. CASE list # <<>>
    <3>1. Answer(k, "configured", list)
      BY <1>5, <2>1, <2>3 DEF AskConfigured
    <3>2. Suits("configured", list)
      BY <2>1, <2>3 DEF Suits, Allowed
    <3> QED BY <3>1, <3>2, AnswerStep
  <2> QED BY <2>2, <2>3
<1>6. ASSUME NEW k \in Keys, NEW list \in Lists, AskByName(k, list)
      PROVE  LiveOK' /\ AllowedOK' /\ StoredOK' /\ AnswerOK' /\ KeyStep
  <2>1. CASE ~NamesFit(list)
    <3>1. Refuse(k, "names", "invalid", list)
      BY <1>6, <2>1 DEF AskByName
    <3> QED BY <3>1, RefusedStep
  <2>2. CASE NamesFit(list)
    <3>1. list \in Seq(Strings)
      BY StringsAssumption
    <3>2. PICK sorted \in Seq(Strings) :
            /\ sorted = Normal(list) /\ ToSet(sorted) = ToSet(list)
            /\ InOrder("names", sorted)
      BY <3>1, NormalList
    <3>3. Answer(k, "names", sorted)
      BY <1>6, <2>2, <3>2 DEF AskByName
    <3>4. \A s \in ToSet(list) : ValidPath(s)
      BY <2>2 DEF NamesFit, ToSet
    <3>5. ToSet(list) # {}
      <4>1. list # <<>>
        BY <2>2, <3>1, EmptySeq, LenProperties DEF NamesFit
      <4> QED BY <3>1, <4>1, SomeElement
    <3>6. Suits("names", sorted)
      BY <3>2, <3>4, <3>5, NoElement DEF Suits
    <3> QED BY <3>3, <3>6, AnswerStep
  <2> QED BY <2>1, <2>2
<1> QED BY <1>1, <1>2, <1>3, <1>4, <1>5, <1>6 DEF Next

LEMMA RulesStutter ==
    ASSUME RulesInv, UNCHANGED vars
    PROVE  RulesInv'
<1>1. /\ live' = live /\ allowed' = allowed /\ stored' = stored /\ by' = by
      /\ answer' = answer
  BY DEF vars
<1>2. LiveOK' /\ AllowedOK'
  BY <1>1 DEF RulesInv, LiveOK, AllowedOK
<1>3. StoredOK'
  BY <1>1 DEF RulesInv, StoredOK, InOrder
<1>4. AnswersBySubtree'
  BY <1>1 DEF RulesInv, AnswersBySubtree, Below
<1> QED BY <1>2, <1>3, <1>4 DEF RulesInv

LEMMA RulesHold ==
    Spec => []RulesInv
<1>1. RulesInv /\ [Next]_vars => RulesInv'
  BY RulesStep, RulesStutter
<1> QED BY RulesInitially, <1>1, PTL DEF Spec

\* Whatever strings are entered, in whatever lists: a caller is refused for
\* its boundary exactly when it names something outside of the named
\* subtrees, and without names it is answered with all there is inside.
THEOREM AnswersBySubtreeHolds ==
    Spec => []AnswersBySubtree
<1>1. RulesInv => AnswersBySubtree
  BY DEF RulesInv
<1> QED BY <1>1, RulesHold, PTL

\* A key that is used again in the same way, by a caller that has to wait, is
\* refused exactly when the set of paths is another one, whatever order and repetitions the lists have
\* and whatever order the database sorts by.
THEOREM KeyNamesOneSetHolds ==
    Spec => KeyNamesOneSet
<1>1. RulesInv /\ [Next]_vars => [KeyStep]_vars
  BY RulesStep
<1>2. [KeyStep]_vars =>
        [\A k \in Keys :
           LET same == ToSet(answer'.paths) = ToSet(stored[k])
           IN  answer'.key = k /\ answer'.form = by[k] =>
                 /\ answer'.status = "conflict" => ~same
                 /\ answer'.status = "waiting" => same /\ stored'[k] = stored[k]]_vars
  BY DEF KeyStep
<1> QED BY <1>1, <1>2, RulesHold, PTL DEF Spec, KeyNamesOneSet
=============================================================================
