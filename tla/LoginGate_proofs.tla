------------------------- MODULE LoginGate_proofs -------------------------
(***************************************************************************)
(* Proofs about LoginGate, for any number of login requests and peers and  *)
(* any limits.                                                             *)
(***************************************************************************)
EXTENDS LoginGate, FiniteSetTheorems, TLAPS

Hashing == {h \in Handlers : pc[h] = "hashing"}
Counts == [0 .. Window - 1 -> Nat]

-----------------------------------------------------------------------------
(* The inductive invariant: entries and lent slots are finitely many, and  *)
(* who has asked has an address.                                           *)

PeersOK == \A h \in Handlers : pc[h] = "asked" => peer[h] \in Peers

FinitelyMany == IsFiniteSet(known) /\ IsFiniteSet(Hashing)

IInv == TypeOK /\ PeersOK /\ FinitelyMany /\ SlotsAreReturned

LEMMA Sizes ==
    Limit \in Nat \ {0} /\ Window \in Nat \ {0} /\ Cap \in Nat \ {0}
      /\ Slots \in Nat \ {0}
BY SizesAssumption

LEMMA CountOne ==
    ASSUME NEW f \in Counts
    PROVE  OneLater(f) \in Counts
BY DEF OneLater, Counts

LEMMA InitIInv == Init => IInv
<1> SUFFICES ASSUME Init PROVE IInv
  OBVIOUS
<1>1. Hashing = {}
  BY DEF Init, Hashing
<1>2. TypeOK
  <2>1. [a \in 0 .. Window - 1 |-> 0] \in Counts
    BY DEF Counts
  <2> QED BY <2>1, Sizes, FS_EmptySet DEF Init, TypeOK, Counts, Places
<1>3. FinitelyMany /\ SlotsAreReturned
  <2>1. SlotsAreReturned <=> taken = Cardinality(Hashing) /\ taken <= Slots
    BY DEF SlotsAreReturned, Hashing
  <2>2. taken = 0 /\ known = {}
    BY DEF Init
  <2> QED BY <1>1, <2>1, <2>2, Sizes, FS_EmptySet DEF FinitelyMany
<1> QED BY <1>2, <1>3 DEF IInv, PeersOK, Init

-----------------------------------------------------------------------------
(* The map of attempts.                                                    *)

\* A stranger is let into the map only while there is room after the sweep.
LEMMA EntriesFit ==
    ASSUME TypeOK, IsFiniteSet(known), NEW p \in Peers, p \in Kept \/ ~Full
    PROVE  /\ IsFiniteSet(Kept \cup {p}) /\ Kept \cup {p} \subseteq Peers
           /\ Cardinality(Kept \cup {p}) <= Cap
<1>1. Kept \in SUBSET known /\ known \subseteq Peers
  BY DEF Kept, TypeOK
<1>2. /\ IsFiniteSet(Kept) /\ Cardinality(Kept) <= Cardinality(known)
      /\ Cardinality(known) \in Nat /\ Cardinality(Kept) \in Nat
  BY <1>1, FS_Subset, FS_CardinalityType
<1>3. Cardinality(Kept) <= Cap
  BY <1>2, Sizes DEF TypeOK
<1>4. p \in Kept \/ Cardinality(Kept) < Cap
  BY <1>2, Sizes DEF Full
<1>5. IsFiniteSet(Kept \cup {p}) /\ Kept \cup {p} \subseteq Peers
  BY <1>1, <1>2, FS_AddElement
<1>6. CASE p \in Kept
  BY <1>3, <1>5, <1>6, FS_AddElement, <1>2
<1>7. CASE p \notin Kept
  <2>1. Cardinality(Kept \cup {p}) = Cardinality(Kept) + 1
    BY <1>2, <1>7, FS_AddElement
  <2> HIDE DEF Kept
  <2>2. Cardinality(Kept) < Cap
    BY <1>4, <1>7
  <2> QED BY <1>2, <1>5, <2>1, <2>2, Sizes
<1> QED BY <1>6, <1>7

LEMMA SweepFits ==
    ASSUME TypeOK, IsFiniteSet(known)
    PROVE  /\ IsFiniteSet(Kept) /\ Kept \subseteq Peers
           /\ Cardinality(Kept) <= Cap
<1>1. Kept \in SUBSET known /\ known \subseteq Peers
  BY DEF Kept, TypeOK
<1>2. /\ IsFiniteSet(Kept) /\ Cardinality(Kept) <= Cardinality(known)
      /\ Cardinality(known) \in Nat /\ Cardinality(Kept) \in Nat
  BY <1>1, FS_Subset, FS_CardinalityType
<1> QED BY <1>1, <1>2, Sizes DEF TypeOK

LEMMA LoginAllowedIInv ==
    ASSUME IInv, NEW h \in Handlers, LoginAllowed(h)
    PROVE  IInv'
<1>0. TypeOK /\ PeersOK /\ FinitelyMany /\ SlotsAreReturned /\ IsFiniteSet(known)
  BY DEF IInv, FinitelyMany
<1>1. PICK p \in Peers : p = peer[h]
  BY <1>0 DEF LoginAllowed, PeersOK
<1>2. /\ pc[h] = "asked" /\ UNCHANGED <<taken, peer>>
      /\ \E place \in {"passed", "refused"} : Go(h, place)
  BY DEF LoginAllowed
<1>3. /\ pc' \in [Handlers -> Places]
      /\ Hashing' = Hashing
      /\ \A g \in Handlers : pc'[g] = "asked" => pc[g] = "asked"
  BY <1>0, <1>2 DEF Go, Hashing, TypeOK, Places
<1>4. IsFiniteSet(known') /\ known' \subseteq Peers /\ Cardinality(known') <= Cap
  <2>1. CASE known' = Kept
    BY <1>0, <2>1, SweepFits
  <2>2. CASE (p \in Kept \/ ~Full) /\ known' = Kept \cup {p}
    BY <1>0, <2>2, EntriesFit
  <2> QED BY <1>1, <2>1, <2>2 DEF LoginAllowed
<1>5. /\ count' \in [Peers -> 0 .. Limit + 1]
      /\ left' \in [Peers -> 0 .. Window + 1]
      /\ recent' \in [Peers -> Counts]
  <2>1. CASE UNCHANGED <<count, left, recent>>
    BY <1>0, <2>1 DEF TypeOK, Counts
  <2>2. CASE /\ count' = [count EXCEPT ![p] = Capped(NextCount(p))]
             /\ left' = [left EXCEPT ![p] = TimeLeft(p)]
             /\ \/ recent' = [recent EXCEPT ![p] = OneLater(@)]
                \/ UNCHANGED recent
    <3>1. NextCount(p) \in Nat /\ Capped(NextCount(p)) \in 0 .. Limit + 1
      BY <1>0, Sizes DEF NextCount, Capped, TypeOK
    <3>2. TimeLeft(p) \in 0 .. Window + 1
      BY <1>0, Sizes DEF TimeLeft, TypeOK
    <3>3. recent[p] \in Counts
      BY <1>0 DEF TypeOK, Counts
    <3>4. OneLater(recent[p]) \in Counts
      BY <3>3, CountOne
    <3>5. recent' \in [Peers -> Counts]
      BY <1>0, <2>2, <3>4 DEF TypeOK, Counts
    <3> QED BY <1>0, <2>2, <3>1, <3>2, <3>5 DEF TypeOK
  <2> QED BY <1>1, <2>1, <2>2 DEF LoginAllowed
<1>6. TypeOK'
  BY <1>0, <1>2, <1>3, <1>4, <1>5 DEF TypeOK, Counts
<1>7. PeersOK'
  BY <1>0, <1>2, <1>3 DEF PeersOK
<1>8. SlotsAreReturned' /\ FinitelyMany'
  BY <1>0, <1>2, <1>3, <1>4 DEF SlotsAreReturned, FinitelyMany, Hashing
<1> QED BY <1>6, <1>7, <1>8 DEF IInv

-----------------------------------------------------------------------------
(* The slots.                                                              *)

\* What a step that leaves the map alone and moves one handler has to keep.
LEMMA MoveIInv ==
    ASSUME IInv, NEW h \in Handlers,
           NEW place \in Places \ {"passed"},
           Go(h, place), UNCHANGED <<count, left, known, recent>>,
           peer' \in [Handlers -> Peers \cup {None}],
           \A g \in Handlers \ {h} : peer'[g] = peer[g],
           place = "asked" => peer'[h] \in Peers,
           taken' \in 0 .. Slots, taken' = Cardinality(Hashing'),
           IsFiniteSet(Hashing')
    PROVE  IInv'
<1>1. TypeOK'
  BY DEF IInv, TypeOK, Go
<1>2. PeersOK'
  BY DEF IInv, PeersOK, TypeOK, Go
<1>3. SlotsAreReturned' /\ FinitelyMany'
  BY DEF IInv, SlotsAreReturned, FinitelyMany, Hashing
<1> QED BY <1>1, <1>2, <1>3 DEF IInv

LEMMA AskIInv ==
    ASSUME IInv, NEW h \in Handlers, NEW p \in Peers, Ask(h, p)
    PROVE  IInv'
<1>1. /\ peer' \in [Handlers -> Peers \cup {None}] /\ peer'[h] = p
      /\ \A g \in Handlers \ {h} : peer'[g] = peer[g]
  BY DEF Ask, IInv, TypeOK
<1>2. Hashing' = Hashing
  BY DEF Ask, Go, IInv, TypeOK, Hashing
<1> QED
  BY <1>1, <1>2, MoveIInv
     DEF Ask, IInv, TypeOK, FinitelyMany, SlotsAreReturned, Hashing, Places

LEMMA TakeSlotIInv ==
    ASSUME IInv, NEW h \in Handlers, TakeSlot(h)
    PROVE  IInv'
<1>1. /\ peer' \in [Handlers -> Peers \cup {None}] /\ UNCHANGED peer
      /\ IsFiniteSet(Hashing) /\ taken = Cardinality(Hashing)
      /\ taken \in 0 .. Slots /\ Slots \in Nat
  BY Sizes DEF TakeSlot, IInv, TypeOK, FinitelyMany, SlotsAreReturned, Hashing
<1>2. CASE taken < Slots /\ taken' = taken + 1 /\ Go(h, "hashing")
  <2>1. Hashing' = Hashing \cup {h} /\ h \notin Hashing
    BY <1>2 DEF TakeSlot, Go, IInv, TypeOK, Hashing
  <2>2. IsFiniteSet(Hashing') /\ taken' = Cardinality(Hashing')
    BY <1>1, <1>2, <2>1, FS_AddElement
  <2> QED BY <1>1, <1>2, <2>2, MoveIInv DEF TakeSlot, Places
<1>3. CASE Go(h, "refused") /\ UNCHANGED taken
  <2>1. Hashing' = Hashing
    BY <1>3 DEF TakeSlot, Go, IInv, TypeOK, Hashing
  <2> QED BY <1>1, <1>3, <2>1, MoveIInv DEF TakeSlot, Places
<1> QED BY <1>2, <1>3 DEF TakeSlot

LEMMA FinishIInv ==
    ASSUME IInv, NEW h \in Handlers, NEW way \in Ways, Finish(h, way)
    PROVE  IInv'
<1>1. peer' \in [Handlers -> Peers \cup {None}] /\ UNCHANGED peer
  BY DEF Finish, IInv, TypeOK
<1>2. Hashing' = Hashing \ {h} /\ h \in Hashing
  BY DEF Finish, Go, IInv, TypeOK, Hashing, Ways
<1>3. /\ IsFiniteSet(Hashing) /\ taken = Cardinality(Hashing)
      /\ taken \in 0 .. Slots /\ Slots \in Nat
  BY Sizes DEF IInv, TypeOK, FinitelyMany, SlotsAreReturned, Hashing
<1>4. taken # 0
  BY <1>2, <1>3, FS_EmptySet
<1>5. IsFiniteSet(Hashing') /\ taken' = Cardinality(Hashing')
  BY <1>2, <1>3, FS_RemoveElement DEF Finish, FreeSlot
<1>6. taken' \in 0 .. Slots
  BY <1>3, <1>4 DEF Finish, FreeSlot
<1>7. way \in Places \ {"passed"} /\ way # "asked"
  BY DEF Ways, Places
<1> QED BY <1>1, <1>5, <1>6, <1>7, MoveIInv DEF Finish

LEMMA AnswerIInv ==
    ASSUME IInv, NEW h \in Handlers, Answer(h)
    PROVE  IInv'
<1>1. /\ peer' \in [Handlers -> Peers \cup {None}]
      /\ \A g \in Handlers \ {h} : peer'[g] = peer[g]
  BY DEF Answer, IInv, TypeOK
<1>2. Hashing' = Hashing
  BY DEF Answer, Go, IInv, TypeOK, Hashing, Ways
<1> QED
  BY <1>1, <1>2, MoveIInv
     DEF Answer, IInv, TypeOK, FinitelyMany, SlotsAreReturned, Hashing, Places

LEMMA TickIInv ==
    ASSUME IInv, Tick
    PROVE  IInv'
<1>1. left' \in [Peers -> 0 .. Window + 1]
  BY Sizes DEF Tick, IInv, TypeOK
<1>2. recent' \in [Peers -> Counts]
  <2> DEFINE shifted(p) == [a \in 0 .. Window - 1 |->
                               IF a = 0 THEN 0 ELSE recent[p][a - 1]]
  <2>1. ASSUME NEW p \in Peers PROVE shifted(p) \in Counts
    <3>1. recent[p] \in Counts
      BY DEF IInv, TypeOK, Counts
    <3>2. ASSUME NEW a \in 0 .. Window - 1, a # 0
          PROVE  recent[p][a - 1] \in Nat
      <4>1. a - 1 \in 0 .. Window - 1
        BY <3>2, Sizes
      <4> QED BY <3>1, <4>1 DEF Counts
    <3> QED BY <3>2 DEF Counts
  <2>2. recent' = [p \in Peers |-> shifted(p)]
    BY DEF Tick
  <2> HIDE DEF shifted
  <2> QED BY <2>1, <2>2
<1>3. UNCHANGED <<count, known, taken, pc, peer>>
  BY DEF Tick
<1>4. TypeOK'
  BY <1>1, <1>2, <1>3 DEF IInv, TypeOK, Counts
<1> QED BY <1>3, <1>4 DEF IInv, PeersOK, FinitelyMany, SlotsAreReturned, Hashing

-----------------------------------------------------------------------------
(* The theorems.                                                           *)

\* Every step keeps the entries within the map and the slots lent to exactly
\* those that hash.
THEOREM Invariance == Spec => []IInv
<1>1. IInv /\ [Next]_vars => IInv'
  <2> SUFFICES ASSUME IInv, [Next]_vars PROVE IInv'
    OBVIOUS
  <2>1. CASE UNCHANGED vars
    BY <2>1 DEF vars, IInv, TypeOK, PeersOK, FinitelyMany, SlotsAreReturned,
                Hashing
  <2> QED
    BY <2>1, LoginAllowedIInv, TakeSlotIInv, FinishIInv, AnswerIInv, AskIInv,
       TickIInv DEF Next, Proceed
<1> QED BY InitIInv, <1>1, PTL DEF Spec

\* The attempts map never holds more than its cap of entries, whatever the
\* peers, and no counter or time leaves its range.
THEOREM TypeCorrect == Spec => []TypeOK
<1>1. IInv => TypeOK
  BY DEF IInv
<1> QED BY <1>1, Invariance, PTL

\* Slots are lent exactly to the logins that hash, at most Slots at a time:
\* none is lost or given back twice on any of the ways a login ends.
THEOREM SlotsAreReturnedHolds == Spec => []SlotsAreReturned
<1>1. IInv => SlotsAreReturned
  BY DEF IInv
<1> QED BY <1>1, Invariance, PTL

-----------------------------------------------------------------------------
(* Spans of a window.  An entry counts what it lets through, so of the     *)
(* attempts in a span no longer than the entry's age, at most its count    *)
(* were let through.  A longer span reaches back before the entry began,   *)
(* but never beyond the entry before it, which let through no more than    *)
(* the limit: an entry lives longer than a span.                           *)

Least(m, n) == IF m <= n THEN m ELSE n
Spans == 0 .. Window - 1

\* Ticks since an entry with so much time left began.
Age(l) == Window + 1 - l

\* n is the count of an entry, l its time left, f what was let through.
Bounded(n, l, f) ==
    \A a \in Spans :
        /\ a <= Age(l) => f[a] <= Least(n, Limit)
        /\ f[a] <= Least(n, Limit) + Limit

\* At the moment an entry runs out nothing has been let through yet.
Fresh(l, f) == l = 0 => f[0] = 0

SpansOK ==
    \A p \in Peers :
        /\ p \notin known => left[p] = 0
        /\ Bounded(count[p], left[p], recent[p])
        /\ Fresh(left[p], recent[p])

\* A further attempt of a live entry, let through or not ...
LEMMA LaterAttempt ==
    ASSUME NEW n \in Nat, NEW l \in 1 .. Window + 1, NEW f \in Counts,
           Bounded(n, l, f)
    PROVE  /\ n + 1 <= Limit => Bounded(n + 1, l, OneLater(f))
           /\ \A m \in Nat : n <= m => Bounded(m, l, f)
<1>1. \A a \in Spans : f[a] \in Nat /\ OneLater(f)[a] = f[a] + 1
  BY DEF Counts, Spans, OneLater
<1>2. ASSUME n + 1 <= Limit PROVE Bounded(n + 1, l, OneLater(f))
  <2>1. Least(n, Limit) = n /\ Least(n + 1, Limit) = n + 1
    BY <1>2, Sizes DEF Least
  <2> QED BY <1>1, <2>1, Sizes DEF Bounded
<1>3. ASSUME NEW m \in Nat, n <= m PROVE Bounded(m, l, f)
  <2>1. /\ Least(n, Limit) <= Least(m, Limit)
        /\ Least(n, Limit) \in Nat /\ Least(m, Limit) \in Nat
    BY <1>3, Sizes DEF Least
  <2>2. ASSUME NEW a \in Spans
        PROVE  /\ a <= Age(l) => f[a] <= Least(m, Limit)
               /\ f[a] <= Least(m, Limit) + Limit
    <3>1. /\ f[a] \in Nat
          /\ a <= Age(l) => f[a] <= Least(n, Limit)
          /\ f[a] <= Least(n, Limit) + Limit
      BY <1>1 DEF Bounded
    <3> QED BY <2>1, <3>1, Sizes
  <2> QED BY <2>2 DEF Bounded
<1> QED BY <1>2, <1>3

\* ... the first one of an entry ...
LEMMA FirstAttempt ==
    ASSUME NEW n \in Nat, NEW f \in Counts, Bounded(n, 0, f), Fresh(0, f)
    PROVE  Bounded(1, Window + 1, OneLater(f))
<1>1. \A a \in Spans : f[a] \in Nat /\ OneLater(f)[a] = f[a] + 1
  BY DEF Counts, Spans, OneLater
<1>2. /\ Least(1, Limit) = 1 /\ Least(n, Limit) \in Nat
      /\ Least(n, Limit) <= Limit
  BY Sizes DEF Least
<1>3. ASSUME NEW a \in Spans
      PROVE  /\ a <= Age(Window + 1) => f[a] + 1 <= 1
             /\ f[a] + 1 <= 1 + Limit
  <2>1. a \in Nat /\ a <= Age(0) /\ Age(Window + 1) = 0
    BY Sizes DEF Spans, Age
  <2>2. f[a] <= Limit
    BY <1>1, <1>2, <2>1, Sizes DEF Bounded
  <2>3. a <= 0 => f[a] = 0
    BY <2>1 DEF Fresh
  <2> QED BY <1>1, <2>1, <2>2, <2>3, Sizes
<1> QED BY <1>1, <1>2, <1>3 DEF Bounded

\* ... and the passing of time.
LEMMA TimePasses ==
    ASSUME NEW n \in Nat, NEW l \in 0 .. Window + 1, NEW f \in Counts,
           NEW k \in Nat, k = (IF l = 0 THEN 0 ELSE l - 1),
           NEW g, g = [a \in 0 .. Window - 1 |-> IF a = 0 THEN 0 ELSE f[a - 1]],
           Bounded(n, l, f)
    PROVE  Bounded(n, k, g) /\ Fresh(k, g)
<1>1. Least(n, Limit) \in Nat
  BY Sizes DEF Least
<1>2. ASSUME NEW a \in Spans
      PROVE  /\ a <= Age(k) => g[a] <= Least(n, Limit)
             /\ g[a] <= Least(n, Limit) + Limit
  <2>1. CASE a = 0
    <3>1. g[a] = 0
      BY <2>1 DEF Spans
    <3> QED BY <1>1, <3>1, Sizes
  <2>2. CASE a # 0
    <3>1. /\ a \in Nat /\ a - 1 \in Spans /\ g[a] = f[a - 1]
          /\ a <= Age(k) => a - 1 <= Age(l)
      BY <2>2, Sizes DEF Spans, Age
    <3>2. f[a - 1] \in Nat
      BY <3>1 DEF Counts, Spans
    <3>3. /\ a - 1 <= Age(l) => f[a - 1] <= Least(n, Limit)
          /\ f[a - 1] <= Least(n, Limit) + Limit
      BY <3>1 DEF Bounded
    <3> QED BY <3>1, <3>2, <3>3
  <2> QED BY <2>1, <2>2
<1>3. Fresh(k, g)
  BY Sizes DEF Fresh
<1> QED BY <1>2, <1>3 DEF Bounded

LEMMA InitSpans == Init => SpansOK
<1> SUFFICES ASSUME Init, NEW p \in Peers
             PROVE  /\ left[p] = 0
                    /\ Bounded(count[p], left[p], recent[p])
                    /\ Fresh(left[p], recent[p])
  BY DEF SpansOK
<1>1. /\ count[p] = 0 /\ left[p] = 0 /\ Least(0, Limit) = 0
      /\ \A a \in Spans : recent[p][a] = 0
  BY Sizes DEF Init, Spans, Least
<1> QED BY <1>1, Sizes DEF Bounded, Fresh, Spans

LEMMA AllowedSpans ==
    ASSUME IInv, SpansOK, NEW h \in Handlers, LoginAllowed(h)
    PROVE  SpansOK'
<1>0. /\ TypeOK /\ PeersOK
      /\ \A q \in Peers : /\ count[q] \in Nat /\ left[q] \in 0 .. Window + 1
                          /\ recent[q] \in Counts
  BY Sizes DEF IInv, TypeOK, Counts
<1>1. PICK p \in Peers : p = peer[h]
  BY <1>0 DEF LoginAllowed, PeersOK
<1>2. \A q \in Peers : q \notin Kept => left[q] = 0
  BY <1>0, Sizes DEF Kept, SpansOK
<1>3. ASSUME known' \in {Kept, Kept \cup {p}}, NEW q \in Peers, q # p,
             count'[q] = count[q], left'[q] = left[q], recent'[q] = recent[q]
      PROVE  /\ q \notin known' => left'[q] = 0
             /\ Bounded(count'[q], left'[q], recent'[q])
             /\ Fresh(left'[q], recent'[q])
  BY <1>2, <1>3 DEF SpansOK
<1>4. CASE known' = Kept /\ UNCHANGED <<count, left, recent>>
  BY <1>2, <1>4 DEF SpansOK
<1>5. CASE /\ known' = Kept \cup {p}
           /\ count' = [count EXCEPT ![p] = Capped(NextCount(p))]
           /\ left' = [left EXCEPT ![p] = TimeLeft(p)]
           /\ \/ /\ WithinLimit(NextCount(p))
                 /\ recent' = [recent EXCEPT ![p] = OneLater(@)]
              \/ ~WithinLimit(NextCount(p)) /\ UNCHANGED recent
  <2>0. /\ count'[p] = Capped(NextCount(p)) /\ left'[p] = TimeLeft(p)
        /\ \/ WithinLimit(NextCount(p)) /\ recent'[p] = OneLater(recent[p])
           \/ ~WithinLimit(NextCount(p)) /\ recent'[p] = recent[p]
    BY <1>0, <1>5 DEF TypeOK
  <2>1. /\ Bounded(count'[p], left'[p], recent'[p])
        /\ left'[p] # 0
    <3>0. Bounded(count[p], left[p], recent[p]) /\ Fresh(left[p], recent[p])
      BY DEF SpansOK
    <3>1. CASE p \in Kept
      <4>1. left[p] \in 1 .. Window + 1 /\ left'[p] = left[p]
        BY <1>0, <2>0, <3>1, Sizes DEF Kept, TimeLeft
      <4>2. CASE WithinLimit(NextCount(p))
        <5>1. count'[p] = count[p] + 1 /\ count[p] + 1 <= Limit
          BY <1>0, <2>0, <3>1, <4>2, Sizes DEF WithinLimit, NextCount, Capped
        <5>2. recent'[p] = OneLater(recent[p])
          BY <2>0, <4>2
        <5> QED BY <1>0, <3>0, <4>1, <5>1, <5>2, LaterAttempt, Sizes
      <4>3. CASE ~WithinLimit(NextCount(p))
        <5>1. count'[p] \in Nat /\ count[p] <= count'[p]
          BY <1>0, <2>0, <3>1, <4>3, Sizes
             DEF WithinLimit, NextCount, Capped, TypeOK
        <5>2. recent'[p] = recent[p]
          BY <2>0, <4>3
        <5> QED BY <1>0, <3>0, <4>1, <5>1, <5>2, LaterAttempt, Sizes
      <4> QED BY <4>2, <4>3
    <3>2. CASE p \notin Kept
      <4>1. /\ left[p] = 0 /\ left'[p] = Window + 1
            /\ count'[p] = 1 /\ recent'[p] = OneLater(recent[p])
        BY <1>2, <2>0, <3>2, Sizes
           DEF TimeLeft, NextCount, Capped, WithinLimit
      <4> QED BY <1>0, <3>0, <4>1, FirstAttempt, Sizes
    <3> QED BY <3>1, <3>2
  <2>2. Fresh(left'[p], recent'[p])
    BY <2>1 DEF Fresh
  <2>3. \A q \in Peers \ {p} : /\ count'[q] = count[q] /\ left'[q] = left[q]
                               /\ recent'[q] = recent[q]
    BY <1>0, <1>5 DEF TypeOK
  <2> QED BY <1>3, <1>5, <2>1, <2>2, <2>3 DEF SpansOK
<1> QED BY <1>1, <1>4, <1>5 DEF LoginAllowed

LEMMA TickSpans ==
    ASSUME IInv, SpansOK, Tick
    PROVE  SpansOK'
<1> SUFFICES ASSUME NEW p \in Peers
             PROVE  /\ p \notin known' => left'[p] = 0
                    /\ Bounded(count'[p], left'[p], recent'[p])
                    /\ Fresh(left'[p], recent'[p])
  BY DEF SpansOK
<1>1. /\ count[p] \in Nat /\ left[p] \in 0 .. Window + 1 /\ recent[p] \in Counts
      /\ p \notin known => left[p] = 0
      /\ Bounded(count[p], left[p], recent[p])
  BY Sizes DEF IInv, TypeOK, Counts, SpansOK
<1>2. /\ known' = known /\ count' = count
      /\ left'[p] = (IF left[p] = 0 THEN 0 ELSE left[p] - 1)
      /\ recent'[p] = [a \in 0 .. Window - 1 |->
                          IF a = 0 THEN 0 ELSE recent[p][a - 1]]
  BY DEF Tick
<1>3. left'[p] \in Nat
  BY <1>1, <1>2, Sizes
<1> QED BY <1>1, <1>2, <1>3, TimePasses

\* However an entry's end and the next one's beginning fall into a span of a
\* window, no more than twice the limit gets through in it.
THEOREM AtMostTwiceTheLimitHolds == Spec => []AtMostTwiceTheLimit
<1>1. IInv /\ SpansOK /\ [Next]_vars => SpansOK'
  <2> SUFFICES ASSUME IInv, SpansOK, [Next]_vars PROVE SpansOK'
    OBVIOUS
  <2>1. CASE UNCHANGED <<count, left, known, recent>>
    BY <2>1 DEF SpansOK
  <2> QED
    BY <2>1, AllowedSpans, TickSpans
       DEF Next, Proceed, TakeSlot, Finish, Answer, Ask, vars
<1>2. IInv /\ SpansOK => AtMostTwiceTheLimit
  <2> SUFFICES ASSUME IInv, SpansOK, NEW p \in Peers
               PROVE  recent[p][Window - 1] <= 2 * Limit
    BY DEF AtMostTwiceTheLimit, LetThrough
  <2>1. /\ count[p] \in Nat /\ recent[p] \in Counts /\ Window - 1 \in Spans
        /\ Bounded(count[p], left[p], recent[p])
    BY Sizes DEF IInv, TypeOK, Counts, SpansOK, Spans
  <2>2. /\ recent[p][Window - 1] \in Nat
        /\ recent[p][Window - 1] <= Least(count[p], Limit) + Limit
    BY <2>1 DEF Bounded, Counts, Spans
  <2>3. Least(count[p], Limit) \in Nat /\ Least(count[p], Limit) <= Limit
    BY <2>1, Sizes DEF Least
  <2> QED BY <2>2, <2>3, Sizes
<1> QED BY <1>1, <1>2, InitSpans, Invariance, PTL DEF Spec
=============================================================================
