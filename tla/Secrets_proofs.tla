--------------------------- MODULE Secrets_proofs ---------------------------
(***************************************************************************)
(* Proofs about Secrets, for any number of paths, values and writers:      *)
(* writers of a path never collide, and the transactions implement         *)
(* SecretHistory.                                                          *)
(***************************************************************************)
EXTENDS Secrets, FiniteSetTheorems, SequenceTheorems, TLAPS

-----------------------------------------------------------------------------
(* Sets of versions that are numbered without a gap.                       *)

Stored == [number : Nat \ {0}, value : Values,
           boundTo : Paths \X (Nat \ {0})]

\* The rows S of one path q: 1, 2, ... each once and each bound to its place.
Numbered(S, q) ==
    /\ S \subseteq Stored /\ IsFiniteSet(S)
    /\ \A v \in S : v.boundTo = <<q, v.number>> /\ v.number <= Cardinality(S)
    /\ \A u, v \in S : u.number = v.number => u = v
    /\ \A n \in 1 .. Cardinality(S) : \E v \in S : v.number = n

ValueIn(S, q, n) ==
    LET readable == {v \in S : v.number = n /\ Opens(v, q)}
    IN  IF readable = {} THEN None ELSE (CHOOSE v \in readable : TRUE).value

HistoryOf(S, q) == [n \in 1 .. Cardinality(S) |-> ValueIn(S, q, n)]

LEMMA CountNat == \A S, q : Numbered(S, q) => Cardinality(S) \in Nat
BY FS_CardinalityType DEF Numbered

\* COALESCE(max(version),0)+1 is the number of rows plus one.
LEMMA NextIsCount ==
    ASSUME NEW q \in Paths, Numbered(stored[q], q)
    PROVE  NextNumber(q) = Cardinality(stored[q]) + 1
<1> DEFINE S == stored[q]
<1>1. Cardinality(S) \in Nat
  BY CountNat
<1>2. CASE S = {}
  BY <1>2, FS_EmptySet DEF NextNumber
<1>3. CASE S # {}
  <2>1. Cardinality(S) # 0
    BY <1>3, FS_EmptySet DEF Numbered
  <2>2. PICK top \in S : top.number = Cardinality(S)
    BY <1>1, <2>1 DEF Numbered
  <2>3. \A v \in S : v.number \in Nat /\ v.number <= top.number
    BY <2>2 DEF Numbered, Stored
  <2>4. top \in Newest(q)
    BY <2>3 DEF Newest
  <2>5. \A v \in Newest(q) : v \in S /\ top.number <= v.number
    BY DEF Newest
  <2>6. (CHOOSE v \in Newest(q) : TRUE) \in Newest(q)
    BY <2>4
  <2>7. (CHOOSE v \in Newest(q) : TRUE).number = top.number
    BY <2>3, <2>5, <2>6
  <2> QED BY <1>1, <1>3, <2>2, <2>7 DEF NextNumber
<1> QED BY <1>2, <1>3

\* A number names one value.
LEMMA ValueOf ==
    ASSUME NEW S, NEW q, Numbered(S, q), NEW v \in S
    PROVE  ValueIn(S, q, v.number) = v.value
<1>1. {u \in S : u.number = v.number /\ Opens(u, q)} = {v}
  BY DEF Numbered, Opens
<1>2. (CHOOSE u \in {v} : TRUE) = v
  OBVIOUS
<1> QED BY <1>1, <1>2 DEF ValueIn

\* What inserting the next version does to the rows, and to the history.
LEMMA AddVersion ==
    ASSUME NEW S, NEW q \in Paths, Numbered(S, q), NEW x \in Values,
           NEW v, v = Seal(x, q, Cardinality(S) + 1)
    PROVE  /\ \A u \in S : u.number # v.number
           /\ Numbered(S \cup {v}, q)
           /\ HistoryOf(S \cup {v}, q) = Append(HistoryOf(S, q), x)
<1> DEFINE N == Cardinality(S)
<1> DEFINE T == S \cup {v}
<1>1. N \in Nat
  BY CountNat
<1>2. v \in Stored /\ v.number = N + 1 /\ v.boundTo = <<q, v.number>> /\ v.value = x
  BY <1>1 DEF Seal, Stored
<1>3. \A u \in S : u.number \in Nat /\ u.number <= N
  BY DEF Numbered, Stored
<1>4. \A u \in S : u.number # v.number
  BY <1>1, <1>2, <1>3
<1>5. IsFiniteSet(T) /\ Cardinality(T) = N + 1
  BY <1>4, FS_AddElement DEF Numbered
<1> HIDE DEF N, T
<1>6. Numbered(T, q)
  <2>1. T \subseteq Stored
    BY <1>2 DEF Numbered, T
  <2>2. \A u \in T : u.boundTo = <<q, u.number>> /\ u.number <= N + 1
    BY <1>1, <1>2, <1>3 DEF Numbered, T
  <2>3. \A u, w \in T : u.number = w.number => u = w
    BY <1>4 DEF Numbered, T
  <2>4. ASSUME NEW n \in 1 .. N + 1 PROVE \E u \in T : u.number = n
    <3>1. CASE n = N + 1
      BY <1>2, <3>1 DEF T
    <3>2. CASE n # N + 1
      BY <1>1, <3>2 DEF Numbered, T, N
    <3> QED BY <3>1, <3>2
  <2> QED BY <1>5, <2>1, <2>2, <2>3, <2>4 DEF Numbered
<1>7. ASSUME NEW n \in 1 .. N PROVE ValueIn(T, q, n) = ValueIn(S, q, n)
  <2>1. PICK u \in S : u.number = n
    BY DEF Numbered, N
  <2> QED BY <1>6, <2>1, ValueOf DEF T
<1>8. ValueIn(T, q, N + 1) = x
  BY <1>2, <1>6, ValueOf DEF T
<1>9. \A n \in 1 .. N : ValueIn(S, q, n) \in Values
  <2> SUFFICES ASSUME NEW n \in 1 .. N PROVE ValueIn(S, q, n) \in Values
    OBVIOUS
  <2>1. PICK u \in S : u.number = n
    BY DEF Numbered, N
  <2>2. u.value \in Values
    BY DEF Numbered, Stored
  <2> QED BY <2>1, <2>2, ValueOf
<1>10. HistoryOf(T, q) = Append(HistoryOf(S, q), x)
  <2> DEFINE h == HistoryOf(S, q)
  <2>1. h = [n \in 1 .. N |-> ValueIn(S, q, n)]
    BY DEF HistoryOf, N
  <2>2. h \in [1 .. N -> Values]
    BY <1>9, <2>1
  <2>3. h \in Seq(Values)
    BY <1>1, <2>2, SeqDef
  <2>4. Len(h) = N
    BY <1>1, <2>2, <2>3, LenProperties
  <2>5. HistoryOf(T, q) = [n \in 1 .. N + 1 |-> ValueIn(T, q, n)]
    BY <1>5 DEF HistoryOf
  <2> DEFINE g == HistoryOf(T, q)
  <2>6. \A n \in 1 .. N + 1 :
           ValueIn(T, q, n) = IF n = N + 1 THEN x ELSE ValueIn(S, q, n)
    BY <1>1, <1>7, <1>8
  <2>7. \A n \in 1 .. N + 1 : ValueIn(T, q, n) \in Values
    BY <1>1, <1>9, <2>6
  <2>8. g \in [1 .. N + 1 -> Values]
    BY <2>5, <2>7
  <2>9. g \in Seq(Values) /\ Len(g) = N + 1
    BY <1>1, <2>8, SeqDef, LenProperties
  <2>10. \A n \in 1 .. N + 1 : g[n] = IF n = N + 1 THEN x ELSE h[n]
    BY <1>1, <2>1, <2>5, <2>6
  <2> HIDE DEF h, g
  <2>11. /\ Append(h, x) \in Seq(Values) /\ Len(Append(h, x)) = N + 1
         /\ \A n \in 1 .. N : Append(h, x)[n] = h[n]
         /\ Append(h, x)[N + 1] = x
    BY <2>3, <2>4, AppendProperties
  <2>12. \A n \in 1 .. N + 1 : g[n] = Append(h, x)[n]
    BY <1>1, <2>10, <2>11
  <2>13. g = Append(h, x)
    BY <2>9, <2>11, <2>12, SeqEqual
  <2> QED BY <2>13 DEF g, h
<1> QED BY <1>4, <1>6, <1>10 DEF T

-----------------------------------------------------------------------------
(* The inductive invariant.                                                *)

Places == Running \cup Ended \cup {"idle"}
Asked == [kind : {"save", "restore", "archive", "read"}, path : Paths,
          value : Values \cup {None}, from : Nat]

Shape ==
    /\ row \in [Paths -> {"none", "live", "archived"}]
    /\ stored \in [Paths -> SUBSET Stored]
    /\ rowLock \in [Paths -> Writers \cup {None}]
    /\ pc \in [Writers -> Places]
    /\ job = [w \in Writers |-> job[w]]
    /\ draft = [w \in Writers |-> draft[w]]

\* The versions of a path are numbered without a gap, and the row is there
\* exactly if there is a version.
RowsOK ==
    \A q \in Paths :
        /\ Numbered(stored[q], q)
        /\ row[q] = "none" <=> stored[q] = {}

Writes(w) == job[w].kind \in {"save", "restore"}
Holds(w) == rowLock[Path(w)] = w

\* What a transaction knows at each place.  Who has drawn a number holds the
\* row, and the number is still the next one.
WriterOK(w) ==
    /\ pc[w] \in Running => job[w] \in Asked
    /\ pc[w] = "insert" => job[w].kind = "save"
    /\ pc[w] \in {"insert", "lock"} /\ job[w].kind = "save" =>
         job[w].value \in Values
    /\ pc[w] = "lock" => job[w].kind # "read"
    /\ pc[w] = "latest" => job[w].kind = "read"
    /\ pc[w] = "old" => job[w].kind = "restore" /\ Holds(w)
    /\ pc[w] \in {"number", "write"} => Writes(w)
    /\ pc[w] \in {"number", "write", "commit"} /\ Writes(w) =>
         Holds(w) /\ job[w].value \in Values
    /\ pc[w] \in {"write", "commit"} /\ Writes(w) =>
         draft[w] = Seal(job[w].value, Path(w), Cardinality(stored[Path(w)]) + 1)
    /\ pc[w] = "commit" /\ job[w].kind = "archive" =>
         Holds(w) /\ row[Path(w)] = "live"
    /\ pc[w] # "conflict"

IInv == Shape /\ RowsOK /\ \A w \in Writers : WriterOK(w)

LEMMA EmptyNumbered == \A q : Numbered({}, q)
BY FS_EmptySet DEF Numbered

LEMMA InitIInv == Init => IInv
<1> SUFFICES ASSUME Init PROVE IInv
  OBVIOUS
<1>1. Shape
  BY DEF Init, Shape, Places
<1>2. RowsOK
  BY EmptyNumbered DEF Init, RowsOK
<1>3. \A w \in Writers : WriterOK(w)
  BY DEF Init, WriterOK, Running
<1> QED BY <1>1, <1>2, <1>3 DEF IInv

-----------------------------------------------------------------------------
(* Steps that leave the tables alone.                                      *)

\* A step of w that takes no lock from another writer.
OwnStep(w) ==
    /\ Shape'
    /\ \A q \in Paths : rowLock[q] \in {None, w} \/ rowLock'[q] = rowLock[q]
    /\ \A o \in Writers \ {w} :
         pc'[o] = pc[o] /\ job'[o] = job[o] /\ draft'[o] = draft[o]

Quiet(w) == OwnStep(w) /\ UNCHANGED <<row, stored>>

\* Running writers that hold their row still hold it.
LEMMA OthersHold ==
    ASSUME IInv, NEW w \in Writers, NEW o \in Writers \ {w}, OwnStep(w),
           pc[o] \in Running, Holds(o)
    PROVE  Holds(o)' /\ Path(o)' = Path(o) /\ Path(o) \in Paths
<1>1. job[o] \in Asked /\ job'[o] = job[o]
  BY DEF IInv, WriterOK, OwnStep
<1>2. Path(o) \in Paths /\ Path(o)' = Path(o)
  BY <1>1 DEF Asked, Path
<1>3. rowLock[Path(o)] = o /\ o # w /\ o # None
  BY NoneAssumption DEF Holds
<1> QED BY <1>2, <1>3 DEF OwnStep, Holds

LEMMA QuietKeeps ==
    ASSUME IInv, NEW w \in Writers, Quiet(w), WriterOK(w)'
    PROVE  IInv'
<1>1. Shape' /\ OwnStep(w) /\ row' = row /\ stored' = stored
  BY DEF Quiet, OwnStep
<1>2. RowsOK'
  BY <1>1 DEF IInv, RowsOK
<1>3. ASSUME NEW o \in Writers \ {w} PROVE WriterOK(o)'
  <2>1. /\ pc'[o] = pc[o] /\ job'[o] = job[o] /\ draft'[o] = draft[o]
        /\ WriterOK(o)
    BY <1>1 DEF OwnStep, IInv
  <2>2. pc[o] \in Running /\ Holds(o) => Holds(o)'
    BY <1>1, OthersHold
  <2> QED BY <1>1, <2>1, <2>2 DEF WriterOK, Writes, Path, Running
<1> QED BY <1>1, <1>2, <1>3 DEF IInv

LEMMA UnlockType ==
    ASSUME IInv, NEW w \in Writers, Unlock(w)
    PROVE  /\ rowLock' \in [Paths -> Writers \cup {None}]
           /\ \A q \in Paths :
                rowLock[q] \in {None, w} \/ rowLock'[q] = rowLock[q]
BY DEF Unlock, IInv, Shape

LEMMA GoType ==
    ASSUME IInv, NEW w \in Writers, NEW place \in Places, Go(w, place)
    PROVE  /\ pc' \in [Writers -> Places]
           /\ pc'[w] = place
           /\ \A o \in Writers \ {w} : pc'[o] = pc[o]
BY DEF Go, IInv, Shape

LEMMA FailKeeps ==
    ASSUME IInv, NEW w \in Writers,
           NEW why \in {"done", "not_found", "failed"}, Fail(w, why)
    PROVE  IInv' /\ UNCHANGED <<row, stored>>
<1>1. why \in Places /\ why \notin Running /\ why # "conflict"
  BY DEF Places, Running, Ended
<1>2. UNCHANGED <<row, stored, job, draft>> /\ Go(w, why) /\ Unlock(w)
  BY DEF Fail, tables
<1>3. Quiet(w)
  BY <1>1, <1>2, UnlockType, GoType DEF Quiet, OwnStep, IInv, Shape
<1>4. WriterOK(w)'
  BY <1>1, <1>2, GoType DEF WriterOK, Running
<1> QED BY <1>2, <1>3, <1>4, QuietKeeps

LEMMA TakeType ==
    ASSUME IInv, NEW w \in Writers, pc[w] \in Running, Take(w),
           rowLock[Path(w)] = None
    PROVE  /\ rowLock' \in [Paths -> Writers \cup {None}]
           /\ rowLock'[Path(w)] = w
           /\ \A q \in Paths :
                rowLock[q] \in {None, w} \/ rowLock'[q] = rowLock[q]
<1>1. Path(w) \in Paths
  BY DEF IInv, WriterOK, Asked, Path
<1> QED BY <1>1 DEF Take, IInv, Shape

-----------------------------------------------------------------------------
(* The actions.                                                            *)

LEMMA StartKeeps ==
    ASSUME IInv, NEW w \in Writers, Request(w)
    PROVE  IInv' /\ UNCHANGED <<row, stored>>
<1>1. PICK j \in Asked, place \in {"insert", "lock", "latest"} :
        /\ Start(w, j, place)
        /\ place = "insert" => j.kind = "save"
        /\ place \in {"insert", "lock"} /\ j.kind = "save" =>
             j.value \in Values
        /\ place = "lock" => j.kind # "read"
        /\ place = "latest" => j.kind = "read"
  <2>1. PICK q \in Paths : \/ \E x \in Values : StartSave(w, q, x)
                           \/ \E v \in stored[q] : StartRestore(w, q, v.number)
                           \/ StartArchive(w, q)
                           \/ StartRead(w, q)
    BY DEF Request
  <2>2. CASE \E x \in Values : StartSave(w, q, x)
    BY <2>2 DEF StartSave, Asked
  <2>3. CASE \E v \in stored[q] : StartRestore(w, q, v.number)
    <3>1. \A v \in stored[q] : v.number \in Nat
      BY DEF IInv, Shape, Stored
    <3> QED BY <2>3, <3>1 DEF StartRestore, Asked
  <2>4. CASE StartArchive(w, q)
    BY <2>4 DEF StartArchive, Asked
  <2>5. CASE StartRead(w, q)
    BY <2>5 DEF StartRead, Asked
  <2> QED BY <2>1, <2>2, <2>3, <2>4, <2>5
<1>2. place \in Places
  BY DEF Places, Running
<1>3. /\ UNCHANGED <<row, stored, rowLock, draft>> /\ Go(w, place)
      /\ job' = [job EXCEPT ![w] = j]
  BY <1>1 DEF Start, tables
<1>4. job'[w] = j /\ \A o \in Writers \ {w} : job'[o] = job[o]
  BY <1>3 DEF IInv, Shape
<1>5. Quiet(w)
  BY <1>2, <1>3, <1>4, GoType DEF Quiet, OwnStep, IInv, Shape
<1>6. pc'[w] = place
  BY <1>2, <1>3, GoType
<1>7. WriterOK(w)'
  BY <1>1, <1>4, <1>6 DEF WriterOK, Writes
<1> QED BY <1>3, <1>5, <1>7, QuietKeeps

LEMMA WaitsKeeps ==
    ASSUME IInv, NEW w \in Writers, Waits(w)
    PROVE  IInv' /\ UNCHANGED <<row, stored>>
<1>0. WriterOK(w)
  BY DEF IInv
<1>1. CASE Insert(w)
  <2>1. UNCHANGED <<row, stored, job, draft>> /\ pc[w] = "insert"
    BY <1>1 DEF Insert, tables
  <2>2. CASE rowLock[Path(w)] = None /\ Take(w) /\ Go(w, "number")
    <3>1. Quiet(w) /\ Holds(w)' /\ pc'[w] = "number"
      BY <2>1, <2>2, TakeType, GoType
         DEF Quiet, OwnStep, IInv, Shape, Holds, Path, Places, Running
    <3>2. WriterOK(w)'
      BY <1>0, <2>1, <3>1 DEF WriterOK, Writes, Running
    <3> QED BY <2>1, <3>1, <3>2, QuietKeeps
  <2>3. CASE Go(w, "lock") /\ UNCHANGED rowLock
    <3>1. Quiet(w) /\ pc'[w] = "lock"
      BY <2>1, <2>3, GoType DEF Quiet, OwnStep, IInv, Shape, Places, Running
    <3>2. WriterOK(w)'
      BY <1>0, <2>1, <3>1 DEF WriterOK, Running
    <3> QED BY <2>1, <3>1, <3>2, QuietKeeps
  <2> QED BY <1>1, <2>2, <2>3 DEF Insert
<1>2. CASE Lock(w)
  <2>1. CASE Fail(w, "not_found")
    BY <2>1, FailKeeps
  <2>2. CASE ~Fail(w, "not_found")
    <3>1. /\ pc[w] = "lock" /\ Writes(w) /\ rowLock[Path(w)] = None /\ Take(w)
          /\ Go(w, IF job[w].kind = "save" THEN "number" ELSE "old")
          /\ UNCHANGED <<row, stored, job, draft>>
      BY <1>2, <2>2 DEF Lock, Free, Writes, tables
    <3>2. /\ Quiet(w) /\ Holds(w)'
          /\ pc'[w] = IF job[w].kind = "save" THEN "number" ELSE "old"
      BY <3>1, TakeType, GoType
         DEF Quiet, OwnStep, IInv, Shape, Holds, Path, Places, Running
    <3>3. WriterOK(w)'
      BY <1>0, <3>1, <3>2 DEF WriterOK, Writes, Running
    <3> QED BY <3>1, <3>2, <3>3, QuietKeeps
  <2> QED BY <2>1, <2>2
<1>3. CASE ArchiveRow(w)
  <2>1. CASE Fail(w, "not_found")
    BY <2>1, FailKeeps
  <2>2. CASE ~Fail(w, "not_found")
    <3>1. /\ pc[w] = "lock" /\ job[w].kind = "archive"
          /\ row[Path(w)] = "live" /\ rowLock[Path(w)] = None /\ Take(w)
          /\ Go(w, "commit")
          /\ UNCHANGED <<row, stored, job, draft>>
      BY <1>3, <2>2 DEF ArchiveRow, Free, tables
    <3>2. Quiet(w) /\ Holds(w)' /\ pc'[w] = "commit"
      BY <3>1, TakeType, GoType
         DEF Quiet, OwnStep, IInv, Shape, Holds, Path, Places, Running
    <3>3. WriterOK(w)'
      BY <1>0, <3>1, <3>2 DEF WriterOK, Writes, Path, Running
    <3> QED BY <3>1, <3>2, <3>3, QuietKeeps
  <2> QED BY <2>1, <2>2
<1> QED BY <1>1, <1>2, <1>3 DEF Waits

LEMMA FoundIs ==
    ASSUME IInv, NEW w \in Writers, job[w] \in Asked, NEW v \in Found(w)
    PROVE  v.value \in Values
<1>1. Path(w) \in Paths
  BY DEF Asked, Path
<1> QED BY <1>1 DEF Found, Selected, IInv, Shape, Stored

LEMMA ReadKeeps ==
    ASSUME IInv, NEW w \in Writers, ReadOld(w) \/ ReadNewest(w)
    PROVE  IInv' /\ UNCHANGED <<row, stored>>
<1>0. WriterOK(w)
  BY DEF IInv
<1>1. CASE Unread(w)
  BY <1>1, FailKeeps DEF Unread
<1>2. CASE ~Unread(w)
  <2>1. job[w] \in Asked /\ pc[w] \in {"old", "latest"}
    BY <1>0 DEF ReadOld, ReadNewest, WriterOK, Running
  <2>2. PICK v \in Found(w) :
          /\ job' = [job EXCEPT ![w].value = v.value]
          /\ Go(w, IF pc[w] = "old" THEN "number" ELSE "commit")
          /\ UNCHANGED <<row, stored, rowLock, draft>>
    BY <1>2 DEF ReadOld, ReadNewest, tables
  <2>3. v.value \in Values
    BY <2>1, FoundIs
  <2>4. /\ job'[w] = [job[w] EXCEPT !.value = v.value]
        /\ \A o \in Writers \ {w} : job'[o] = job[o]
        /\ job' = [o \in Writers |-> job'[o]]
    BY <2>2 DEF IInv, Shape
  <2>5. /\ job'[w] \in Asked /\ job'[w].value = v.value
        /\ job'[w].kind = job[w].kind /\ job'[w].path = job[w].path
    BY <2>1, <2>3, <2>4 DEF Asked
  <2>6. Quiet(w) /\ pc'[w] = IF pc[w] = "old" THEN "number" ELSE "commit"
    BY <2>2, <2>4, GoType DEF Quiet, OwnStep, IInv, Shape, Places, Running
  <2>7. WriterOK(w)'
    BY <1>0, <2>1, <2>2, <2>3, <2>5, <2>6
       DEF WriterOK, Writes, Holds, Path, Running
  <2> QED BY <2>2, <2>6, <2>7, QuietKeeps
<1> QED BY <1>1, <1>2

LEMMA TakeNumberKeeps ==
    ASSUME IInv, NEW w \in Writers, TakeNumber(w)
    PROVE  IInv' /\ UNCHANGED <<row, stored>>
<1>0. WriterOK(w)
  BY DEF IInv
<1>1. /\ pc[w] = "number" /\ Go(w, "write")
      /\ UNCHANGED <<row, stored, rowLock, job>>
      /\ draft' = [draft EXCEPT
            ![w] = Seal(job[w].value, Path(w), NextNumber(Path(w)))]
  BY DEF TakeNumber, tables
<1>2. Path(w) \in Paths
  BY <1>0, <1>1 DEF WriterOK, Running, Asked, Path
<1>3. NextNumber(Path(w)) = Cardinality(stored[Path(w)]) + 1
  BY <1>2, NextIsCount DEF IInv, RowsOK
<1>4. /\ draft'[w] = Seal(job[w].value, Path(w), NextNumber(Path(w)))
      /\ \A o \in Writers \ {w} : draft'[o] = draft[o]
      /\ draft' = [o \in Writers |-> draft'[o]]
  BY <1>1 DEF IInv, Shape
<1>5. Quiet(w) /\ pc'[w] = "write"
  BY <1>1, <1>4, GoType DEF Quiet, OwnStep, IInv, Shape, Places, Running
<1>6. WriterOK(w)'
  BY <1>0, <1>1, <1>3, <1>4, <1>5 DEF WriterOK, Writes, Holds, Path, Running
<1> QED BY <1>1, <1>5, <1>6, QuietKeeps

\* The number that was drawn is free: INSERT INTO secret_versions succeeds.
LEMMA WriteKeeps ==
    ASSUME IInv, NEW w \in Writers, Write(w)
    PROVE  IInv' /\ UNCHANGED <<row, stored>>
<1>0. WriterOK(w) /\ pc[w] = "write"
  BY DEF IInv, Write
<1>1. Path(w) \in Paths /\ Numbered(stored[Path(w)], Path(w))
  BY <1>0 DEF WriterOK, Running, Asked, Path, IInv, RowsOK
<1>2. draft[w].number = Cardinality(stored[Path(w)]) + 1
  BY <1>0 DEF WriterOK, Seal
<1>3. \A v \in stored[Path(w)] : v.number # draft[w].number
  <2>1. Cardinality(stored[Path(w)]) \in Nat
    BY <1>1, CountNat
  <2> QED BY <1>1, <1>2, <2>1 DEF Numbered, Stored
<1>4. Go(w, "commit") /\ UNCHANGED <<row, stored, rowLock, job, draft>>
  BY <1>3 DEF Write, tables
<1>5. Quiet(w) /\ pc'[w] = "commit"
  BY <1>4, GoType DEF Quiet, OwnStep, IInv, Shape, Places, Running
<1>6. WriterOK(w)'
  BY <1>0, <1>4, <1>5 DEF WriterOK, Writes, Holds, Path, Running
<1> QED BY <1>4, <1>5, <1>6, QuietKeeps

\* Where a transaction that is about to commit stands.
LEMMA AtCommit ==
    ASSUME IInv, NEW w \in Writers, pc[w] = "commit"
    PROVE  /\ Path(w) \in Paths /\ Numbered(stored[Path(w)], Path(w))
           /\ Writes(w) =>
                /\ Holds(w) /\ job[w].value \in Values
                /\ draft[w] = Seal(job[w].value, Path(w),
                                   Cardinality(stored[Path(w)]) + 1)
           /\ job[w].kind = "archive" => Holds(w) /\ row[Path(w)] = "live"
<1>1. WriterOK(w)
  BY DEF IInv
<1>2. Path(w) \in Paths
  BY <1>1 DEF WriterOK, Running, Asked, Path
<1> QED BY <1>1, <1>2 DEF WriterOK, IInv, RowsOK

\* The drafts of others are not disturbed: none of them holds the row.
LEMMA CommitKeeps ==
    ASSUME IInv, NEW w \in Writers, Commit(w)
    PROVE  IInv'
<1>0. pc[w] = "commit" /\ Go(w, "done") /\ Unlock(w) /\ UNCHANGED <<job, draft>>
  BY DEF Commit
<1> DEFINE p == Path(w)
<1>1. p \in Paths /\ Numbered(stored[p], p)
  BY <1>0, AtCommit
<1>2. /\ \A q \in Paths \ {p} : row'[q] = row[q] /\ stored'[q] = stored[q]
      /\ row' \in [Paths -> {"none", "live", "archived"}]
      /\ stored' = [q \in Paths |-> stored'[q]]
      /\ \/ row'[p] = row[p] /\ stored'[p] = stored[p]
         \/ /\ Holds(w)
            /\ row'[p] = "archived" /\ row[p] = "live" /\ stored'[p] = stored[p]
         \/ /\ Holds(w) /\ Writes(w)
            /\ row'[p] = "live" /\ stored'[p] = stored[p] \cup {draft[w]}
  <2>1. CASE job[w].kind = "read" /\ UNCHANGED <<row, stored>>
    BY <1>1, <2>1 DEF IInv, Shape
  <2>2. CASE /\ job[w].kind = "archive"
             /\ row' = [row EXCEPT ![p] = "archived"] /\ UNCHANGED stored
    BY <1>0, <1>1, <2>2, AtCommit DEF IInv, Shape
  <2>3. CASE /\ Writes(w) /\ row' = [row EXCEPT ![p] = "live"]
             /\ stored' = [stored EXCEPT ![p] = @ \cup {draft[w]}]
    BY <1>0, <1>1, <2>3, AtCommit DEF IInv, Shape
  <2> QED BY <2>1, <2>2, <2>3 DEF Commit, Writes, AfterWrite
<1>3. Numbered(stored'[p], p) /\ (row'[p] = "none" <=> stored'[p] = {})
  <2>1. row[p] = "none" <=> stored[p] = {}
    BY <1>1 DEF IInv, RowsOK
  <2>2. CASE stored'[p] = stored[p]
    BY <1>1, <1>2, <2>1, <2>2
  <2>3. CASE Writes(w) /\ row'[p] = "live" /\ stored'[p] = stored[p] \cup {draft[w]}
    <3>1. Numbered(stored[p] \cup {draft[w]}, p)
      BY <1>0, <1>1, <2>3, AtCommit, AddVersion
    <3> QED BY <2>3, <3>1
  <2> QED BY <1>2, <2>2, <2>3
<1> HIDE DEF p
<1>4. RowsOK'
  BY <1>2, <1>3 DEF IInv, RowsOK
<1>5. Shape'
  <2>1. stored' \in [Paths -> SUBSET Stored]
    BY <1>2, <1>4 DEF RowsOK, Numbered
  <2>2. "done" \in Places
    BY DEF Places, Ended
  <2> QED BY <1>0, <1>2, <2>1, <2>2, UnlockType, GoType DEF IInv, Shape
<1>6. OwnStep(w)
  <2>1. "done" \in Places
    BY DEF Places, Ended
  <2> QED BY <1>0, <1>5, <2>1, UnlockType, GoType DEF OwnStep
<1>7. WriterOK(w)'
  <2>1. pc'[w] = "done"
    BY <1>0, GoType DEF Places, Ended
  <2> QED BY <2>1 DEF WriterOK, Running
<1>8. ASSUME NEW o \in Writers \ {w} PROVE WriterOK(o)'
  <2>1. /\ pc'[o] = pc[o] /\ job'[o] = job[o] /\ draft'[o] = draft[o]
        /\ WriterOK(o)
    BY <1>6 DEF OwnStep, IInv
  <2>2. pc[o] \in Running /\ Holds(o) =>
          /\ Holds(o)' /\ Path(o)' = Path(o)
          /\ row'[Path(o)] = row[Path(o)] /\ stored'[Path(o)] = stored[Path(o)]
    <3> SUFFICES ASSUME pc[o] \in Running, Holds(o)
                 PROVE  /\ Holds(o)' /\ Path(o)' = Path(o)
                        /\ row'[Path(o)] = row[Path(o)]
                        /\ stored'[Path(o)] = stored[Path(o)]
      OBVIOUS
    <3>1. Holds(o)' /\ Path(o)' = Path(o) /\ Path(o) \in Paths
      BY <1>6, OthersHold
    <3>2. Path(o) = p => ~Holds(w)
      BY DEF Holds, p
    <3> QED BY <1>2, <3>1, <3>2
  <2>3. Path(o)' = Path(o)
    BY <2>1 DEF Path
  <2> QED BY <2>1, <2>2, <2>3 DEF WriterOK, Writes, Running
<1> QED BY <1>4, <1>5, <1>7, <1>8 DEF IInv

LEMMA RespondKeeps ==
    ASSUME IInv, NEW w \in Writers, Respond(w)
    PROVE  IInv' /\ UNCHANGED <<row, stored>>
<1>1. /\ UNCHANGED <<row, stored, rowLock>> /\ Go(w, "idle")
      /\ job' = [job EXCEPT ![w] = NoJob]
      /\ draft' = [draft EXCEPT ![w] = NoDraft]
  BY DEF Respond, tables
<1>2. "idle" \in Places
  BY DEF Places
<1>3. Quiet(w) /\ pc'[w] = "idle"
  BY <1>1, <1>2, GoType DEF Quiet, OwnStep, IInv, Shape
<1>4. WriterOK(w)'
  BY <1>3 DEF WriterOK, Running
<1> QED BY <1>1, <1>3, <1>4, QuietKeeps

\* Every step keeps the invariant, and only a commit changes the tables.
LEMMA NextIInv ==
    ASSUME IInv, [Next]_vars
    PROVE  /\ IInv'
           /\ UNCHANGED <<row, stored>> \/ \E w \in Writers : Commit(w)
<1>1. CASE UNCHANGED vars
  <2>1. UNCHANGED <<row, stored, rowLock, pc, job, draft>>
    BY <1>1 DEF vars, tables
  <2> QED BY <2>1 DEF IInv, Shape, RowsOK, WriterOK, Writes, Holds, Path
<1>2. ASSUME NEW w \in Writers, Request(w) \/ Waits(w) \/ Works(w) \/ Abort(w)
      PROVE  IInv' /\ (UNCHANGED <<row, stored>> \/ Commit(w))
  <2>1. CASE Request(w)
    BY <2>1, StartKeeps
  <2>2. CASE Waits(w)
    BY <2>2, WaitsKeeps
  <2>3. CASE ReadOld(w) \/ ReadNewest(w)
    BY <2>3, ReadKeeps
  <2>4. CASE TakeNumber(w)
    BY <2>4, TakeNumberKeeps
  <2>5. CASE Write(w)
    BY <2>5, WriteKeeps
  <2>6. CASE Commit(w)
    BY <2>6, CommitKeeps
  <2>7. CASE Respond(w)
    BY <2>7, RespondKeeps
  <2>8. CASE Abort(w)
    BY <2>8, FailKeeps DEF Abort
  <2> QED BY <1>2, <2>1, <2>2, <2>3, <2>4, <2>5, <2>6, <2>7, <2>8 DEF Works
<1> QED BY <1>1, <1>2 DEF Next

\* Spec keeps the invariant: rows of a path are numbered 1, 2, ... and bound
\* to their place, and who has drawn a number holds the row.
THEOREM Invariance == Spec => []IInv
<1>1. IInv /\ [Next]_vars => IInv'
  BY NextIInv
<1> QED BY InitIInv, <1>1, PTL DEF Spec

\* Concurrent writers of a path never draw the same version, for any number of
\* writers, paths and versions: SaveSecret and Restore never meet
\* UNIQUE(secret_id, version).
THEOREM NoVersionConflictHolds == Spec => []NoVersionConflict
<1>1. IInv => NoVersionConflict
  BY DEF IInv, WriterOK, NoVersionConflict
<1> QED BY <1>1, Invariance, PTL

-----------------------------------------------------------------------------
(* The refinement of SecretHistory.                                        *)

HistoryNow == [q \in Paths |->
                  [n \in 1 .. Cardinality(stored[q]) |-> Value(q, n)]]
ArchivedNow == {q \in Paths : row[q] = "archived"}

LEMMA HistoryAt == HistoryNow = [q \in Paths |-> HistoryOf(stored[q], q)]
BY DEF HistoryNow, HistoryOf, Value, ValueIn

LEMMA InitHistory == Init => History!Init
<1> SUFFICES ASSUME Init PROVE History!Init
  OBVIOUS
<1>1. Cardinality({}) = 0
  BY FS_EmptySet
<1>2. ArchivedNow = {}
  BY DEF Init, ArchivedNow
<1>3. HistoryNow = [q \in Paths |-> <<>>]
  <2>1. \A q \in Paths : Cardinality(stored[q]) = 0
    BY <1>1 DEF Init
  <2>2. \A q \in Paths : [n \in 1 .. Cardinality(stored[q]) |-> Value(q, n)] = <<>>
    BY <2>1
  <2> QED BY <2>2 DEF HistoryNow
<1> QED BY <1>2, <1>3 DEF History!Init, HistoryNow, ArchivedNow

LEMMA StutterHistory ==
    UNCHANGED <<row, stored>> => UNCHANGED History!vars
BY DEF History!vars, Value, Opens

\* A commit is one step of the promise: a new last version, an archiving, or
\* nothing.
LEMMA CommitHistory ==
    ASSUME IInv, NEW w \in Writers, Commit(w)
    PROVE  [History!Next]_History!vars
<1>1. pc[w] = "commit"
  BY DEF Commit
<1>2. PICK p \in Paths : p = Path(w)
  BY <1>1, AtCommit
<1>3. p \in Paths /\ Numbered(stored[p], p)
  BY <1>1, <1>2, AtCommit
<1>4. CASE UNCHANGED <<row, stored>>
  BY <1>4, StutterHistory
<1>5. CASE /\ job[w].kind = "archive"
           /\ row' = [row EXCEPT ![p] = "archived"] /\ UNCHANGED stored
  <2>1. row[p] = "live" /\ stored[p] # {}
    BY <1>1, <1>2, <1>3, <1>5, AtCommit DEF IInv, RowsOK
  <2>2. p \notin ArchivedNow /\ ArchivedNow' = ArchivedNow \cup {p}
    BY <1>3, <1>5, <2>1 DEF ArchivedNow, IInv, Shape
  <2>3. HistoryNow' = HistoryNow
    BY <1>5, HistoryAt DEF HistoryNow, Value, Opens
  <2>4. HistoryNow[p] # <<>>
    <3>1. Cardinality(stored[p]) \in Nat \ {0}
      BY <1>3, <2>1, FS_EmptySet, FS_CardinalityType DEF Numbered
    <3>2. HistoryNow[p] = [n \in 1 .. Cardinality(stored[p]) |-> Value(p, n)]
      BY <1>3 DEF HistoryNow
    <3>3. 1 \in DOMAIN HistoryNow[p]
      BY <3>1, <3>2
    <3> QED BY <3>3
  <2>5. History!Archive(p)
    BY <2>2, <2>3, <2>4 DEF History!Archive, HistoryNow, ArchivedNow
  <2> QED BY <1>3, <2>5 DEF History!Next
<1>6. CASE /\ Writes(w) /\ row' = [row EXCEPT ![p] = "live"]
           /\ stored' = [stored EXCEPT ![p] = @ \cup {draft[w]}]
  <2>1. PICK x \in Values :
          draft[w] = Seal(x, p, Cardinality(stored[p]) + 1)
    BY <1>1, <1>2, <1>6, AtCommit
  <2>2. HistoryOf(stored[p] \cup {draft[w]}, p)
          = Append(HistoryOf(stored[p], p), x)
    BY <1>3, <2>1, AddVersion
  <2>3. ArchivedNow' = ArchivedNow \ {p}
    BY <1>3, <1>6 DEF ArchivedNow, IInv, Shape
  <2>4. /\ stored'[p] = stored[p] \cup {draft[w]}
        /\ \A q \in Paths \ {p} : stored'[q] = stored[q]
    BY <1>3, <1>6 DEF IInv, Shape
  <2>5. HistoryNow' = [q \in Paths |-> HistoryOf(stored'[q], q)]
    BY HistoryAt DEF HistoryNow, HistoryOf, Value, ValueIn, Opens
  <2>6. HistoryNow' = [HistoryNow EXCEPT ![p] = Append(@, x)]
    BY <1>3, <2>2, <2>4, <2>5, HistoryAt
  <2>7. History!Save(p, x)
    BY <2>3, <2>6 DEF History!Save, HistoryNow, ArchivedNow
  <2> QED BY <1>3, <2>1, <2>7 DEF History!Next
<1>7. \/ UNCHANGED <<row, stored>>
      \/ /\ job[w].kind = "archive"
         /\ row' = [row EXCEPT ![p] = "archived"] /\ UNCHANGED stored
      \/ /\ Writes(w) /\ row' = [row EXCEPT ![p] = "live"]
         /\ stored' = [stored EXCEPT ![p] = @ \cup {draft[w]}]
  BY <1>2 DEF Commit, Writes, AfterWrite
<1> QED BY <1>4, <1>5, <1>6, <1>7

\* The transactions of secrets.go, interleaved in any way and rolled back at
\* any place, do what SecretHistory promises: a committed version is appended
\* with the value that was asked for, stays as it is and opens.
THEOREM ImplementsHistoryHolds == Spec => ImplementsHistory
<1>1. Init => History!Init
  BY InitHistory
<1>2. IInv /\ [Next]_vars => [History!Next]_History!vars
  <2> SUFFICES ASSUME IInv, [Next]_vars PROVE [History!Next]_History!vars
    OBVIOUS
  <2>1. UNCHANGED <<row, stored>> \/ \E w \in Writers : Commit(w)
    BY NextIInv
  <2> QED BY <2>1, StutterHistory, CommitHistory
<1> QED BY <1>1, <1>2, Invariance, PTL DEF Spec, ImplementsHistory, History!Spec

-----------------------------------------------------------------------------
(* The audit trail.                                                        *)

EventNames == {"SECRET_CREATED", "SECRET_UPDATED", "SECRET_RESTORED",
               "SECRET_ARCHIVED", "SECRET_READ"}
Recorded == [id : Nat \ {0}, event : EventNames]

\* The events of a transaction that draws its numbers from n on.
FirstEvent(w) ==
    CASE job[w].kind = "read"    -> "SECRET_READ"
      [] job[w].kind = "archive" -> "SECRET_ARCHIVED"
      [] OTHER -> IF draft[w].number = 1 THEN "SECRET_CREATED" ELSE "SECRET_UPDATED"
Drawn(w) == IF job[w].kind = "restore" THEN 2 ELSE 1
Told(w, n) ==
    {[id |-> n, event |-> FirstEvent(w)]}
      \cup IF job[w].kind = "restore"
           THEN {[id |-> n + 1, event |-> "SECRET_RESTORED"]} ELSE {}

Created(q) == {e \in log[q] : e.event = "SECRET_CREATED"}

\* Numbers in the trail have been drawn, and a path without a version has no
\* event.
LogOK ==
    /\ nextEvent \in Nat \ {0}
    /\ mine = [w \in Writers |-> mine[w]]
    /\ log \in [Paths -> SUBSET Recorded]
    /\ \A q \in Paths :
         /\ IsFiniteSet(log[q])
         /\ \A e \in log[q] : e.id < nextEvent
         /\ stored[q] = {} => log[q] = {}

\* What a transaction has drawn is later than every change of its path that
\* the trail shows; what a read has drawn, than the creation of its path.
MineOK(w) ==
    pc[w] = "commit" =>
      \E n \in 1 .. nextEvent :
        /\ n + Drawn(w) <= nextEvent
        /\ mine[w] = Told(w, n)
        /\ job[w].kind # "read" => \A e \in Changes(Path(w)) : e.id < n
        /\ job[w].kind = "read" =>
             /\ stored[Path(w)] # {}
             /\ \A e \in Created(Path(w)) : e.id < n

TrailInv == LogOK /\ TrailAgrees /\ \A w \in Writers : MineOK(w)

\* Sets of which TrailAgrees speaks, with the tables of one path as parameters.
ChangesIn(E) == {e \in E : e.event # "SECRET_READ"}
CreatedIn(E) == {e \in E : e.event = "SECRET_CREATED"}
VersionsIn(E) == {e \in E : e.event \in {"SECRET_CREATED", "SECRET_UPDATED"}}

\* TrailAgrees of one path, whose row is r, with versions S and events E.
Agrees(r, S, E) ==
    /\ Cardinality(VersionsIn(E)) = Cardinality(S)
    /\ Cardinality(CreatedIn(E)) = IF S = {} THEN 0 ELSE 1
    /\ \A e \in CreatedIn(E), f \in E : e.id <= f.id
    /\ r = "archived" <=> \E e \in Last(ChangesIn(E)) : e.event = "SECRET_ARCHIVED"

LEMMA TrailByPath ==
    TrailAgrees <=> \A q \in Paths : Agrees(row[q], stored[q], log[q])
<1>1. ASSUME NEW q \in Paths
      PROVE  /\ Changes(q) = ChangesIn(log[q])
             /\ {e \in Changes(q) : e.event = "SECRET_CREATED"} = CreatedIn(log[q])
             /\ {e \in Changes(q) : e.event = "SECRET_CREATED"}
                  \cup {e \in Changes(q) : e.event = "SECRET_UPDATED"}
                  = VersionsIn(log[q])
  BY DEF Changes, ChangesIn, CreatedIn, VersionsIn
<1> QED BY <1>1 DEF TrailAgrees, Agrees

\* A read leaves the trail of changes as it is, and comes after the creation.
LEMMA AddRead ==
    ASSUME NEW r, NEW S, NEW E, Agrees(r, S, E), NEW n,
           \A e \in CreatedIn(E) : e.id <= n,
           NEW e0, e0 = [id |-> n, event |-> "SECRET_READ"]
    PROVE  Agrees(r, S, E \cup {e0})
<1>1. e0.event = "SECRET_READ" /\ e0.id = n
  OBVIOUS
<1>2. /\ VersionsIn(E \cup {e0}) = VersionsIn(E)
      /\ CreatedIn(E \cup {e0}) = CreatedIn(E)
      /\ ChangesIn(E \cup {e0}) = ChangesIn(E)
  BY <1>1 DEF VersionsIn, CreatedIn, ChangesIn
<1>3. \A e \in CreatedIn(E), f \in E \cup {e0} : e.id <= f.id
  BY <1>1 DEF Agrees
<1> QED BY <1>2, <1>3 DEF Agrees

\* The newest of the changes, when one is added that is later than all.
LEMMA LastOfMore ==
    ASSUME NEW E, E \subseteq Recorded, NEW e0 \in Recorded,
           \A e \in E : e.id < e0.id
    PROVE  Last(E \cup {e0}) = {e0}
<1>1. \A e \in E \cup {e0} : e.id \in Nat
  BY DEF Recorded
<1>2. \A e \in E \cup {e0} : e.id <= e0.id
  BY <1>1
<1>3. \A e \in E : ~(e0.id <= e.id)
  BY <1>1
<1> QED BY <1>2, <1>3 DEF Last

\* An archiving is the last change, and no version.
LEMMA AddArchiving ==
    ASSUME NEW r, NEW S, NEW E, Agrees(r, S, E), E \subseteq Recorded,
           NEW n \in Nat \ {0}, \A e \in ChangesIn(E) : e.id < n,
           NEW e0, e0 = [id |-> n, event |-> "SECRET_ARCHIVED"]
    PROVE  Agrees("archived", S, E \cup {e0})
<1>1. e0.event = "SECRET_ARCHIVED" /\ e0.id = n /\ e0 \in Recorded
  BY DEF Recorded, EventNames
<1>2. /\ VersionsIn(E \cup {e0}) = VersionsIn(E)
      /\ CreatedIn(E \cup {e0}) = CreatedIn(E)
      /\ ChangesIn(E \cup {e0}) = ChangesIn(E) \cup {e0}
  BY <1>1 DEF VersionsIn, CreatedIn, ChangesIn
<1>3. Last(ChangesIn(E \cup {e0})) = {e0}
  <2>1. ChangesIn(E) \subseteq Recorded
    BY DEF ChangesIn
  <2> QED BY <1>1, <1>2, <2>1, LastOfMore
<1>4. \A e \in CreatedIn(E) : e.id \in Nat /\ e.id < n
  BY DEF CreatedIn, ChangesIn, Recorded
<1>5. \A e \in CreatedIn(E), f \in E \cup {e0} : e.id <= f.id
  BY <1>1, <1>4 DEF Agrees
<1> QED BY <1>1, <1>2, <1>3, <1>5 DEF Agrees

\* A version is told by one event, the first one by the creation.
LEMMA AddVersionEvent ==
    ASSUME NEW r, NEW S, IsFiniteSet(S), NEW E, Agrees(r, S, E),
           E \subseteq Recorded, IsFiniteSet(E), S = {} => E = {},
           NEW n \in Nat \ {0}, \A e \in ChangesIn(E) : e.id < n,
           NEW v, v \notin S,
           NEW e0,
           e0 = [id |-> n,
                 event |-> IF S = {} THEN "SECRET_CREATED" ELSE "SECRET_UPDATED"]
    PROVE  Agrees("live", S \cup {v}, E \cup {e0})
<1>1. /\ e0.id = n /\ e0 \in Recorded
      /\ e0.event = IF S = {} THEN "SECRET_CREATED" ELSE "SECRET_UPDATED"
  BY DEF Recorded, EventNames
<1>2. /\ VersionsIn(E \cup {e0}) = VersionsIn(E) \cup {e0}
      /\ ChangesIn(E \cup {e0}) = ChangesIn(E) \cup {e0}
      /\ CreatedIn(E \cup {e0}) = IF S = {} THEN {e0} ELSE CreatedIn(E)
  BY <1>1 DEF VersionsIn, CreatedIn, ChangesIn
<1>3. Last(ChangesIn(E \cup {e0})) = {e0}
  <2>1. ChangesIn(E) \subseteq Recorded
    BY DEF ChangesIn
  <2> QED BY <1>1, <1>2, <2>1, LastOfMore
<1>4. Cardinality(VersionsIn(E) \cup {e0}) = Cardinality(S \cup {v})
  <2>1. VersionsIn(E) \subseteq ChangesIn(E)
    BY DEF VersionsIn, ChangesIn
  <2>2. e0 \notin VersionsIn(E)
    BY <1>1, <2>1
  <2>3. IsFiniteSet(VersionsIn(E))
    BY FS_Subset DEF VersionsIn
  <2>4. Cardinality(VersionsIn(E) \cup {e0}) = Cardinality(VersionsIn(E)) + 1
    BY <2>2, <2>3, FS_AddElement
  <2>5. Cardinality(S \cup {v}) = Cardinality(S) + 1
    BY FS_AddElement
  <2> QED BY <2>4, <2>5 DEF Agrees
<1>5. Cardinality(CreatedIn(E \cup {e0})) = 1
  <2>1. CASE S = {}
    BY <1>2, <2>1, FS_Singleton
  <2>2. CASE S # {}
    BY <1>2, <2>2 DEF Agrees
  <2> QED BY <2>1, <2>2
<1>6. \A e \in CreatedIn(E \cup {e0}), f \in E \cup {e0} : e.id <= f.id
  <2>1. \A e \in CreatedIn(E) : e.id \in Nat /\ e.id < n
    BY DEF CreatedIn, ChangesIn, Recorded
  <2>2. CASE S = {}
    BY <1>1, <1>2, <2>2
  <2>3. CASE S # {}
    BY <1>1, <1>2, <2>1, <2>3 DEF Agrees
  <2> QED BY <2>2, <2>3
<1> DEFINE T == S \cup {v}
           F == E \cup {e0}
<1>7. T # {}
  OBVIOUS
<1>8. ~ \E e \in Last(ChangesIn(F)) : e.event = "SECRET_ARCHIVED"
  <2>1. e0.event # "SECRET_ARCHIVED"
    BY <1>1
  <2>2. \A e \in Last(ChangesIn(F)) : e = e0
    BY <1>3
  <2> QED BY <2>1, <2>2, Zenon
<1>9. Cardinality(VersionsIn(F)) = Cardinality(T)
  BY <1>2, <1>4
<1> HIDE DEF T, F
<1>10. Agrees("live", T, F)
  BY <1>5, <1>6, <1>7, <1>8, <1>9 DEF Agrees, F
<1> QED BY <1>10 DEF T, F

\* The event a restoring adds to that of its version.
LEMMA AddRestoring ==
    ASSUME NEW S, NEW E, Agrees("live", S, E), E \subseteq Recorded,
           NEW n \in Nat \ {0}, \A e \in ChangesIn(E) : e.id < n,
           NEW e0, e0 = [id |-> n, event |-> "SECRET_RESTORED"]
    PROVE  Agrees("live", S, E \cup {e0})
<1>1. e0.event = "SECRET_RESTORED" /\ e0.id = n /\ e0 \in Recorded
  BY DEF Recorded, EventNames
<1>2. /\ VersionsIn(E \cup {e0}) = VersionsIn(E)
      /\ CreatedIn(E \cup {e0}) = CreatedIn(E)
      /\ ChangesIn(E \cup {e0}) = ChangesIn(E) \cup {e0}
  BY <1>1 DEF VersionsIn, CreatedIn, ChangesIn
<1>3. Last(ChangesIn(E \cup {e0})) = {e0}
  <2>1. ChangesIn(E) \subseteq Recorded
    BY DEF ChangesIn
  <2> QED BY <1>1, <1>2, <2>1, LastOfMore
<1>4. \A e \in CreatedIn(E) : e.id \in Nat /\ e.id < n
  BY DEF CreatedIn, ChangesIn, Recorded
<1>5. \A e \in CreatedIn(E), f \in E \cup {e0} : e.id <= f.id
  BY <1>1, <1>4 DEF Agrees
<1> QED BY <1>1, <1>2, <1>3, <1>5 DEF Agrees

\* What Record draws and inserts.
LEMMA RecordOne ==
    ASSUME NEW w \in Writers, mine = [o \in Writers |-> mine[o]],
           nextEvent \in Nat, NEW name, Record(w, <<name>>)
    PROVE  /\ nextEvent' = nextEvent + 1
           /\ mine' = [mine EXCEPT ![w] = {[id |-> nextEvent, event |-> name]}]
<1> DEFINE es == <<name>>
<1>1. Len(es) = 1 /\ DOMAIN es = {1} /\ es[1] = name
  OBVIOUS
<1> HIDE DEF es
<1> DEFINE told(i) == [id |-> nextEvent + i - 1, event |-> es[i]]
<1>2. {told(i) : i \in DOMAIN es} = {[id |-> nextEvent, event |-> name]}
  <2>1. nextEvent + 1 - 1 = nextEvent
    OBVIOUS
  <2>2. told(1) = [id |-> nextEvent, event |-> name]
    BY <1>1, <2>1
  <2> HIDE DEF told
  <2>3. {told(i) : i \in {1}} = {told(1)}
    OBVIOUS
  <2> QED BY <1>1, <2>2, <2>3
<1>3. Record(w, es)
  BY DEF es
<1> QED BY <1>1, <1>2, <1>3 DEF Record

LEMMA RecordTwo ==
    ASSUME NEW w \in Writers, mine = [o \in Writers |-> mine[o]],
           nextEvent \in Nat, NEW a, NEW b, Record(w, <<a, b>>)
    PROVE  /\ nextEvent' = nextEvent + 2
           /\ mine' = [mine EXCEPT ![w] = {[id |-> nextEvent, event |-> a],
                                           [id |-> nextEvent + 1, event |-> b]}]
<1> DEFINE es == <<a, b>>
<1>1. Len(es) = 2 /\ DOMAIN es = {1, 2} /\ es[1] = a /\ es[2] = b
  OBVIOUS
<1> HIDE DEF es
<1> DEFINE told(i) == [id |-> nextEvent + i - 1, event |-> es[i]]
<1>2. {told(i) : i \in DOMAIN es}
        = {[id |-> nextEvent, event |-> a], [id |-> nextEvent + 1, event |-> b]}
  <2>1. nextEvent + 1 - 1 = nextEvent /\ nextEvent + 2 - 1 = nextEvent + 1
    OBVIOUS
  <2>2. told(1) = [id |-> nextEvent, event |-> a]
    BY <1>1, <2>1
  <2>3. told(2) = [id |-> nextEvent + 1, event |-> b]
    BY <1>1, <2>1
  <2> HIDE DEF told
  <2>4. {told(i) : i \in {1, 2}} = {told(1), told(2)}
    OBVIOUS
  <2> QED BY <1>1, <2>2, <2>3, <2>4
<1>3. Record(w, es)
  BY DEF es
<1> QED BY <1>1, <1>2, <1>3 DEF Record

LEMMA Concatenated ==
    ASSUME NEW a, NEW b
    PROVE  <<a>> \o <<b>> = <<a, b>> /\ <<a>> \o <<>> = <<a>>
<1> DEFINE A == {a, b}
           s == <<a>>
           t == <<b>>
           u == <<a, b>>
<1>1. /\ s \in Seq(A) /\ Len(s) = 1 /\ s[1] = a
      /\ t \in Seq(A) /\ Len(t) = 1 /\ t[1] = b
      /\ u \in Seq(A) /\ Len(u) = 2 /\ u[1] = a /\ u[2] = b
  OBVIOUS
<1> HIDE DEF A, s, t, u
<1>2. /\ s \o t \in Seq(A) /\ Len(s \o t) = 2
      /\ \A i \in 1 .. 2 : (s \o t)[i] = IF i <= 1 THEN s[i] ELSE t[i - 1]
  BY <1>1, ConcatProperties
<1>3. (s \o t)[1] = a /\ (s \o t)[2] = b
  BY <1>1, <1>2
<1>4. \A i \in 1 .. 2 : (s \o t)[i] = u[i]
  <2>1. \A i \in 1 .. 2 : i = 1 \/ i = 2
    OBVIOUS
  <2> QED BY <1>1, <1>3, <2>1, Zenon
<1>5. s \o t = u
  BY <1>1, <1>2, <1>4, SeqEqual
<1>6. s \o <<>> = s
  BY <1>1, ConcatEmptySeq
<1> QED BY <1>5, <1>6 DEF s, t, u

\* The step of w leaves the transactions of others as they are.
OthersStay(w) ==
    /\ mine' = [o \in Writers |-> mine'[o]]
    /\ \A o \in Writers \ {w} :
         /\ pc'[o] = pc[o] /\ job'[o] = job[o]
         /\ draft'[o] = draft[o] /\ mine'[o] = mine[o]

\* A step of w that tells nothing, and one that draws the numbers of its events.
Silent(w) ==
    /\ OthersStay(w)
    /\ UNCHANGED <<tables, nextEvent>>
    /\ pc'[w] # "commit"
    /\ mine'[w] = mine[w] \/ mine'[w] = {}

Draws(w) ==
    /\ OthersStay(w)
    /\ UNCHANGED <<tables, draft>>
    /\ pc[w] # "commit" /\ pc'[w] = "commit"
    /\ job'[w].kind = job[w].kind /\ job'[w].path = job[w].path
    /\ mine'[w] = Told(w, nextEvent)
    /\ nextEvent' = nextEvent + Drawn(w)
    /\ Path(w) \in Paths
    /\ job[w].kind = "read" => stored[Path(w)] # {}

LEMMA InitTrail == Init => TrailInv
<1> SUFFICES ASSUME Init PROVE TrailInv
  OBVIOUS
<1>1. LogOK
  BY FS_EmptySet DEF Init, LogOK, Recorded
<1>2. \A q \in Paths : Agrees("none", {}, {})
  <2>1. VersionsIn({}) = {} /\ CreatedIn({}) = {} /\ Last(ChangesIn({})) = {}
    BY DEF VersionsIn, CreatedIn, ChangesIn, Last
  <2> QED BY <2>1, FS_EmptySet DEF Agrees
<1>3. TrailAgrees
  BY <1>2, TrailByPath DEF Init
<1>4. \A w \in Writers : MineOK(w)
  BY DEF Init, MineOK
<1> QED BY <1>1, <1>3, <1>4 DEF TrailInv

\* What the numbers of a transaction say depends on no more than this.
LEMMA MineStays ==
    ASSUME NEW o \in Writers, MineOK(o), pc'[o] = "commit", pc[o] = "commit",
           job'[o] = job[o], draft'[o] = draft[o], mine'[o] = mine[o],
           nextEvent \in Nat, nextEvent' \in Nat, nextEvent <= nextEvent',
           stored[Path(o)] # {} => stored'[Path(o)] # {},
           job[o].kind # "read" => ChangesIn(log'[Path(o)]) = ChangesIn(log[Path(o)]),
           job[o].kind = "read" => CreatedIn(log'[Path(o)]) = CreatedIn(log[Path(o)])
    PROVE  MineOK(o)'
<1> DEFINE q == Path(o)
<1>1. PICK n \in 1 .. nextEvent :
        /\ n + Drawn(o) <= nextEvent
        /\ mine[o] = Told(o, n)
        /\ job[o].kind # "read" => \A e \in ChangesIn(log[q]) : e.id < n
        /\ job[o].kind = "read" => stored[q] # {} /\ \A e \in CreatedIn(log[q]) : e.id < n
  BY DEF MineOK, Changes, Created, ChangesIn, CreatedIn
<1>2. Path(o)' = Path(o)
  BY DEF Path
<1>3. Drawn(o)' = Drawn(o) /\ Drawn(o) \in Nat
  BY DEF Drawn
<1>4. Told(o, n)' = Told(o, n)
  BY DEF Told, FirstEvent
<1>5. n \in 1 .. nextEvent' /\ n + Drawn(o) <= nextEvent'
  BY <1>1, <1>3
<1>6. job[o].kind # "read" => \A e \in ChangesIn(log'[q]) : e.id < n
  BY <1>1
<1>7. job[o].kind = "read" => stored'[q] # {} /\ \A e \in CreatedIn(log'[q]) : e.id < n
  BY <1>1
<1> HIDE DEF q
<1>8. /\ (n + Drawn(o) <= nextEvent)'
      /\ mine'[o] = Told(o, n)'
      /\ job'[o].kind # "read" => \A e \in Changes(Path(o))' : e.id < n
      /\ job'[o].kind = "read" =>
           /\ stored'[Path(o)'] # {}
           /\ \A e \in Created(Path(o))' : e.id < n
  BY <1>1, <1>2, <1>3, <1>4, <1>5, <1>6, <1>7
     DEF q, Changes, Created, ChangesIn, CreatedIn
<1> QED BY <1>5, <1>8 DEF MineOK

LEMMA SilentTrail ==
    ASSUME TrailInv, NEW w \in Writers, Silent(w)
    PROVE  TrailInv'
<1>1. UNCHANGED <<row, stored, log, nextEvent>> /\ OthersStay(w) /\ pc'[w] # "commit"
  BY DEF Silent, tables
<1>2. LogOK'
  BY <1>1 DEF TrailInv, LogOK, OthersStay
<1>3. TrailAgrees'
  BY <1>1 DEF TrailInv, TrailAgrees, Changes, Last
<1>4. ASSUME NEW o \in Writers PROVE MineOK(o)'
  <2>1. CASE o = w
    BY <1>1, <2>1 DEF MineOK
  <2>2. CASE o # w /\ pc'[o] = "commit"
    BY <1>1, <2>2, MineStays DEF TrailInv, LogOK, OthersStay
  <2> QED BY <2>1, <2>2 DEF MineOK
<1> QED BY <1>2, <1>3, <1>4 DEF TrailInv

LEMMA DrawsTrail ==
    ASSUME TrailInv, NEW w \in Writers, Draws(w)
    PROVE  TrailInv'
<1>1. UNCHANGED <<row, stored, log, draft>> /\ OthersStay(w) /\ pc'[w] = "commit"
  BY DEF Draws, tables
<1>2. /\ nextEvent \in Nat \ {0} /\ nextEvent' = nextEvent + Drawn(w)
      /\ Drawn(w) \in 1 .. 2
  BY DEF TrailInv, LogOK, Draws, Drawn
<1>3. LogOK'
  <2>1. \A q \in Paths : \A e \in log[q] : e.id \in Nat /\ e.id < nextEvent
    BY DEF TrailInv, LogOK, Recorded
  <2>2. nextEvent' \in Nat \ {0}
    BY <1>2
  <2>3. \A q \in Paths : \A e \in log[q] : e.id < nextEvent'
    BY <1>2, <2>1
  <2> QED BY <1>1, <2>2, <2>3 DEF TrailInv, LogOK, OthersStay
<1>4. TrailAgrees'
  BY <1>1 DEF TrailInv, TrailAgrees, Changes, Last
<1>5. MineOK(w)'
  <2>1. PICK n : n = nextEvent
    OBVIOUS
  <2>2. n \in 1 .. nextEvent' /\ n + Drawn(w) <= nextEvent'
    BY <1>2, <2>1
  <2>3. job'[w].kind = job[w].kind /\ Path(w)' = Path(w) /\ draft' = draft
    BY DEF Draws, Path
  <2>4. Told(w, n)' = Told(w, n) /\ Drawn(w)' = Drawn(w)
    BY <2>3 DEF Told, FirstEvent, Drawn
  <2>5. Path(w) \in Paths /\ (job[w].kind = "read" => stored[Path(w)] # {})
    BY DEF Draws
  <2>6. \A e \in log[Path(w)] : e.id < n
    BY <2>1, <2>5 DEF TrailInv, LogOK
  <2>7. mine'[w] = Told(w, n)
    BY <2>1 DEF Draws
  <2>8. /\ (n + Drawn(w) <= nextEvent)'
        /\ mine'[w] = Told(w, n)'
        /\ \A e \in Changes(Path(w))' : e.id < n
        /\ \A e \in Created(Path(w))' : e.id < n
        /\ job'[w].kind = "read" => stored'[Path(w)'] # {}
    BY <1>1, <2>2, <2>3, <2>4, <2>5, <2>6, <2>7 DEF Changes, Created
  <2> QED BY <2>2, <2>8 DEF MineOK
<1>6. ASSUME NEW o \in Writers \ {w} PROVE MineOK(o)'
  <2>1. CASE pc'[o] = "commit"
    BY <1>1, <1>2, <2>1, MineStays DEF TrailInv, OthersStay
  <2> QED BY <2>1 DEF MineOK
<1> QED BY <1>3, <1>4, <1>5, <1>6 DEF TrailInv

\* What a transaction of kind k with versions S inserted is told by, from n on.
FirstOf(k, S) ==
    CASE k = "read"    -> "SECRET_READ"
      [] k = "archive" -> "SECRET_ARCHIVED"
      [] OTHER -> IF S = {} THEN "SECRET_CREATED" ELSE "SECRET_UPDATED"

\* The commit of w, which inserts the events e0 and, restoring, e1 of path p.
Commits(w, p, k, n, e0, e1) ==
    /\ Path(w) = p /\ job[w].kind = k
    /\ e0 = [id |-> n, event |-> FirstOf(k, stored[p])]
    /\ e1 = [id |-> n + 1, event |-> "SECRET_RESTORED"]
    /\ log' = [log EXCEPT ![p] = @ \cup
                  ({e0} \cup IF k = "restore" THEN {e1} ELSE {})]
    /\ n < nextEvent /\ (k = "restore" => n + 1 < nextEvent)
    /\ k # "read" => \A e \in ChangesIn(log[p]) : e.id < n
    /\ k = "read" => stored[p] # {} /\ \A e \in CreatedIn(log[p]) : e.id < n
    /\ k = "read" => UNCHANGED <<row, stored>>
    /\ k = "archive" =>
         /\ Holds(w) /\ stored[p] # {} /\ UNCHANGED stored
         /\ row' = [row EXCEPT ![p] = "archived"]
    /\ k \in {"save", "restore"} =>
         /\ Holds(w) /\ draft[w] \notin stored[p]
         /\ row' = [row EXCEPT ![p] = "live"]
         /\ stored' = [stored EXCEPT ![p] = @ \cup {draft[w]}]

LEMMA Committing ==
    ASSUME IInv, TrailInv, NEW w \in Writers, Commit(w)
    PROVE  \E p \in Paths, k \in {"save", "restore", "archive", "read"},
              n \in Nat \ {0}, e0 \in Recorded, e1 \in Recorded :
                Commits(w, p, k, n, e0, e1)
<1>1. pc[w] = "commit"
  BY DEF Commit
<1>2. PICK p \in Paths, k \in {"save", "restore", "archive", "read"} :
        p = Path(w) /\ k = job[w].kind
  <2>1. job[w] \in Asked
    BY <1>1 DEF IInv, WriterOK, Running
  <2> QED BY <2>1 DEF Asked, Path
<1>3. PICK n \in 1 .. nextEvent :
        /\ n + Drawn(w) <= nextEvent
        /\ mine[w] = Told(w, n)
        /\ k # "read" => \A e \in ChangesIn(log[p]) : e.id < n
        /\ k = "read" => stored[p] # {} /\ \A e \in CreatedIn(log[p]) : e.id < n
  BY <1>1, <1>2 DEF TrailInv, MineOK, Changes, Created, ChangesIn, CreatedIn
<1>4. nextEvent \in Nat /\ n \in Nat \ {0}
  BY DEF TrailInv, LogOK
<1>5. PICK e0, e1 : /\ e0 = [id |-> n, event |-> FirstOf(k, stored[p])]
                    /\ e1 = [id |-> n + 1, event |-> "SECRET_RESTORED"]
  OBVIOUS
<1>6. e0 \in Recorded /\ e1 \in Recorded
  BY <1>4, <1>5 DEF Recorded, EventNames, FirstOf
<1>7. k \in {"save", "restore"} =>
        /\ Holds(w) /\ draft[w] \notin stored[p]
        /\ draft[w].number = 1 <=> stored[p] = {}
  <2> SUFFICES ASSUME k \in {"save", "restore"}
               PROVE  /\ Holds(w) /\ draft[w] \notin stored[p]
                      /\ draft[w].number = 1 <=> stored[p] = {}
    OBVIOUS
  <2>1. /\ Holds(w) /\ job[w].value \in Values /\ Numbered(stored[p], p)
        /\ draft[w] = Seal(job[w].value, p, Cardinality(stored[p]) + 1)
    BY <1>1, <1>2, AtCommit DEF Writes
  <2>2. \A u \in stored[p] : u.number # draft[w].number
    BY <2>1, AddVersion
  <2>3. draft[w].number = Cardinality(stored[p]) + 1
    BY <2>1 DEF Seal
  <2>4. Cardinality(stored[p]) \in Nat /\ (Cardinality(stored[p]) = 0 <=> stored[p] = {})
    BY <2>1, CountNat, FS_EmptySet DEF Numbered
  <2> QED BY <2>1, <2>2, <2>3, <2>4
<1>8. Told(w, n) = {e0} \cup IF k = "restore" THEN {e1} ELSE {}
  <2>1. FirstEvent(w) = FirstOf(k, stored[p])
    BY <1>2, <1>7 DEF FirstEvent, FirstOf
  <2> QED BY <1>2, <1>5, <2>1 DEF Told
<1>9. n < nextEvent /\ (k = "restore" => n + 1 < nextEvent)
  BY <1>2, <1>3, <1>4 DEF Drawn
<1>10. log' = [log EXCEPT ![p] = @ \cup
                 ({e0} \cup IF k = "restore" THEN {e1} ELSE {})]
  BY <1>2, <1>3, <1>8 DEF Commit
<1>11. k = "archive" => Holds(w) /\ stored[p] # {}
  BY <1>1, <1>2, AtCommit DEF IInv, RowsOK
<1>12. /\ k = "read" => UNCHANGED <<row, stored>>
       /\ k = "archive" => UNCHANGED stored /\ row' = [row EXCEPT ![p] = "archived"]
       /\ k \in {"save", "restore"} =>
             /\ row' = [row EXCEPT ![p] = "live"]
             /\ stored' = [stored EXCEPT ![p] = @ \cup {draft[w]}]
  BY <1>2 DEF Commit, AfterWrite
<1>13. Commits(w, p, k, n, e0, e1)
  BY <1>2, <1>3, <1>5, <1>7, <1>9, <1>10, <1>11, <1>12 DEF Commits
<1> QED BY <1>4, <1>6, <1>13


\* The trail of the path that is committed still retells what happened to it.
LEMMA CommitAgrees ==
    ASSUME IInv, TrailInv, NEW w \in Writers, NEW p \in Paths,
           NEW k \in {"save", "restore", "archive", "read"},
           NEW n \in Nat \ {0}, NEW e0 \in Recorded, NEW e1 \in Recorded,
           Commits(w, p, k, n, e0, e1)
    PROVE  Agrees(row'[p], stored'[p], log'[p])
<1>1. /\ Agrees(row[p], stored[p], log[p]) /\ IsFiniteSet(stored[p])
      /\ log[p] \subseteq Recorded /\ IsFiniteSet(log[p])
      /\ stored[p] = {} => log[p] = {}
  BY TrailByPath DEF TrailInv, LogOK, IInv, RowsOK, Numbered
<1>2. /\ e0 = [id |-> n, event |-> FirstOf(k, stored[p])]
      /\ e1 = [id |-> n + 1, event |-> "SECRET_RESTORED"]
      /\ log'[p] = log[p] \cup ({e0} \cup IF k = "restore" THEN {e1} ELSE {})
  BY DEF Commits, TrailInv, LogOK
<1>3. CASE k = "read"
  <2>1. e0 = [id |-> n, event |-> "SECRET_READ"] /\ log'[p] = log[p] \cup {e0}
    BY <1>2, <1>3 DEF FirstOf
  <2>2. row'[p] = row[p] /\ stored'[p] = stored[p]
    BY <1>3 DEF Commits
  <2>3. \A e \in CreatedIn(log[p]) : e.id <= n
    <3>1. \A e \in CreatedIn(log[p]) : e.id \in Nat /\ e.id < n
      BY <1>1, <1>3 DEF Commits, CreatedIn, Recorded
    <3> QED BY <3>1
  <2> QED BY <1>1, <2>1, <2>2, <2>3, AddRead
<1>4. CASE k = "archive"
  <2>1. e0 = [id |-> n, event |-> "SECRET_ARCHIVED"] /\ log'[p] = log[p] \cup {e0}
    BY <1>2, <1>4 DEF FirstOf
  <2>2. row'[p] = "archived" /\ stored'[p] = stored[p]
    BY <1>4 DEF Commits, IInv, Shape
  <2>3. \A e \in ChangesIn(log[p]) : e.id < n
    BY <1>4 DEF Commits
  <2> QED BY <1>1, <2>1, <2>2, <2>3, AddArchiving
<1>5. CASE k \in {"save", "restore"}
  <2>1. e0 = [id |-> n, event |-> IF stored[p] = {} THEN "SECRET_CREATED"
                                                    ELSE "SECRET_UPDATED"]
    BY <1>2, <1>5 DEF FirstOf
  <2>2. PICK v : v = draft[w]
    OBVIOUS
  <2>3. row'[p] = "live" /\ stored'[p] = stored[p] \cup {v} /\ v \notin stored[p]
    BY <1>5, <2>2 DEF Commits, IInv, Shape
  <2>4. \A e \in ChangesIn(log[p]) : e.id < n
    BY <1>5 DEF Commits
  <2>5. Agrees("live", stored[p] \cup {v}, log[p] \cup {e0})
    BY <1>1, <2>1, <2>3, <2>4, AddVersionEvent
  <2>6. CASE k = "save"
    BY <1>2, <2>3, <2>5, <2>6
  <2>7. CASE k = "restore"
    <3>1. \A e \in ChangesIn(log[p] \cup {e0}) : e.id < n + 1
      <4>1. \A e \in ChangesIn(log[p]) : e.id \in Nat
        BY <1>1 DEF ChangesIn, Recorded
      <4>2. e0.id = n
        BY <1>2
      <4>3. \A e \in ChangesIn(log[p] \cup {e0}) : e \in ChangesIn(log[p]) \/ e = e0
        BY DEF ChangesIn
      <4> QED BY <2>4, <4>1, <4>2, <4>3
    <3>2. log[p] \cup {e0} \subseteq Recorded /\ n + 1 \in Nat \ {0}
      BY <1>1
    <3>3. Agrees("live", stored[p] \cup {v}, (log[p] \cup {e0}) \cup {e1})
      BY <1>2, <2>5, <3>1, <3>2, AddRestoring
    <3>4. log'[p] = (log[p] \cup {e0}) \cup {e1}
      BY <1>2, <2>7
    <3> QED BY <2>3, <3>3, <3>4
  <2> QED BY <1>5, <2>6, <2>7
<1> QED BY <1>3, <1>4, <1>5

LEMMA CommitTrail ==
    ASSUME IInv, TrailInv, NEW w \in Writers, Commit(w)
    PROVE  TrailInv'
<1>1. PICK p \in Paths, k \in {"save", "restore", "archive", "read"},
           n \in Nat \ {0}, e0 \in Recorded, e1 \in Recorded :
             Commits(w, p, k, n, e0, e1)
  BY Committing
<1>2. /\ pc[w] = "commit" /\ Go(w, "done")
      /\ UNCHANGED <<nextEvent, job, draft, mine>>
  BY DEF Commit
<1>3. \A o \in Writers \ {w} : pc'[o] = pc[o]
  BY <1>2, GoType DEF Places, Ended
<1>4. pc'[w] = "done"
  BY <1>2, GoType DEF Places, Ended
<1>5. /\ \A q \in Paths \ {p} :
            row'[q] = row[q] /\ stored'[q] = stored[q] /\ log'[q] = log[q]
      /\ log' = [q \in Paths |-> log'[q]]
      /\ log'[p] = log[p] \cup ({e0} \cup IF k = "restore" THEN {e1} ELSE {})
  BY <1>1 DEF Commits, IInv, Shape, TrailInv, LogOK
<1>6. stored'[p] # {} /\ (stored[p] # {} => CreatedIn(log'[p]) = CreatedIn(log[p]))
  <2>1. stored'[p] # {}
    <3>1. CASE k \in {"read", "archive"}
      BY <1>1, <3>1 DEF Commits
    <3>2. CASE k \in {"save", "restore"}
      BY <1>1, <3>2 DEF Commits, IInv, Shape
    <3> QED BY <3>1, <3>2
  <2>2. ASSUME stored[p] # {}
        PROVE  e0.event # "SECRET_CREATED" /\ e1.event # "SECRET_CREATED"
    BY <1>1, <2>2 DEF Commits, FirstOf
  <2> QED BY <1>5, <2>1, <2>2 DEF CreatedIn
<1>7. LogOK'
  <2>1. /\ e0.id = n /\ e1.id = n + 1 /\ n < nextEvent
        /\ k = "restore" => n + 1 < nextEvent
    BY <1>1 DEF Commits
  <2>2. /\ log'[p] \subseteq Recorded /\ IsFiniteSet(log'[p])
        /\ \A e \in log'[p] : e.id < nextEvent
    <3>1. PICK T : T = {e0} \cup IF k = "restore" THEN {e1} ELSE {}
      OBVIOUS
    <3>2. IsFiniteSet(T)
      BY <3>1, FS_Singleton, FS_EmptySet, FS_Union
    <3>3. IsFiniteSet(log[p] \cup T)
      BY <3>2, FS_Union DEF TrailInv, LogOK
    <3>4. T \subseteq Recorded /\ \A e \in T : e.id < nextEvent
      BY <2>1, <3>1
    <3>5. log'[p] = log[p] \cup T
      BY <1>5, <3>1
    <3> QED BY <3>3, <3>4, <3>5 DEF TrailInv, LogOK
  <2> QED BY <1>2, <1>5, <1>6, <2>2 DEF TrailInv, LogOK
<1>8. TrailAgrees'
  <2>1. \A q \in Paths : Agrees(row'[q], stored'[q], log'[q])
    BY <1>1, <1>5, CommitAgrees, TrailByPath DEF TrailInv
  <2>2. (TrailAgrees <=> \A q \in Paths : Agrees(row[q], stored[q], log[q]))'
    BY TrailByPath, PTL
  <2> QED BY <2>1, <2>2
<1>9. ASSUME NEW o \in Writers PROVE MineOK(o)'
  <2>1. CASE pc'[o] # "commit"
    BY <2>1 DEF MineOK
  <2>2. CASE pc'[o] = "commit"
    <3>1. o # w /\ pc[o] = "commit"
      BY <1>3, <1>4, <2>2
    <3>2. Path(o) \in Paths /\ (job[o].kind # "read" => Holds(o))
      <4>1. job[o] \in Asked
        BY <3>1 DEF IInv, WriterOK, Running
      <4> QED BY <3>1, <4>1, AtCommit DEF Asked, Writes
    <3>3. CASE Path(o) # p
      BY <1>2, <1>5, <2>2, <3>1, <3>2, <3>3, MineStays DEF TrailInv, LogOK
    <3>4. CASE Path(o) = p
      <4>1. job[o].kind # "read" => ChangesIn(log'[p]) = ChangesIn(log[p])
        <5> SUFFICES ASSUME job[o].kind # "read"
                     PROVE  ChangesIn(log'[p]) = ChangesIn(log[p])
          OBVIOUS
        <5>1. k = "read"
          BY <1>1, <3>1, <3>2, <3>4 DEF Holds, Commits
        <5>2. e0.event = "SECRET_READ" /\ log'[p] = log[p] \cup {e0}
          BY <1>1, <1>5, <5>1 DEF Commits, FirstOf
        <5> QED BY <5>2 DEF ChangesIn
      <4>2. job[o].kind = "read" => CreatedIn(log'[p]) = CreatedIn(log[p])
        <5>1. job[o].kind = "read" => stored[p] # {}
          BY <3>1, <3>4 DEF TrailInv, MineOK
        <5> QED BY <1>6, <5>1
      <4> QED BY <1>2, <1>6, <2>2, <3>1, <3>4, <4>1, <4>2, MineStays DEF TrailInv, LogOK
    <3> QED BY <3>3, <3>4
  <2> QED BY <2>1, <2>2
<1> QED BY <1>7, <1>8, <1>9 DEF TrailInv

\* Every step draws, commits, or tells nothing.
LEMMA StepOfTrail ==
    ASSUME IInv, LogOK, NEW w \in Writers,
           Request(w) \/ Waits(w) \/ Works(w) \/ Abort(w)
    PROVE  Silent(w) \/ Draws(w) \/ Commit(w)
<1>0. /\ mine = [o \in Writers |-> mine[o]] /\ nextEvent \in Nat
      /\ job = [o \in Writers |-> job[o]] /\ draft = [o \in Writers |-> draft[o]]
      /\ pc \in [Writers -> Places]
  BY DEF IInv, Shape, LogOK
<1>1. ASSUME NEW why \in Ended, Fail(w, why) PROVE Silent(w)
  <2>1. pc'[w] # "commit" /\ \A o \in Writers \ {w} : pc'[o] = pc[o]
    BY <1>0, <1>1 DEF Fail, Go, Ended
  <2> QED BY <1>0, <1>1, <2>1 DEF Silent, OthersStay, Fail
<1>2. ASSUME NEW place, place # "commit", Go(w, place),
             UNCHANGED <<tables, nextEvent, draft, mine>>,
             \A o \in Writers \ {w} : job'[o] = job[o]
      PROVE  Silent(w)
  <2>1. pc'[w] # "commit" /\ \A o \in Writers \ {w} : pc'[o] = pc[o]
    BY <1>0, <1>2 DEF Go
  <2> QED BY <1>0, <1>2, <2>1 DEF Silent, OthersStay
<1>3. ASSUME pc[w] # "commit", Path(w) \in Paths, Go(w, "commit"),
             UNCHANGED <<tables, draft>>,
             \A o \in Writers \ {w} : job'[o] = job[o],
             job'[w].kind = job[w].kind, job'[w].path = job[w].path,
             job[w].kind = "read" => stored[Path(w)] # {},
             nextEvent' = nextEvent + Drawn(w),
             mine' = [mine EXCEPT ![w] = Told(w, nextEvent)]
      PROVE  Draws(w)
  <2>1. pc'[w] = "commit" /\ \A o \in Writers \ {w} : pc'[o] = pc[o]
    BY <1>0, <1>3 DEF Go
  <2>2. /\ mine' = [o \in Writers |-> mine'[o]] /\ mine'[w] = Told(w, nextEvent)
        /\ \A o \in Writers \ {w} : mine'[o] = mine[o]
    BY <1>0, <1>3
  <2> QED BY <1>0, <1>3, <2>1, <2>2 DEF Draws, OthersStay
<1>4. pc[w] \in Running => job[w] \in Asked /\ Path(w) \in Paths
  BY DEF IInv, WriterOK, Asked, Path
<1>5. CASE Request(w)
  <2>1. PICK place \in {"insert", "lock", "latest"} : \E j : Start(w, j, place)
    BY <1>5, Zenon DEF Request, StartSave, StartRestore, StartArchive, StartRead
  <2>2. \A o \in Writers \ {w} : job'[o] = job[o]
    BY <1>0, <2>1 DEF Start
  <2> QED BY <1>2, <2>1, <2>2 DEF Start
<1>6. CASE Insert(w)
  <2>1. PICK place \in {"number", "lock"} : Go(w, place)
    BY <1>6 DEF Insert
  <2> QED BY <1>2, <1>6, <2>1 DEF Insert
<1>7. CASE Lock(w)
  <2>1. CASE Fail(w, "not_found")
    BY <1>1, <2>1 DEF Ended
  <2>2. CASE ~Fail(w, "not_found")
    <3>1. PICK place \in {"number", "old"} : Go(w, place)
      BY <1>7, <2>2 DEF Lock
    <3> QED BY <1>2, <1>7, <2>2, <3>1 DEF Lock
  <2> QED BY <2>1, <2>2
<1>8. CASE ArchiveRow(w)
  <2>1. CASE Fail(w, "not_found")
    BY <1>1, <2>1 DEF Ended
  <2>2. CASE ~Fail(w, "not_found")
    <3>1. /\ pc[w] = "lock" /\ job[w].kind = "archive" /\ Go(w, "commit")
          /\ Record(w, <<"SECRET_ARCHIVED">>) /\ UNCHANGED <<tables, job, draft>>
      BY <1>8, <2>2 DEF ArchiveRow
    <3>2. Told(w, nextEvent) = {[id |-> nextEvent, event |-> "SECRET_ARCHIVED"]}
      BY <3>1 DEF Told, FirstEvent
    <3>3. Drawn(w) = 1 /\ Path(w) \in Paths
      BY <1>4, <3>1 DEF Drawn, Running
    <3> QED BY <1>0, <1>3, <3>1, <3>2, <3>3, RecordOne
  <2> QED BY <2>1, <2>2
<1>9. CASE ReadOld(w)
  <2>1. CASE Unread(w)
    BY <1>1, <2>1 DEF Ended, Unread
  <2>2. CASE ~Unread(w)
    <3>1. PICK v \in Found(w) :
            /\ job' = [job EXCEPT ![w].value = v.value] /\ Go(w, "number")
            /\ UNCHANGED <<tables, nextEvent, rowLock, draft, mine>>
      BY <1>9, <2>2 DEF ReadOld
    <3>2. \A o \in Writers \ {w} : job'[o] = job[o]
      BY <1>0, <3>1
    <3> QED BY <1>2, <3>1, <3>2
  <2> QED BY <2>1, <2>2
<1>10. CASE ReadNewest(w)
  <2>1. CASE Unread(w)
    BY <1>1, <2>1 DEF Ended, Unread
  <2>2. CASE ~Unread(w)
    <3>1. PICK v \in Found(w) :
            /\ pc[w] = "latest"
            /\ job' = [job EXCEPT ![w].value = v.value] /\ Go(w, "commit")
            /\ Record(w, <<"SECRET_READ">>) /\ UNCHANGED <<tables, rowLock, draft>>
      BY <1>10, <2>2 DEF ReadNewest
    <3>2. job[w].kind = "read" /\ job[w] \in Asked /\ Path(w) \in Paths
      BY <1>4, <3>1 DEF IInv, WriterOK, Running
    <3>3. /\ \A o \in Writers \ {w} : job'[o] = job[o]
          /\ job'[w] = [job[w] EXCEPT !.value = v.value]
      BY <1>0, <3>1
    <3>4. job'[w].kind = job[w].kind /\ job'[w].path = job[w].path
      BY <3>2, <3>3 DEF Asked
    <3>5. Told(w, nextEvent) = {[id |-> nextEvent, event |-> "SECRET_READ"]}
      BY <3>2 DEF Told, FirstEvent
    <3>6. Drawn(w) = 1 /\ stored[Path(w)] # {}
      BY <3>1, <3>2 DEF Drawn, Found, Selected
    <3> QED BY <1>0, <1>3, <3>1, <3>2, <3>3, <3>4, <3>5, <3>6, RecordOne
  <2> QED BY <2>1, <2>2
<1>11. CASE TakeNumber(w)
  <2>1. /\ Go(w, "write") /\ UNCHANGED <<tables, nextEvent, job, mine>>
        /\ \A o \in Writers \ {w} : draft'[o] = draft[o]
    BY <1>0, <1>11 DEF TakeNumber
  <2>2. pc'[w] # "commit" /\ \A o \in Writers \ {w} : pc'[o] = pc[o]
    BY <1>0, <2>1 DEF Go
  <2> QED BY <1>0, <2>1, <2>2 DEF Silent, OthersStay
<1>12. CASE Write(w)
  <2>1. CASE Fail(w, "conflict")
    BY <1>1, <2>1 DEF Ended
  <2>2. CASE ~Fail(w, "conflict")
    <3>1. /\ pc[w] = "write" /\ Record(w, WriteEvents(w)) /\ Go(w, "commit")
          /\ UNCHANGED <<tables, rowLock, job, draft>>
      BY <1>12, <2>2 DEF Write
    <3>2. job[w].kind \in {"save", "restore"} /\ Path(w) \in Paths
      BY <1>4, <3>1 DEF IInv, WriterOK, Writes, Running
    <3>3. PICK a : a = IF draft[w].number = 1 THEN "SECRET_CREATED" ELSE "SECRET_UPDATED"
      OBVIOUS
    <3>4. FirstEvent(w) = a
      BY <3>2, <3>3 DEF FirstEvent
    <3>5. CASE job[w].kind = "save"
      <4>1. WriteEvents(w) = <<a>>
        BY <3>3, <3>5, Concatenated DEF WriteEvents
      <4>2. Told(w, nextEvent) = {[id |-> nextEvent, event |-> a]} /\ Drawn(w) = 1
        BY <3>4, <3>5 DEF Told, Drawn
      <4> QED BY <1>0, <1>3, <3>1, <3>2, <3>5, <4>1, <4>2, RecordOne
    <3>6. CASE job[w].kind = "restore"
      <4>1. WriteEvents(w) = <<a, "SECRET_RESTORED">>
        BY <3>3, <3>6, Concatenated DEF WriteEvents
      <4>2. /\ Drawn(w) = 2
            /\ Told(w, nextEvent) = {[id |-> nextEvent, event |-> a],
                                     [id |-> nextEvent + 1, event |-> "SECRET_RESTORED"]}
        BY <3>4, <3>6 DEF Told, Drawn
      <4> QED BY <1>0, <1>3, <3>1, <3>2, <3>6, <4>1, <4>2, RecordTwo
    <3> QED BY <3>2, <3>5, <3>6
  <2> QED BY <2>1, <2>2
<1>13. CASE Respond(w)
  <2>1. /\ Go(w, "idle") /\ UNCHANGED <<tables, nextEvent>>
        /\ mine' = [mine EXCEPT ![w] = {}]
        /\ \A o \in Writers \ {w} : draft'[o] = draft[o] /\ job'[o] = job[o]
    BY <1>0, <1>13 DEF Respond
  <2>2. pc'[w] # "commit" /\ \A o \in Writers \ {w} : pc'[o] = pc[o]
    BY <1>0, <2>1 DEF Go
  <2> QED BY <1>0, <2>1, <2>2 DEF Silent, OthersStay
<1>14. CASE Abort(w)
  BY <1>1, <1>14 DEF Abort, Ended
<1> QED BY <1>5, <1>6, <1>7, <1>8, <1>9, <1>10, <1>11, <1>12, <1>13, <1>14
       DEF Waits, Works

LEMMA NextTrail ==
    ASSUME IInv, TrailInv, [Next]_vars
    PROVE  TrailInv'
<1>1. CASE UNCHANGED vars
  <2>1. UNCHANGED <<row, stored, log, nextEvent, pc, job, draft, mine>>
    BY <1>1 DEF vars, tables
  <2>2. LogOK'
    BY <2>1 DEF TrailInv, LogOK
  <2>3. TrailAgrees'
    BY <2>1 DEF TrailInv, TrailAgrees, Changes, Last
  <2>4. ASSUME NEW o \in Writers PROVE MineOK(o)'
    <3>1. CASE pc[o] = "commit"
      BY <2>1, <3>1, MineStays DEF TrailInv, LogOK
    <3>2. CASE pc[o] # "commit"
      BY <2>1, <3>2 DEF MineOK
    <3> QED BY <3>1, <3>2
  <2> QED BY <2>2, <2>3, <2>4 DEF TrailInv
<1>2. ASSUME NEW w \in Writers, Request(w) \/ Waits(w) \/ Works(w) \/ Abort(w)
      PROVE  TrailInv'
  BY <1>2, StepOfTrail, SilentTrail, DrawsTrail, CommitTrail DEF TrailInv
<1> QED BY <1>1, <1>2 DEF Next

\* The audit trail retells what happened to each path, whatever transactions
\* interleave, roll back or leave gaps in the numbers: one event per version,
\* the creation before everything else, and the path is archived exactly if the
\* last of its changes is an archiving.
THEOREM TrailAgreesHolds == Spec => []TrailAgrees
<1>1. Init => IInv /\ TrailInv
  BY InitIInv, InitTrail
<1>2. IInv /\ TrailInv /\ [Next]_vars => IInv' /\ TrailInv'
  BY NextIInv, NextTrail
<1>3. TrailInv => TrailAgrees
  BY DEF TrailInv
<1> QED BY <1>1, <1>2, <1>3, PTL DEF Spec

-----------------------------------------------------------------------------
(* Types, and with them the bound: numbers stay within MaxEvent because a  *)
(* request starts only while there is room for its events.                 *)

Ahead == {"insert", "lock", "latest", "old", "number", "write"}
InFlight == {o \in Writers : pc[o] \in Running}
Undrawn == {o \in Writers : pc[o] \in Ahead}

RoomInv ==
    /\ IsFiniteSet(InFlight)
    /\ nextEvent + 2 * Cardinality(Undrawn) <= MaxEvent + 1
    /\ \A q \in Paths : Cardinality(stored[q]) < nextEvent
    /\ \A w \in Writers : pc[w] = "commit" /\ Writes(w) => draft[w].number < nextEvent
    /\ job \in [Writers -> Jobs \cup {NoJob}]
    /\ draft \in [Writers -> Versions \cup {NoDraft}]
    /\ mine \in [Writers -> SUBSET Events]

LEMMA InitRoom == Init => RoomInv
<1> SUFFICES ASSUME Init PROVE RoomInv
  OBVIOUS
<1>1. InFlight = {} /\ Undrawn = {}
  BY DEF Init, InFlight, Undrawn, Running, Ahead
<1>2. IsFiniteSet({}) /\ Cardinality({}) = 0
  BY FS_EmptySet
<1>3. nextEvent + 2 * Cardinality(Undrawn) <= MaxEvent + 1
  BY <1>1, <1>2, MaxEventAssumption DEF Init
<1>4. \A w \in Writers : pc[w] # "commit"
  BY DEF Init
<1>5. \A q \in Paths : Cardinality(stored[q]) < nextEvent
  BY <1>2 DEF Init
<1> QED BY <1>1, <1>2, <1>3, <1>4, <1>5 DEF Init, RoomInv

\* What is left of MaxEvent.
LEMMA RoomLeft ==
    ASSUME IInv, LogOK, RoomInv
    PROVE  /\ IsFiniteSet(Undrawn) /\ Cardinality(Undrawn) \in Nat
           /\ Cardinality(InFlight) \in Nat
           /\ Cardinality(Undrawn) <= Cardinality(InFlight)
           /\ nextEvent \in 1 .. MaxEvent + 1
           /\ \A w \in Undrawn : nextEvent + 2 <= MaxEvent + 1
           /\ \A q \in Paths : /\ Cardinality(stored[q]) \in Nat
                               /\ Cardinality(stored[q]) < nextEvent
<1>1. Undrawn \subseteq InFlight
  BY DEF Undrawn, InFlight, Ahead, Running
<1>2. /\ IsFiniteSet(Undrawn) /\ Cardinality(Undrawn) \in Nat
      /\ Cardinality(InFlight) \in Nat
      /\ Cardinality(Undrawn) <= Cardinality(InFlight)
  BY <1>1, FS_Subset, FS_CardinalityType DEF RoomInv
<1>3. nextEvent \in 1 .. MaxEvent + 1
  BY <1>2, MaxEventAssumption DEF RoomInv, LogOK
<1>4. ASSUME NEW w \in Undrawn PROVE nextEvent + 2 <= MaxEvent + 1
  <2>1. Cardinality(Undrawn) # 0
    BY <1>2, FS_EmptySet
  <2> QED BY <1>2, <1>3, <2>1, MaxEventAssumption DEF RoomInv
<1>5. \A q \in Paths : /\ Cardinality(stored[q]) \in Nat
                       /\ Cardinality(stored[q]) < nextEvent
  BY CountNat DEF IInv, RowsOK, RoomInv
<1> QED BY <1>2, <1>3, <1>4, <1>5

LEMMA RoomGivesTypeOK == IInv /\ LogOK /\ RoomInv => TypeOK
<1> SUFFICES ASSUME IInv, LogOK, RoomInv PROVE TypeOK
  OBVIOUS
<1>1. ASSUME NEW q \in Paths PROVE stored[q] \subseteq Versions
  <2>1. Numbered(stored[q], q) /\ stored[q] \subseteq Stored
    BY DEF IInv, RowsOK, Shape
  <2>2. \A v \in stored[q] : v.number \in 1 .. MaxEvent /\ v.boundTo = <<q, v.number>>
    BY <2>1, RoomLeft, MaxEventAssumption DEF Numbered, Stored
  <2>3. ASSUME NEW v \in stored[q] PROVE v \in Versions
    <3>1. v = [number |-> v.number, value |-> v.value, boundTo |-> v.boundTo]
      BY <2>1 DEF Stored
    <3>2. v.value \in Values
      BY <2>1 DEF Stored
    <3> QED BY <2>2, <3>1, <3>2 DEF Versions
  <2> QED BY <2>3
<1>2. ASSUME NEW q \in Paths PROVE log[q] \subseteq Events
  <2>1. \A e \in log[q] : e \in Recorded /\ e.id < nextEvent
    BY DEF LogOK
  <2>2. \A e \in log[q] : e.id \in 1 .. MaxEvent
    BY <2>1, RoomLeft, MaxEventAssumption DEF Recorded
  <2> QED BY <2>1, <2>2 DEF Recorded, EventNames, Events
<1>3. stored \in [Paths -> SUBSET Versions]
  BY <1>1 DEF IInv, Shape
<1>4. log \in [Paths -> SUBSET Events]
  BY <1>2 DEF LogOK
<1>5. pc \in [Writers -> Running \cup Ended \cup {"idle"}]
  BY DEF IInv, Shape, Places
<1> QED BY <1>3, <1>4, <1>5, RoomLeft DEF TypeOK, IInv, Shape, RoomInv

\* What a step of w does to the room there is: a request enters while there is
\* room for two more events of everyone, and nobody else comes in.
Enters(w) ==
    /\ pc[w] \notin Running
    /\ nextEvent' = nextEvent
    /\ nextEvent + 2 * Cardinality(InFlight) < MaxEvent
Proceeds(w) ==
    /\ pc'[w] \in Running => pc[w] \in Running
    /\ pc'[w] \in Ahead => pc[w] \in Ahead

RoomStep(w) ==
    /\ \A o \in Writers \ {w} : pc'[o] = pc[o]
    /\ Enters(w) \/ Proceeds(w)
    /\ job' \in [Writers -> Jobs \cup {NoJob}]
    /\ draft' \in [Writers -> Versions \cup {NoDraft}]

LEMMA StartRoom ==
    ASSUME IInv, LogOK, RoomInv, NEW w \in Writers, Request(w)
    PROVE  RoomStep(w)
<1>1. PICK j \in Jobs, place \in {"insert", "lock", "latest"} : Start(w, j, place)
  <2>1. PICK q \in Paths : \/ \E x \in Values : StartSave(w, q, x)
                           \/ \E v \in stored[q] : StartRestore(w, q, v.number)
                           \/ StartArchive(w, q)
                           \/ StartRead(w, q)
    BY DEF Request
  <2>2. CASE \E x \in Values : StartSave(w, q, x)
    BY <2>2, MaxEventAssumption DEF StartSave, Jobs
  <2>3. CASE \E v \in stored[q] : StartRestore(w, q, v.number)
    <3>1. PICK v \in stored[q] : StartRestore(w, q, v.number)
      BY <2>3
    <3>2. v.number \in Nat /\ v.number <= Cardinality(stored[q])
      BY DEF IInv, RowsOK, Numbered, Stored
    <3>3. v.number \in 0 .. MaxEvent
      BY <3>2, RoomLeft, MaxEventAssumption
    <3> QED BY <3>1, <3>3 DEF StartRestore, Jobs
  <2>4. CASE StartArchive(w, q)
    BY <2>4, MaxEventAssumption DEF StartArchive, Jobs
  <2>5. CASE StartRead(w, q)
    BY <2>5, MaxEventAssumption DEF StartRead, Jobs
  <2> QED BY <2>1, <2>2, <2>3, <2>4, <2>5
<1>2. /\ pc[w] = "idle" /\ Go(w, place) /\ job' = [job EXCEPT ![w] = j]
      /\ UNCHANGED <<nextEvent, draft>>
      /\ nextEvent + 2 * Cardinality(InFlight) < MaxEvent
  BY <1>1 DEF Start, InFlight
<1>3. \A o \in Writers \ {w} : pc'[o] = pc[o]
  BY <1>2 DEF Go, IInv, Shape
<1>4. Enters(w)
  BY <1>2 DEF Enters, Running
<1> QED BY <1>2, <1>3, <1>4 DEF RoomStep, RoomInv

LEMMA WorkRoom ==
    ASSUME IInv, LogOK, RoomInv, NEW w \in Writers,
           Waits(w) \/ Works(w) \/ Abort(w)
    PROVE  RoomStep(w)
<1>0. pc \in [Writers -> Places] /\ WriterOK(w)
  BY DEF IInv, Shape
<1>1. ASSUME NEW place, Go(w, place), pc[w] \in Running \/ place \notin Running,
             pc[w] = "commit" => place \notin Ahead,
             job' \in [Writers -> Jobs \cup {NoJob}],
             draft' \in [Writers -> Versions \cup {NoDraft}]
      PROVE  RoomStep(w)
  <2>1. pc'[w] = place /\ \A o \in Writers \ {w} : pc'[o] = pc[o]
    BY <1>0, <1>1 DEF Go
  <2>2. Ahead = Running \ {"commit"}
    BY DEF Ahead, Running
  <2>3. Proceeds(w)
    BY <1>1, <2>1, <2>2 DEF Proceeds
  <2> QED BY <1>1, <2>1, <2>3 DEF RoomStep
<1>2. job \in [Writers -> Jobs \cup {NoJob}] /\ draft \in [Writers -> Versions \cup {NoDraft}]
  BY DEF RoomInv
<1>3. ASSUME NEW why \in Ended, Fail(w, why) PROVE RoomStep(w)
  <2>1. why \notin Running /\ why \notin Ahead
    BY DEF Running, Ended, Ahead
  <2> QED BY <1>1, <1>2, <1>3, <2>1 DEF Fail
<1>4. ASSUME NEW place, Go(w, place), pc[w] \in Ahead, UNCHANGED <<job, draft>>
      PROVE  RoomStep(w)
  <2>1. pc[w] \in Running /\ pc[w] # "commit"
    BY <1>4 DEF Ahead, Running
  <2> QED BY <1>1, <1>2, <1>4, <2>1
<1>5. CASE Insert(w)
  BY <1>4, <1>5 DEF Insert, Ahead
<1>6. CASE Lock(w)
  <2>1. CASE Fail(w, "not_found")
    BY <1>3, <2>1 DEF Ended
  <2>2. CASE ~Fail(w, "not_found")
    BY <1>4, <1>6, <2>2 DEF Lock, Ahead
  <2> QED BY <2>1, <2>2
<1>7. CASE ArchiveRow(w)
  <2>1. CASE Fail(w, "not_found")
    BY <1>3, <2>1 DEF Ended
  <2>2. CASE ~Fail(w, "not_found")
    BY <1>4, <1>7, <2>2 DEF ArchiveRow, Ahead
  <2> QED BY <2>1, <2>2
<1>8. CASE ReadOld(w) \/ ReadNewest(w)
  <2>1. CASE Unread(w)
    BY <1>3, <2>1 DEF Ended, Unread
  <2>2. CASE ~Unread(w)
    <3>1. PICK v \in Found(w), place \in {"number", "commit"} :
            /\ pc[w] \in {"old", "latest"}
            /\ job' = [job EXCEPT ![w].value = v.value] /\ Go(w, place)
            /\ draft' = draft
      BY <1>8, <2>2 DEF ReadOld, ReadNewest
    <3>2. pc[w] \in Running /\ pc[w] # "commit"
      BY <3>1 DEF Running
    <3>3. job[w] \in Asked /\ Path(w) \in Paths
      BY <1>0, <3>2 DEF WriterOK, Asked, Path
    <3>4. v.value \in Values
      BY <3>3 DEF Found, Selected, IInv, Shape, Stored
    <3>5. job[w] \in Jobs
      BY <1>2, <3>3 DEF Asked, NoJob
    <3>6. [job[w] EXCEPT !.value = v.value] \in Jobs
      BY <3>4, <3>5 DEF Jobs
    <3>7. job' \in [Writers -> Jobs \cup {NoJob}]
      BY <1>2, <3>1, <3>6
    <3> QED BY <1>1, <1>2, <3>1, <3>2, <3>7
  <2> QED BY <2>1, <2>2
<1>9. CASE TakeNumber(w)
  <2>1. /\ pc[w] = "number" /\ Go(w, "write") /\ job' = job
        /\ draft' = [draft EXCEPT
              ![w] = Seal(job[w].value, Path(w), NextNumber(Path(w)))]
    BY <1>9 DEF TakeNumber
  <2>2. pc[w] \in Running /\ w \in Undrawn
    BY <2>1 DEF Running, Undrawn, Ahead
  <2>3. Path(w) \in Paths /\ job[w].value \in Values
    BY <1>0, <2>1, <2>2 DEF WriterOK, Writes, Asked, Path
  <2>4. NextNumber(Path(w)) = Cardinality(stored[Path(w)]) + 1
    BY <2>3, NextIsCount DEF IInv, RowsOK
  <2>5. NextNumber(Path(w)) \in 1 .. MaxEvent
    BY <2>2, <2>3, <2>4, RoomLeft, MaxEventAssumption
  <2>6. Seal(job[w].value, Path(w), NextNumber(Path(w))) \in Versions
    BY <2>3, <2>5 DEF Seal, Versions
  <2>7. draft' \in [Writers -> Versions \cup {NoDraft}]
    BY <1>2, <2>1, <2>6
  <2> QED BY <1>1, <1>2, <2>1, <2>2, <2>7
<1>10. CASE Write(w)
  <2>1. CASE Fail(w, "conflict")
    BY <1>3, <2>1 DEF Ended
  <2>2. CASE ~Fail(w, "conflict")
    BY <1>4, <1>10, <2>2 DEF Write, Ahead
  <2> QED BY <2>1, <2>2
<1>11. CASE Commit(w)
  BY <1>1, <1>2, <1>11 DEF Commit, Running, Ahead
<1>12. CASE Respond(w)
  <2>1. /\ Go(w, "idle")
        /\ job' \in [Writers -> Jobs \cup {NoJob}]
        /\ draft' \in [Writers -> Versions \cup {NoDraft}]
    BY <1>2, <1>12 DEF Respond
  <2> QED BY <1>1, <2>1 DEF Running, Ahead
<1>13. CASE Abort(w)
  BY <1>3, <1>13 DEF Abort, Ended
<1> QED BY <1>5, <1>6, <1>7, <1>8, <1>9, <1>10, <1>11, <1>12, <1>13 DEF Waits, Works

\* The numbers still to be drawn fit below the bound.
LEMMA CountKeeps ==
    ASSUME IInv, LogOK, RoomInv, NEW w \in Writers, RoomStep(w),
           \/ nextEvent' = nextEvent
           \/ /\ pc[w] # "commit" /\ pc'[w] = "commit"
              /\ nextEvent' \in nextEvent + 1 .. nextEvent + 2
    PROVE  /\ IsFiniteSet(InFlight')
           /\ nextEvent' + 2 * Cardinality(Undrawn') <= MaxEvent + 1
<1>1. /\ IsFiniteSet(InFlight) /\ IsFiniteSet(Undrawn)
      /\ Cardinality(Undrawn) \in Nat /\ Cardinality(InFlight) \in Nat
      /\ Cardinality(Undrawn) <= Cardinality(InFlight)
      /\ nextEvent \in 1 .. MaxEvent + 1
      /\ nextEvent + 2 * Cardinality(Undrawn) <= MaxEvent + 1
  BY RoomLeft DEF RoomInv
<1>2. Ahead = Running \ {"commit"}
  BY DEF Ahead, Running
<1>3. CASE Enters(w)
  <2>1. InFlight' \subseteq InFlight \cup {w} /\ Undrawn' \subseteq Undrawn \cup {w}
    BY DEF RoomStep, InFlight, Undrawn
  <2>2. w \notin Undrawn
    BY <1>2, <1>3 DEF Enters, Undrawn
  <2>3. /\ IsFiniteSet(InFlight \cup {w}) /\ IsFiniteSet(Undrawn \cup {w})
        /\ Cardinality(Undrawn \cup {w}) = Cardinality(Undrawn) + 1
    BY <1>1, <2>2, FS_AddElement
  <2>4. IsFiniteSet(InFlight')
    BY <2>1, <2>3, FS_Subset
  <2>5. IsFiniteSet(Undrawn') /\ Cardinality(Undrawn') <= Cardinality(Undrawn) + 1
    BY <2>1, <2>3, FS_Subset
  <2>6. Cardinality(Undrawn') \in Nat
    BY <2>5, FS_CardinalityType
  <2>7. nextEvent' = nextEvent /\ nextEvent + 2 * Cardinality(InFlight) < MaxEvent
    BY <1>3 DEF Enters
  <2> QED BY <1>1, <2>4, <2>5, <2>6, <2>7, MaxEventAssumption
<1>4. CASE Proceeds(w)
  <2>1. InFlight' \subseteq InFlight /\ Undrawn' \subseteq Undrawn
    BY <1>4 DEF RoomStep, Proceeds, InFlight, Undrawn
  <2>2. /\ IsFiniteSet(InFlight') /\ IsFiniteSet(Undrawn')
        /\ Cardinality(Undrawn') <= Cardinality(Undrawn)
    BY <1>1, <2>1, FS_Subset
  <2>3. Cardinality(Undrawn') \in Nat
    BY <2>2, FS_CardinalityType
  <2>4. CASE nextEvent' = nextEvent
    BY <1>1, <2>2, <2>3, <2>4, MaxEventAssumption
  <2>5. CASE /\ pc[w] # "commit" /\ pc'[w] = "commit"
             /\ nextEvent' \in nextEvent + 1 .. nextEvent + 2
    <3>1. w \in Undrawn
      BY <1>2, <1>4, <2>5 DEF Proceeds, Undrawn, Running
    <3>2. w \notin Undrawn'
      BY <1>2, <2>5 DEF Undrawn
    <3>3. Undrawn' \subseteq Undrawn \ {w}
      BY <2>1, <3>2
    <3>4. /\ IsFiniteSet(Undrawn \ {w})
          /\ Cardinality(Undrawn \ {w}) = Cardinality(Undrawn) - 1
      BY <1>1, <3>1, FS_RemoveElement
    <3>5. Cardinality(Undrawn') <= Cardinality(Undrawn) - 1
      BY <3>3, <3>4, FS_Subset
    <3> QED BY <1>1, <2>2, <2>3, <2>5, <3>5, MaxEventAssumption
  <2> QED BY <2>4, <2>5
<1> QED BY <1>3, <1>4 DEF RoomStep

LEMMA StepRoom ==
    ASSUME IInv, TrailInv, RoomInv, NEW w \in Writers,
           Request(w) \/ Waits(w) \/ Works(w) \/ Abort(w)
    PROVE  RoomInv'
<1>0. /\ LogOK /\ IInv' /\ RoomStep(w) /\ nextEvent \in Nat \ {0}
      /\ stored' = [q \in Paths |-> stored'[q]]
  <2>1. [Next]_vars
    BY DEF Next
  <2> QED BY <2>1, NextIInv, StartRoom, WorkRoom DEF TrailInv, LogOK, IInv, Shape
<1>1. CASE Silent(w) \/ Draws(w)
  <2>1. \/ nextEvent' = nextEvent
        \/ /\ pc[w] # "commit" /\ pc'[w] = "commit"
           /\ nextEvent' \in nextEvent + 1 .. nextEvent + 2
    BY <1>0, <1>1 DEF Silent, Draws, Drawn
  <2>2. /\ IsFiniteSet(InFlight')
        /\ nextEvent' + 2 * Cardinality(Undrawn') <= MaxEvent + 1
    BY <1>0, <2>1, CountKeeps
  <2>3. nextEvent' \in Nat /\ nextEvent <= nextEvent'
    BY <1>0, <2>1
  <2>4. OthersStay(w) /\ stored' = stored
    BY <1>1 DEF Silent, Draws, tables
  <2>5. \A q \in Paths : Cardinality(stored'[q]) < nextEvent'
    BY <1>0, <2>3, <2>4, RoomLeft
  <2>6. ASSUME NEW o \in Writers, pc'[o] = "commit", Writes(o)'
        PROVE  draft'[o].number < nextEvent'
    <3>1. /\ Path(o)' \in Paths
          /\ draft'[o].number = Cardinality(stored'[Path(o)']) + 1
      <4>1. WriterOK(o)'
        BY <1>0 DEF IInv
      <4>2. job'[o] \in Asked
        BY <2>6, <4>1 DEF WriterOK, Running
      <4>3. draft'[o] = Seal(job'[o].value, Path(o)',
                            Cardinality(stored'[Path(o)']) + 1)
        BY <2>6, <4>1 DEF WriterOK
      <4>4. Path(o)' \in Paths
        BY <4>2 DEF Asked, Path
      <4>5. \A x, q, m : Seal(x, q, m).number = m
        BY DEF Seal
      <4> QED BY <4>3, <4>4, <4>5
    <3>2. CASE o = w
      <4>1. Draws(w)
        BY <1>1, <2>6, <3>2 DEF Silent
      <4>2. nextEvent + 1 <= nextEvent'
        BY <1>0, <4>1 DEF Draws, Drawn
      <4>3. /\ Cardinality(stored[Path(o)']) \in Nat
            /\ Cardinality(stored[Path(o)']) < nextEvent
        BY <1>0, <3>1, RoomLeft
      <4> QED BY <1>0, <2>3, <2>4, <3>1, <4>2, <4>3
    <3>3. CASE o # w
      <4>1. /\ pc[o] = "commit" /\ Writes(o) /\ draft'[o] = draft[o]
            /\ Path(o)' = Path(o)
        BY <2>4, <2>6, <3>3 DEF OthersStay, Writes, Path
      <4>2. draft[o].number < nextEvent
        BY <4>1 DEF RoomInv
      <4>3. draft[o].number \in Nat
        <5>1. Cardinality(stored'[Path(o)']) \in Nat
          BY <1>0, <2>4, <3>1, RoomLeft
        <5> QED BY <3>1, <4>1, <5>1
      <4> QED BY <1>0, <2>3, <4>1, <4>2, <4>3
    <3> QED BY <3>2, <3>3
  <2>7. mine' \in [Writers -> SUBSET Events]
    <3>1. mine'[w] \subseteq Events
      <4>1. CASE Silent(w)
        BY <4>1 DEF Silent, RoomInv
      <4>2. CASE Draws(w)
        <5>1. /\ nextEvent' = nextEvent + Drawn(w) /\ mine'[w] = Told(w, nextEvent)
              /\ pc'[w] = "commit" /\ pc[w] # "commit"
          BY <4>2 DEF Draws
        <5>2. nextEvent + Drawn(w) <= MaxEvent + 1 /\ Drawn(w) \in 1 .. 2
          <6>1. Cardinality(Undrawn') \in Nat
            <7>1. Undrawn' \subseteq InFlight'
              BY DEF Undrawn, InFlight, Ahead, Running
            <7> QED BY <2>2, <7>1, FS_Subset, FS_CardinalityType
          <6>2. Drawn(w) \in 1 .. 2
            BY DEF Drawn
          <6> QED BY <1>0, <2>2, <5>1, <6>1, <6>2, MaxEventAssumption
        <5>3. nextEvent \in 1 .. MaxEvent
          BY <1>0, <5>2, MaxEventAssumption
        <5>4. job[w].kind = "restore" => nextEvent + 1 \in 1 .. MaxEvent
          BY <1>0, <5>2, MaxEventAssumption DEF Drawn
        <5>5. FirstEvent(w) \in EventNames
          BY DEF FirstEvent, EventNames
        <5> QED BY <5>1, <5>3, <5>4, <5>5 DEF Told, Events, EventNames
      <4> QED BY <1>1, <4>1, <4>2
    <3>2. \A o \in Writers \ {w} : mine'[o] \subseteq Events
      BY <2>4 DEF OthersStay, RoomInv
    <3> QED BY <2>4, <3>1, <3>2 DEF OthersStay
  <2> QED BY <1>0, <2>2, <2>5, <2>6, <2>7 DEF RoomInv, RoomStep
<1>2. CASE Commit(w)
  <2>1. PICK p \in Paths, k \in {"save", "restore", "archive", "read"},
             n \in Nat \ {0}, e0 \in Recorded, e1 \in Recorded :
               Commits(w, p, k, n, e0, e1)
    BY <1>2, Committing
  <2>2. /\ pc[w] = "commit" /\ pc'[w] = "done"
        /\ UNCHANGED <<nextEvent, job, draft, mine>>
    BY <1>2, GoType DEF Commit, Places, Ended
  <2>3. /\ IsFiniteSet(InFlight')
        /\ nextEvent' + 2 * Cardinality(Undrawn') <= MaxEvent + 1
    BY <1>0, <2>2, CountKeeps
  <2>4. ASSUME NEW q \in Paths PROVE Cardinality(stored'[q]) < nextEvent'
    <3>1. CASE stored'[q] = stored[q]
      BY <2>2, <3>1 DEF RoomInv
    <3>2. CASE k \in {"save", "restore"} /\ q = p
      <4>1. /\ Path(w) = p /\ Writes(w)
            /\ stored'[p] = stored[p] \cup {draft[w]} /\ draft[w] \notin stored[p]
        BY <2>1, <3>2 DEF Commits, Writes, IInv, Shape
      <4>2. draft[w].number = Cardinality(stored[p]) + 1 /\ IsFiniteSet(stored[p])
        <5>1. /\ Numbered(stored[p], p)
              /\ draft[w] = Seal(job[w].value, p, Cardinality(stored[p]) + 1)
          BY <2>2, <4>1, AtCommit
        <5>2. \A x, m : Seal(x, p, m).number = m
          BY DEF Seal
        <5> QED BY <5>1, <5>2 DEF Numbered
      <4>3. Cardinality(stored'[p]) = draft[w].number
        <5>1. PICK S, v : S = stored[p] /\ v = draft[w]
          OBVIOUS
        <5>2. Cardinality(S \cup {v}) = Cardinality(S) + 1
          BY <4>1, <4>2, <5>1, FS_AddElement
        <5> QED BY <4>1, <4>2, <5>1, <5>2
      <4> QED BY <2>2, <3>2, <4>1, <4>3 DEF RoomInv
    <3>3. stored'[q] = stored[q] \/ (k \in {"save", "restore"} /\ q = p)
      BY <2>1 DEF Commits, IInv, Shape
    <3> QED BY <3>1, <3>2, <3>3
  <2>5. \A o \in Writers : pc'[o] = "commit" /\ Writes(o)' => draft'[o].number < nextEvent'
    BY <1>0, <2>2 DEF RoomStep, RoomInv, Writes
  <2> QED BY <1>0, <2>2, <2>3, <2>4, <2>5 DEF RoomInv, RoomStep
<1> QED BY <1>0, <1>1, <1>2, StepOfTrail

LEMMA NextRoom ==
    ASSUME IInv, TrailInv, RoomInv, [Next]_vars
    PROVE  RoomInv'
<1>1. CASE UNCHANGED vars
  <2>1. UNCHANGED <<stored, nextEvent, pc, job, draft, mine>>
    BY <1>1 DEF vars, tables
  <2> QED BY <2>1 DEF RoomInv, InFlight, Undrawn, Writes
<1> QED BY <1>1, StepRoom DEF Next

\* Every variable keeps its type; the numbers of versions and audit events, for
\* all that are drawn and lost, stay within MaxEvent.
THEOREM TypeOKHolds == Spec => []TypeOK
<1>1. Init => IInv /\ TrailInv /\ RoomInv
  BY InitIInv, InitTrail, InitRoom
<1>2. IInv /\ TrailInv /\ RoomInv /\ [Next]_vars => (IInv /\ TrailInv /\ RoomInv)'
  BY NextIInv, NextTrail, NextRoom
<1>3. IInv /\ TrailInv /\ RoomInv => TypeOK
  BY RoomGivesTypeOK DEF TrailInv
<1> QED BY <1>1, <1>2, <1>3, PTL DEF Spec

=============================================================================
