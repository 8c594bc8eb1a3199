------------------------------ MODULE Secrets ------------------------------
(***************************************************************************)
(* internal/store/secrets.go: versioned secrets.  SaveSecret, Restore and  *)
(* Archive are transactions of several statements at READ COMMITTED.  They *)
(* share nothing but the row of table secrets, which the first two take    *)
(* FOR UPDATE and Archive takes by its UPDATE.  Each statement that reads  *)
(* or waits is a step; what a transaction writes shows when it commits,    *)
(* except the number its audit events draw from a sequence.                *)
(***************************************************************************)
EXTENDS Naturals, FiniteSets, Sequences

CONSTANTS
    Paths,       \* secret paths
    Values,      \* key/value bundles
    Writers,     \* administrators' requests in flight
    None,
    MaxEvent     \* bound: audit events, hence versions

ASSUME NoneAssumption == None \notin Writers \cup Values \cup Paths
ASSUME MaxEventAssumption == MaxEvent \in Nat

VARIABLES
    row,        \* row of secrets: "none", "live", or "archived"
    stored,     \* rows of secret_versions, by path
    log,        \* rows of audit_events, by path
    nextEvent,  \* next value of the sequence behind audit_events.id
    rowLock,    \* who has inserted or locked the row of secrets
    pc,         \* where a writer is
    job,        \* what it was asked
    draft,      \* the version it is about to insert
    mine        \* the audit events it has inserted

tables == <<row, stored, log>>
vars == <<tables, nextEvent, rowLock, pc, job, draft, mine>>

\* A sealed version carries what its ciphertext is bound to (the additional
\* authenticated data of Seal); Open has to name the same path and number.
Versions == [number : 1 .. MaxEvent, value : Values,
             boundTo : Paths \X (1 .. MaxEvent)]
BoundToNext(x, q, n) == \* mutant: the number is read again for the seal
    [number |-> n, value |-> x, boundTo |-> <<q, n + 1>>]
Seal(x, q, n) == [number |-> n, value |-> x, boundTo |-> <<q, n>>]
Opens(v, q) == v.boundTo = <<q, v.number>>

Events == [id : 1 .. MaxEvent,
           event : {"SECRET_CREATED", "SECRET_UPDATED", "SECRET_RESTORED",
                    "SECRET_ARCHIVED", "SECRET_READ"}]
Running == {"insert", "lock", "latest", "old", "number", "write", "commit"}
Ended == {"done", "not_found", "conflict", "failed"}
Jobs == [kind : {"save", "restore", "archive", "read"}, path : Paths,
         value : Values \cup {None}, from : 0 .. MaxEvent]

NoJob == [kind |-> "none"]
NoDraft == [number |-> 0]

TypeOK ==
    /\ row \in [Paths -> {"none", "live", "archived"}]
    /\ stored \in [Paths -> SUBSET Versions]
    /\ log \in [Paths -> SUBSET Events]
    /\ nextEvent \in 1 .. MaxEvent + 1
    /\ rowLock \in [Paths -> Writers \cup {None}]
    /\ pc \in [Writers -> Running \cup Ended \cup {"idle"}]
    /\ job \in [Writers -> Jobs \cup {NoJob}]
    /\ draft \in [Writers -> Versions \cup {NoDraft}]
    /\ mine \in [Writers -> SUBSET Events]

Init ==
    /\ row = [q \in Paths |-> "none"]
    /\ stored = [q \in Paths |-> {}]
    /\ log = [q \in Paths |-> {}]
    /\ nextEvent = 1
    /\ rowLock = [q \in Paths |-> None]
    /\ pc = [w \in Writers |-> "idle"]
    /\ job = [w \in Writers |-> NoJob]
    /\ draft = [w \in Writers |-> NoDraft]
    /\ mine = [w \in Writers |-> {}]

-----------------------------------------------------------------------------
Path(w) == job[w].path

\* The newest version of a path, of which there is one if there is any.
Newest(q) == {v \in stored[q] : \A u \in stored[q] : u.number <= v.number}

\* COALESCE(max(version),0)+1.
ZeroBased(q) == Cardinality(stored[q]) \* mutant
NextNumber(q) ==
    IF stored[q] = {} THEN 1 ELSE 1 + (CHOOSE v \in Newest(q) : TRUE).number

\* The row may be locked: it is committed and nobody has it.
AlwaysFree(q) == row[q] # "none" \* mutant: FOR UPDATE forgotten
Free(q) == row[q] # "none" /\ rowLock[q] = None

\* The transaction is over, whatever it was.
LeaveLocked(w) == UNCHANGED rowLock /\ w \in Writers \* mutant: no Rollback
Unlock(w) ==
    rowLock' = [q \in Paths |-> IF rowLock[q] = w THEN None ELSE rowLock[q]]

Go(w, place) == pc' = [pc EXCEPT ![w] = place]

Take(w) == rowLock' = [rowLock EXCEPT ![Path(w)] = w]

Fail(w, why) ==
    /\ Go(w, why)
    /\ Unlock(w)
    /\ UNCHANGED <<tables, nextEvent, job, draft, mine>>

-----------------------------------------------------------------------------
\* A request comes in while there is room for its events and for those of
\* the requests in flight.  The page offers to restore any version.
Start(w, j, place) ==
    /\ pc[w] = "idle"
    /\ nextEvent + 2 * Cardinality({o \in Writers : pc[o] \in Running}) < MaxEvent
    /\ job' = [job EXCEPT ![w] = j]
    /\ Go(w, place)
    /\ UNCHANGED <<tables, nextEvent, rowLock, draft, mine>>

StartSave(w, q, x) ==
    Start(w, [kind |-> "save", path |-> q, value |-> x, from |-> 0], "insert")

StartRestore(w, q, n) ==
    Start(w, [kind |-> "restore", path |-> q, value |-> None, from |-> n],
          "lock")

StartArchive(w, q) ==
    Start(w, [kind |-> "archive", path |-> q, value |-> None, from |-> 0],
          "lock")

StartRead(w, q) ==
    Start(w, [kind |-> "read", path |-> q, value |-> None, from |-> 0],
          "latest")

\* INSERT ... ON CONFLICT DO NOTHING: waits for a transaction that has
\* inserted the path and not ended; the inserter has the row to itself.
Insert(w) ==
    LET q == Path(w)
    IN  /\ pc[w] = "insert"
        /\ \/ /\ row[q] = "none" /\ rowLock[q] = None
              /\ Take(w)
              /\ Go(w, "number")
           \/ /\ row[q] # "none"
              /\ Go(w, "lock")
              /\ UNCHANGED rowLock
        /\ UNCHANGED <<tables, nextEvent, job, draft, mine>>

\* SELECT ... FOR UPDATE of SaveSecret and Restore.
Lock(w) ==
    LET q == Path(w)
    IN  /\ pc[w] = "lock"
        /\ job[w].kind \in {"save", "restore"}
        /\ \/ row[q] = "none" /\ Fail(w, "not_found")
           \/ /\ Free(q)
              /\ Take(w)
              /\ Go(w, IF job[w].kind = "save" THEN "number" ELSE "old")
              /\ UNCHANGED <<tables, nextEvent, job, draft, mine>>

\* Audit events inserted by the transaction, in order.
Record(w, es) ==
    /\ nextEvent' = nextEvent + Len(es)
    /\ mine' = [mine EXCEPT ![w] =
          {[id |-> nextEvent + i - 1, event |-> es[i]] : i \in DOMAIN es}]

\* readSecret joins the row and its versions in one statement, without a
\* lock, and opens what it finds.  Restore asks for a version, ReadSecret for
\* the newest one.
Selected(w) ==
    {v \in stored[Path(w)] : IF job[w].from = 0 THEN v \in Newest(Path(w))
                                               ELSE v.number = job[w].from}
Found(w) == {v \in Selected(w) : Opens(v, Path(w))}

\* No such version is ErrNotFound, one that does not open any other error.
Unread(w) ==
    /\ Found(w) = {}
    /\ Fail(w, IF Selected(w) = {} THEN "not_found" ELSE "failed")

ReadOld(w) ==
    /\ pc[w] = "old"
    /\ \/ Unread(w)
       \/ \E v \in Found(w) :
             /\ job' = [job EXCEPT ![w].value = v.value]
             /\ Go(w, "number")
             /\ UNCHANGED <<tables, nextEvent, rowLock, draft, mine>>

ReadNewest(w) ==
    /\ pc[w] = "latest"
    /\ \/ Unread(w)
       \/ \E v \in Found(w) :
             /\ job' = [job EXCEPT ![w].value = v.value]
             /\ Record(w, <<"SECRET_READ">>)
             /\ Go(w, "commit")
             /\ UNCHANGED <<tables, rowLock, draft>>

\* writeVersion reads the next number and seals the values under it.
TakeNumber(w) ==
    LET q == Path(w)
    IN  /\ pc[w] = "number"
        /\ draft' = [draft EXCEPT ![w] = Seal(job[w].value, q, NextNumber(q))]
        /\ Go(w, "write")
        /\ UNCHANGED <<tables, nextEvent, rowLock, job, mine>>

WriteEvents(w) ==
    <<IF draft[w].number = 1 THEN "SECRET_CREATED" ELSE "SECRET_UPDATED">>
      \o IF job[w].kind = "restore" THEN <<"SECRET_RESTORED">> ELSE <<>>

\* INSERT INTO secret_versions meets UNIQUE(secret_id, version).
Write(w) ==
    /\ pc[w] = "write"
    /\ \/ /\ \E v \in stored[Path(w)] : v.number = draft[w].number
          /\ Fail(w, "conflict")
       \/ /\ \A v \in stored[Path(w)] : v.number # draft[w].number
          /\ Record(w, WriteEvents(w))
          /\ Go(w, "commit")
          /\ UNCHANGED <<tables, rowLock, job, draft>>

\* Archive's UPDATE: no row, or one already archived, is ErrNotFound; it
\* waits for the lock and looks again.
ArchiveRow(w) ==
    LET q == Path(w)
    IN  /\ pc[w] = "lock"
        /\ job[w].kind = "archive"
        /\ \/ row[q] # "live" /\ Fail(w, "not_found")
           \/ /\ row[q] = "live" /\ Free(q)
              /\ Take(w)
              /\ Record(w, <<"SECRET_ARCHIVED">>)
              /\ Go(w, "commit")
              /\ UNCHANGED <<tables, job, draft>>

\* A version brings its path back; Archive writes no version.
StaysArchived(q) == IF row[q] = "none" THEN "live" ELSE row[q] \* mutant
AfterWrite(q) == "live"

Commit(w) ==
    LET q == Path(w)
    IN  /\ pc[w] = "commit"
        /\ log' = [log EXCEPT ![q] = @ \cup mine[w]]
        /\ \/ /\ job[w].kind = "read"
              /\ UNCHANGED <<row, stored>>
           \/ /\ job[w].kind = "archive"
              /\ row' = [row EXCEPT ![q] = "archived"]
              /\ UNCHANGED stored
           \/ /\ job[w].kind \in {"save", "restore"}
              /\ row' = [row EXCEPT ![q] = AfterWrite(q)]
              /\ stored' = [stored EXCEPT ![q] = @ \cup {draft[w]}]
        /\ Go(w, "done")
        /\ Unlock(w)
        /\ UNCHANGED <<nextEvent, job, draft, mine>>

\* A failed query, a caller who hangs up, a crash: all of it is rolled back,
\* but for the numbers drawn.
Abort(w) ==
    /\ pc[w] \in Running
    /\ Fail(w, "failed")

Respond(w) ==
    /\ pc[w] \in Ended
    /\ Go(w, "idle")
    /\ job' = [job EXCEPT ![w] = NoJob]
    /\ draft' = [draft EXCEPT ![w] = NoDraft]
    /\ mine' = [mine EXCEPT ![w] = {}]
    /\ UNCHANGED <<tables, nextEvent, rowLock>>

Request(w) ==
    \E q \in Paths :
        \/ \E x \in Values : StartSave(w, q, x)
        \/ \E v \in stored[q] : StartRestore(w, q, v.number)
        \/ StartArchive(w, q)
        \/ StartRead(w, q)

\* The statements that wait for the row, and those that do not.
Waits(w) == Insert(w) \/ Lock(w) \/ ArchiveRow(w)
Works(w) ==
    \/ ReadOld(w) \/ ReadNewest(w) \/ TakeNumber(w) \/ Write(w)
    \/ Commit(w) \/ Respond(w)

Next == \E w \in Writers : Request(w) \/ Waits(w) \/ Works(w) \/ Abort(w)

Spec == Init /\ [][Next]_vars

\* A statement that can run does; PostgreSQL hands a row to whoever has
\* waited for it longest, so nobody is passed over for ever.
Fairness == \A w \in Writers : SF_vars(Waits(w)) /\ WF_vars(Works(w))
FairSpec == Spec /\ Fairness

-----------------------------------------------------------------------------
\* Concurrent writers of a path never draw the same version: nobody meets
\* UNIQUE(secret_id, version), which status() would report as a name that is
\* taken (409), although the next try might succeed.
NoVersionConflict == \A w \in Writers : pc[w] # "conflict"

\* The audit trail, read in the order of its ids, retells what happened to a
\* path: one event per version, the creation first, and the last of its
\* changes is an archiving exactly when the path is archived.  An id is drawn
\* before the commit, and one that was rolled back leaves a gap.
Changes(q) == {e \in log[q] : e.event # "SECRET_READ"}
Last(E) == {e \in E : \A f \in E : f.id <= e.id}

TrailAgrees ==
    \A q \in Paths :
        LET made == {e \in Changes(q) : e.event = "SECRET_CREATED"}
            updated == {e \in Changes(q) : e.event = "SECRET_UPDATED"}
        IN  /\ Cardinality(made \cup updated) = Cardinality(stored[q])
            /\ Cardinality(made) = (IF stored[q] = {} THEN 0 ELSE 1)
            /\ \A e \in made, f \in log[q] : e.id <= f.id
            /\ row[q] = "archived"
                 <=> \E e \in Last(Changes(q)) : e.event = "SECRET_ARCHIVED"

\* What the three transactions do, seen from the tables, is what
\* SecretHistory promises: versions are numbered without a gap, never change
\* and open under their own path and number.
Value(q, n) ==
    LET readable == {v \in stored[q] : v.number = n /\ Opens(v, q)}
    IN  IF readable = {} THEN None ELSE (CHOOSE v \in readable : TRUE).value

History == INSTANCE SecretHistory WITH
    history <- [q \in Paths |->
                  [n \in 1 .. Cardinality(stored[q]) |-> Value(q, n)]],
    archived <- {q \in Paths : row[q] = "archived"}

ImplementsHistory == History!Spec

\* Every request is answered, however many wait for the same row.
EveryRequestEnds == \A w \in Writers : pc[w] \in Running ~> pc[w] \in Ended
=============================================================================
