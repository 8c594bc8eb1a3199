------------------------------ MODULE Startup ------------------------------
(***************************************************************************)
(* cmd/lockgate/main.go (run) with Migrate and InitializeMasterKey of      *)
(* internal/store/store.go: processes that start against one database, at  *)
(* the same time or after one another died half-way.  Migrate and          *)
(* InitializeMasterKey are one transaction each, begun with an advisory    *)
(* lock that ends with it; what they write shows when they commit.         *)
(***************************************************************************)
EXTENDS Naturals, FiniteSets

CONSTANTS
    Processes,
    Releases,   \* number of migrations embedded in each release in use
    KeyTable,   \* the migration that creates lockgate_master_key
    Generated,  \* key material InitializeMasterKey can draw
    Files,      \* key material an operator has in a file
    None,
    MaxLoss     \* bound: how often the operator loses the key row

ASSUME NoneAssumption == None \notin Processes \cup Generated \cup Files
ASSUME ReleasesAssumption ==
    /\ KeyTable \in Nat \ {0}
    /\ Releases # {} /\ \A r \in Releases : r \in Nat /\ r >= KeyTable
ASSUME BoundAssumption == MaxLoss \in Nat

Keys == Generated \cup Files
Labelled == [version : {"db-v1", "file-v1"}, key : Keys]
ASSUME NoKeyAssumption == None \notin Labelled

VARIABLES
    applied,    \* schema_migrations
    keyRow,     \* the row of lockgate_master_key, or None
    sealed,     \* keys under which there is ciphertext in the database
    lost,       \* times the key row got lost
    schemaLock, \* holder of advisory lock 732198421
    keyLock,    \* holder of advisory lock 732198422
    pc, job,
    next,       \* the migration a process has found missing
    ran,        \* migrations of its open transaction
    provider    \* its KeyProvider, in its transaction until it serves

database == <<applied, keyRow, sealed>>
locks == <<schemaLock, keyLock>>
vars == <<database, lost, locks, pc, job, next, ran, provider>>

Starting == {"lock_schema", "check", "apply", "commit_schema", "lock_key",
             "read_key", "look", "save_key", "commit_key"}
Jobs == [command : {"serve", "migrate", "key-import"},
         file : Files \cup {None}, release : Releases]
NoJob == [command |-> "none", file |-> None, release |-> 0]
Numbers == UNION {1 .. r : r \in Releases}

TypeOK ==
    /\ applied \subseteq Numbers
    /\ keyRow \in Labelled \cup {None}
    /\ sealed \subseteq Labelled
    /\ lost \in 0 .. MaxLoss
    /\ schemaLock \in Processes \cup {None}
    /\ keyLock \in Processes \cup {None}
    /\ pc \in [Processes -> Starting \cup {"off", "serving", "exit", "clash"}]
    /\ job \in [Processes -> Jobs \cup {NoJob}]
    /\ next \in [Processes -> Numbers \cup {0}]
    /\ ran \in [Processes -> SUBSET Numbers]
    /\ provider \in [Processes -> Labelled \cup {None}]

\* A new database, or that of a release that kept its key in a file.
Init ==
    /\ \/ applied = {} /\ sealed = {}
       \/ /\ applied = 1 .. KeyTable - 1
          /\ \E f \in Files : sealed \in {{}, {[version |-> "file-v1", key |-> f]}}
    /\ keyRow = None
    /\ lost = 0
    /\ schemaLock = None /\ keyLock = None
    /\ pc = [p \in Processes |-> "off"]
    /\ job = [p \in Processes |-> NoJob]
    /\ next = [p \in Processes |-> 0]
    /\ ran = [p \in Processes |-> {}]
    /\ provider = [p \in Processes |-> None]

-----------------------------------------------------------------------------
Go(p, place) == pc' = [pc EXCEPT ![p] = place]

\* A lock of the transaction goes with the transaction.
SessionLevel(lock, p) == lock \* mutant: pg_advisory_lock, without xact
Released(lock, p) == IF lock = p THEN None ELSE lock

\* The process ends, its transaction with it.
Stop(p, place) ==
    /\ Go(p, place)
    /\ schemaLock' = Released(schemaLock, p)
    /\ keyLock' = Released(keyLock, p)
    /\ ran' = [ran EXCEPT ![p] = {}]
    /\ next' = [next EXCEPT ![p] = 0]
    /\ provider' = [provider EXCEPT ![p] = None]
    /\ UNCHANGED <<database, lost, job>>

\* admin-create migrates and then leaves both the schema and the key alone:
\* here it is "migrate".  The operator who imports a key over existing
\* ciphertext takes the key it is sealed with, as the README asks.
Boot(p, command, f, r) ==
    /\ pc[p] = "off"
    /\ command = "key-import" <=> f # None
    /\ f # None => sealed = {} \/ \E c \in sealed : c.key = f
    /\ job' = [job EXCEPT ![p] =
                  [command |-> command, file |-> f, release |-> r]]
    /\ Go(p, "lock_schema")
    /\ UNCHANGED <<database, lost, locks, next, ran, provider>>

Unguarded(lock) == TRUE \* mutant: no pg_advisory_xact_lock
Grantable(lock) == lock = None

LockSchema(p) ==
    /\ pc[p] = "lock_schema"
    /\ Grantable(schemaLock)
    /\ schemaLock' = p
    /\ Go(p, "check")
    /\ UNCHANGED <<database, lost, keyLock, job, next, ran, provider>>

\* What a transaction of p sees of schema_migrations.
Visible(p) == applied \cup ran[p]

\* Files come in the order of their names; one that was applied is passed.
BreakAtApplied(p) == \* mutant: return instead of continue
    IF 1 \in Visible(p) \ ran[p] THEN {} ELSE (1 .. job[p].release) \ Visible(p)
OneTooMany(p) == (1 .. job[p].release + 1) \ Visible(p) \* mutant
Missing(p) == (1 .. job[p].release) \ Visible(p)

CheckMigration(p) ==
    /\ pc[p] = "check"
    /\ \/ Missing(p) = {} /\ Go(p, "commit_schema") /\ UNCHANGED next
       \/ \E m \in Missing(p) :
             /\ \A n \in Missing(p) : m <= n
             /\ next' = [next EXCEPT ![p] = m]
             /\ Go(p, "apply")
    /\ UNCHANGED <<database, lost, locks, job, ran, provider>>

\* The DDL waits for a transaction that is creating the same tables, and
\* fails when they are there.
ApplyMigration(p) ==
    /\ pc[p] = "apply"
    /\ \A o \in Processes \ {p} : next[p] \notin ran[o]
    /\ \/ next[p] \in applied /\ Stop(p, "clash")
       \/ /\ next[p] \notin applied
          /\ ran' = [ran EXCEPT ![p] = @ \cup {next[p]}]
          /\ Go(p, "check")
          /\ UNCHANGED <<database, lost, locks, job, next, provider>>

CommitSchema(p) ==
    /\ pc[p] = "commit_schema"
    /\ applied' = Visible(p)
    /\ ran' = [ran EXCEPT ![p] = {}]
    /\ schemaLock' = Released(schemaLock, p)
    /\ Go(p, IF job[p].command = "migrate" THEN "exit" ELSE "lock_key")
    /\ UNCHANGED <<keyRow, sealed, lost, keyLock, job, next, provider>>

LockKey(p) ==
    /\ pc[p] = "lock_key"
    /\ Grantable(keyLock)
    /\ keyLock' = p
    /\ Go(p, "read_key")
    /\ UNCHANGED <<database, lost, schemaLock, job, next, ran, provider>>

ReadKey(p) ==
    /\ pc[p] = "read_key"
    /\ provider' = [provider EXCEPT ![p] = keyRow]
    /\ Go(p, IF keyRow # None THEN "commit_key" ELSE "look")
    /\ UNCHANGED <<database, lost, locks, job, next, ran>>

\* EXISTS(secret_versions) OR EXISTS(admins with totp_ciphertext).
NothingYet == TRUE \* mutant: the check forgotten
NoCiphertext == sealed = {}

\* Random material differs from all there is.
InUse == {c.key : c \in (sealed \cup {keyRow} \cup
                        {provider[p] : p \in Processes}) \ {None}}

\* No row: the file's key if there is a file (that can be read and holds 32
\* bytes), else a new one, but only for a database without ciphertext.
ChooseKey(p) ==
    /\ pc[p] = "look"
    /\ \/ /\ job[p].file # None
          /\ provider' = [provider EXCEPT ![p] =
                             [version |-> "file-v1", key |-> job[p].file]]
          /\ Go(p, "save_key")
          /\ UNCHANGED <<database, lost, locks, job, next, ran>>
       \/ /\ job[p].file = None
          /\ NoCiphertext
          /\ \E k \in Generated \ InUse :
                provider' = [provider EXCEPT ![p] =
                                [version |-> "db-v1", key |-> k]]
          /\ Go(p, "save_key")
          /\ UNCHANGED <<database, lost, locks, job, next, ran>>
       \/ /\ job[p].file = None => ~NoCiphertext
          /\ Stop(p, "exit")

\* INSERT of id 1 waits for another one in flight, and fails on a row.
SaveKey(p) ==
    /\ pc[p] = "save_key"
    /\ \A o \in Processes \ {p} :
          ~(pc[o] = "commit_key" /\ provider[o] # keyRow)
    /\ \/ keyRow # None /\ Stop(p, "clash")
       \/ /\ keyRow = None
          /\ Go(p, "commit_key")
          /\ UNCHANGED <<database, lost, locks, job, next, ran, provider>>

CommitKey(p) ==
    /\ pc[p] = "commit_key"
    /\ keyRow' = provider[p]
    /\ keyLock' = Released(keyLock, p)
    /\ Go(p, IF job[p].command = "serve" THEN "serving" ELSE "exit")
    /\ UNCHANGED <<applied, sealed, lost, schemaLock, job, next, ran,
                   provider>>

\* A running server seals a version or a TOTP secret (secure.Seal).
SealData(p) ==
    /\ pc[p] = "serving"
    /\ sealed' = sealed \cup {provider[p]}
    /\ UNCHANGED <<applied, keyRow, lost, locks, pc, job, next, ran,
                   provider>>

\* A crash, a lost connection or the 30 seconds of the start-up context.
Die(p) == pc[p] \in Starting \cup {"serving"} /\ Stop(p, "exit")

\* The process is started again, by hand or by systemd.
Again(p) ==
    /\ pc[p] \in {"exit", "clash"}
    /\ Go(p, "off")
    /\ job' = [job EXCEPT ![p] = NoJob]
    /\ provider' = [provider EXCEPT ![p] = None]
    /\ UNCHANGED <<database, lost, locks, next, ran>>

\* The database comes back from a backup without the key table's row.
LoseKeyRow ==
    /\ lost < MaxLoss
    /\ keyRow # None
    /\ \A p \in Processes : pc[p] = "off"
    /\ lost' = lost + 1
    /\ keyRow' = None
    /\ UNCHANGED <<applied, sealed, locks, pc, job, next, ran, provider>>

Waits(p) == LockSchema(p) \/ ApplyMigration(p) \/ LockKey(p) \/ SaveKey(p)
Works(p) ==
    \/ CheckMigration(p) \/ CommitSchema(p)
    \/ ReadKey(p) \/ ChooseKey(p) \/ CommitKey(p)

Next ==
    \/ \E p \in Processes :
          \/ \E r \in Releases, f \in Files \cup {None} :
                \E command \in {"serve", "migrate", "key-import"} :
                   Boot(p, command, f, r)
          \/ Waits(p) \/ Works(p)
          \/ SealData(p) \/ Die(p) \/ Again(p)
    \/ LoseKeyRow

Spec == Init /\ [][Next]_vars

\* A process that can go on does.  Locks are granted in the order they were
\* asked for, so no process is passed over for ever.
Fairness == \A p \in Processes : SF_vars(Waits(p)) /\ WF_vars(Works(p))
FairSpec == Spec /\ Fairness

-----------------------------------------------------------------------------
\* Processes that start together never spoil each other's transactions: no
\* migration runs twice and no second key is inserted.
NoClash == \A p \in Processes : pc[p] # "clash"

\* A server that listens does so over every migration of its release, and
\* migrations are never applied with a gap before them.
ServesOnWholeSchema ==
    /\ \A p \in Processes :
          pc[p] = "serving" => 1 .. job[p].release \subseteq applied
    /\ \A m \in applied : 1 .. m \subseteq applied

\* All servers hold the one key of the database, and it opens every
\* ciphertext there is: no key was made while older data needed another.
OneKeyOpensAll ==
    /\ \A p \in Processes : pc[p] = "serving" => provider[p] = keyRow
    /\ keyRow # None => sealed \subseteq {keyRow}

\* store.go:117 tells the operator of a database without a key row to import
\* the existing key.  The imported row then has that key: it should open what
\* the key has sealed, but Open looks for the label "db-v1" it was sealed
\* under and the import is labelled "file-v1".
ImportedKeyOpens ==
    keyRow # None =>
        \A c \in sealed : c.key = keyRow.key => c.version = keyRow.version

\* A process that starts ends up serving or gone, whoever else starts or dies.
StartEnds ==
    \A p \in Processes : pc[p] \in Starting ~> pc[p] \notin Starting
=============================================================================
