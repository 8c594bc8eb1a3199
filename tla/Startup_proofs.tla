--------------------------- MODULE Startup_proofs ---------------------------
(***************************************************************************)
(* Proofs about Startup, for any number of processes, releases and keys.   *)
(***************************************************************************)
EXTENDS Startup, TLAPS

-----------------------------------------------------------------------------
(* The inductive invariant.                                                *)

Migrating == {"check", "apply", "commit_schema"}
Keying == {"read_key", "look", "save_key", "commit_key"}
Migrated == Keying \cup {"lock_key", "serving"}

\* A process at work knows what it was started for.
JobOK ==
    \A p \in Processes :
        pc[p] \in Starting \cup {"serving"} => job[p] \in Jobs

\* Migrations run under the advisory lock, in order, each one once, and what
\* a process has found it finds again until it commits.
SchemaOK ==
    /\ \A m \in applied : 1 .. m \subseteq applied
    /\ \A p \in Processes :
          /\ pc[p] \in Migrating => schemaLock = p
          /\ pc[p] \notin Migrating => ran[p] = {}
          /\ pc[p] = "apply" => /\ next[p] \in Missing(p)
                                /\ \A n \in Missing(p) : next[p] <= n
          /\ pc[p] = "commit_schema" => Missing(p) = {}
          /\ pc[p] \in Migrated => 1 .. job[p].release \subseteq applied
          /\ \A m \in Visible(p) : 1 .. m \subseteq Visible(p)

\* The key is read, made and stored under the other lock; the row a process
\* has read is the row there is.
KeyOK ==
    \A p \in Processes :
        /\ pc[p] \in Keying => keyLock = p
        /\ pc[p] \in {"look", "save_key"} => keyRow = None
        /\ pc[p] = "save_key" => provider[p] # None
        /\ pc[p] = "commit_key" => /\ provider[p] # None
                                   /\ keyRow \in {None, provider[p]}
        /\ pc[p] = "serving" => keyRow # None /\ provider[p] = keyRow

IInv == TypeOK /\ JobOK /\ SchemaOK /\ KeyOK /\ NoClash

LEMMA InitIInv == Init => IInv
<1> SUFFICES ASSUME Init PROVE IInv
  OBVIOUS
<1>1. /\ \A m \in applied : 1 .. m \subseteq applied
      /\ applied \subseteq Numbers /\ sealed \subseteq Labelled
  <2>1. PICK r \in Releases : r \in Nat /\ r >= KeyTable /\ KeyTable \in Nat \ {0}
    BY ReleasesAssumption
  <2>2. 1 .. KeyTable - 1 \subseteq 1 .. r
    BY <2>1
  <2>3. 1 .. r \subseteq Numbers
    BY DEF Numbers
  <2>4. \A m \in 1 .. KeyTable - 1 : 1 .. m \subseteq 1 .. KeyTable - 1
    BY <2>1
  <2>5. \A f \in Files : [version |-> "file-v1", key |-> f] \in Labelled
    BY DEF Labelled, Keys
  <2> QED BY <2>2, <2>3, <2>4, <2>5 DEF Init
<1>2. TypeOK
  BY <1>1, BoundAssumption DEF Init, TypeOK
<1>3. JobOK /\ KeyOK /\ NoClash
  BY DEF Init, JobOK, KeyOK, NoClash, Starting, Keying
<1>4. SchemaOK
  BY <1>1 DEF Init, SchemaOK, Migrating, Migrated, Keying, Visible
<1> QED BY <1>2, <1>3, <1>4 DEF IInv

-----------------------------------------------------------------------------
(* Steps that end a transaction without a commit.                          *)

\* The locks somebody else holds stay where they are.
LEMMA OthersLocks ==
    ASSUME NEW lock, NEW p \in Processes, NEW q \in Processes, q # p
    PROVE  Released(lock, p) = q <=> lock = q
BY NoneAssumption DEF Released

LEMMA StopIInv ==
    ASSUME IInv, NEW p \in Processes, Stop(p, "exit")
    PROVE  IInv'
<1>1. /\ pc'[p] = "exit" /\ ran'[p] = {}
      /\ \A q \in Processes \ {p} :
            /\ pc'[q] = pc[q] /\ ran'[q] = ran[q] /\ next'[q] = next[q]
            /\ provider'[q] = provider[q]
      /\ UNCHANGED <<applied, keyRow, sealed, lost, job>>
      /\ schemaLock' = Released(schemaLock, p)
      /\ keyLock' = Released(keyLock, p)
  BY DEF Stop, Go, database, IInv, TypeOK
<1>2. TypeOK'
  BY DEF Stop, Go, database, IInv, TypeOK, Released
<1>3. JobOK' /\ NoClash'
  BY <1>1 DEF IInv, JobOK, NoClash, Starting
<1>4. SchemaOK'
  BY <1>1, OthersLocks
     DEF IInv, SchemaOK, Migrating, Migrated, Keying, Visible, Missing
<1>5. KeyOK'
  BY <1>1, OthersLocks DEF IInv, KeyOK, Keying
<1> QED BY <1>2, <1>3, <1>4, <1>5 DEF IInv

-----------------------------------------------------------------------------
(* Every step keeps the invariant.                                         *)

LEMMA BootIInv ==
    ASSUME IInv, NEW p \in Processes, NEW r \in Releases,
           NEW f \in Files \cup {None},
           NEW command \in {"serve", "migrate", "key-import"},
           Boot(p, command, f, r)
    PROVE  IInv'
<1>1. /\ pc[p] = "off" /\ pc'[p] = "lock_schema" /\ job'[p] \in Jobs
      /\ \A q \in Processes \ {p} : pc'[q] = pc[q] /\ job'[q] = job[q]
      /\ UNCHANGED <<database, lost, locks, next, ran, provider>>
  BY DEF Boot, Go, Jobs, IInv, TypeOK
<1>2. TypeOK'
  BY <1>1 DEF Boot, Go, Jobs, database, locks, IInv, TypeOK, Starting
<1>3. JobOK' /\ NoClash'
  BY <1>1 DEF IInv, JobOK, NoClash
<1>4. SchemaOK'
  BY <1>1 DEF IInv, SchemaOK, Migrating, Migrated, Keying, Visible, Missing,
              database, locks
<1>5. KeyOK'
  BY <1>1 DEF IInv, KeyOK, Keying, database, locks
<1> QED BY <1>2, <1>3, <1>4, <1>5 DEF IInv

LEMMA LockIInv ==
    ASSUME IInv, NEW p \in Processes, LockSchema(p) \/ LockKey(p)
    PROVE  IInv'
<1>1. CASE LockSchema(p)
  <2>1. /\ pc[p] = "lock_schema" /\ pc'[p] = "check"
        /\ \A q \in Processes \ {p} : pc'[q] = pc[q]
        /\ schemaLock = None /\ schemaLock' = p
        /\ UNCHANGED <<database, lost, keyLock, job, next, ran, provider>>
    BY <1>1 DEF LockSchema, Grantable, Go, IInv, TypeOK
  <2>2. TypeOK'
    BY <1>1, <2>1 DEF LockSchema, Go, database, IInv, TypeOK, Starting
  <2>3. JobOK' /\ NoClash' /\ KeyOK'
    BY <2>1 DEF IInv, JobOK, NoClash, KeyOK, Keying, Starting, database
  <2>4. SchemaOK'
    BY <2>1, NoneAssumption
       DEF IInv, SchemaOK, Migrating, Migrated, Keying, Visible, Missing, database
  <2> QED BY <2>2, <2>3, <2>4 DEF IInv
<1>2. CASE LockKey(p)
  <2>1. /\ pc[p] = "lock_key" /\ pc'[p] = "read_key"
        /\ \A q \in Processes \ {p} : pc'[q] = pc[q]
        /\ keyLock = None /\ keyLock' = p
        /\ UNCHANGED <<database, lost, schemaLock, job, next, ran, provider>>
    BY <1>2 DEF LockKey, Grantable, Go, IInv, TypeOK
  <2>2. TypeOK'
    BY <1>2, <2>1 DEF LockKey, Go, database, IInv, TypeOK, Starting
  <2>3. JobOK' /\ NoClash'
    BY <2>1 DEF IInv, JobOK, NoClash, Starting
  <2>4. KeyOK'
    BY <2>1, NoneAssumption DEF IInv, KeyOK, Keying, database
  <2>5. SchemaOK'
    BY <2>1
       DEF IInv, SchemaOK, Migrating, Migrated, Keying, Visible, Missing, database
  <2> QED BY <2>2, <2>3, <2>4, <2>5 DEF IInv
<1> QED BY <1>1, <1>2

LEMMA CheckIInv ==
    ASSUME IInv, NEW p \in Processes, CheckMigration(p)
    PROVE  IInv'
<1>1. /\ pc[p] = "check" /\ pc'[p] \in {"commit_schema", "apply"}
      /\ pc'[p] = "commit_schema" => Missing(p) = {}
      /\ pc'[p] = "apply" => /\ next'[p] \in Missing(p)
                             /\ \A n \in Missing(p) : next'[p] <= n
      /\ \A q \in Processes \ {p} : pc'[q] = pc[q] /\ next'[q] = next[q]
      /\ UNCHANGED <<database, lost, locks, job, ran, provider>>
  BY DEF CheckMigration, Go, IInv, TypeOK
<1>2. Missing(p) \subseteq Numbers
  BY <1>1 DEF IInv, JobOK, Starting, Jobs, Missing, Numbers
<1>3. TypeOK'
  BY <1>1, <1>2 DEF CheckMigration, Go, database, locks, IInv, TypeOK, Starting
<1>4. JobOK' /\ NoClash' /\ KeyOK'
  BY <1>1 DEF IInv, JobOK, NoClash, KeyOK, Keying, Starting, database, locks
<1>5. SchemaOK'
  BY <1>1 DEF IInv, SchemaOK, Migrating, Migrated, Keying, Visible, Missing,
              database, locks
<1> QED BY <1>3, <1>4, <1>5 DEF IInv

LEMMA ApplyIInv ==
    ASSUME IInv, NEW p \in Processes, ApplyMigration(p)
    PROVE  IInv'
<1>0. /\ pc[p] = "apply" /\ next[p] \in Missing(p)
      /\ \A n \in Missing(p) : next[p] <= n
      /\ job[p].release \in Nat /\ job[p].release \in Releases
      /\ schemaLock = p
  BY ReleasesAssumption
     DEF ApplyMigration, IInv, SchemaOK, JobOK, Starting, Jobs, Migrating
<1>1. /\ pc'[p] = "check" /\ ran'[p] = ran[p] \cup {next[p]}
      /\ \A q \in Processes \ {p} : pc'[q] = pc[q] /\ ran'[q] = ran[q]
      /\ UNCHANGED <<database, lost, locks, job, next, provider>>
  BY <1>0 DEF ApplyMigration, Missing, Visible, Go, IInv, TypeOK
<1>2. TypeOK'
  <2>1. next[p] \in Numbers
    BY <1>0 DEF Missing, Numbers
  <2>2. ran' = [ran EXCEPT ![p] = ran[p] \cup {next[p]}]
        /\ pc' = [pc EXCEPT ![p] = "check"]
    BY <1>0 DEF ApplyMigration, Missing, Visible, Go
  <2> QED BY <1>1, <2>1, <2>2 DEF database, locks, IInv, TypeOK, Starting
<1>3. JobOK' /\ NoClash' /\ KeyOK'
  BY <1>0, <1>1 DEF IInv, JobOK, NoClash, KeyOK, Keying, Starting, database, locks
<1>4. /\ applied' = applied /\ Visible(p)' = Visible(p) \cup {next[p]}
      /\ \A q \in Processes \ {p} : /\ Visible(q)' = Visible(q)
                                    /\ Missing(q)' = Missing(q)
  BY <1>1 DEF Visible, Missing, database
<1>5. \A m \in Visible(p)' : 1 .. m \subseteq Visible(p)'
  <2>1. 1 .. next[p] \subseteq Visible(p) \cup {next[p]}
    <3> SUFFICES ASSUME NEW n \in 1 .. next[p], n # next[p], n \notin Visible(p)
                 PROVE  FALSE
      OBVIOUS
    <3>1. next[p] \in 1 .. job[p].release
      BY <1>0 DEF Missing
    <3>2. n \in Missing(p) /\ n < next[p]
      BY <1>0, <3>1 DEF Missing
    <3> QED BY <1>0, <3>1, <3>2
  <2>2. \A m \in Visible(p) : 1 .. m \subseteq Visible(p)
    BY DEF IInv, SchemaOK
  <2> QED BY <1>4, <2>1, <2>2
<1>6. SchemaOK'
  BY <1>0, <1>1, <1>4, <1>5
     DEF IInv, SchemaOK, Migrating, Migrated, Keying, database, locks
<1> QED BY <1>2, <1>3, <1>6 DEF IInv

LEMMA CommitSchemaIInv ==
    ASSUME IInv, NEW p \in Processes, CommitSchema(p)
    PROVE  IInv'
<1>0. /\ pc[p] = "commit_schema" /\ Missing(p) = {} /\ schemaLock = p
      /\ \A m \in Visible(p) : 1 .. m \subseteq Visible(p)
      /\ \A q \in Processes \ {p} : pc[q] \notin Migrating /\ ran[q] = {}
  BY DEF CommitSchema, IInv, SchemaOK, Migrating
<1>1. /\ pc'[p] \in {"exit", "lock_key"} /\ ran'[p] = {}
      /\ \A q \in Processes \ {p} : pc'[q] = pc[q] /\ ran'[q] = ran[q]
      /\ applied' = Visible(p)
      /\ UNCHANGED <<keyRow, sealed, lost, keyLock, job, next, provider>>
  BY DEF CommitSchema, Go, IInv, TypeOK
<1>2. TypeOK'
  <2>1. Visible(p) \subseteq Numbers
    BY DEF IInv, TypeOK, Visible
  <2> QED
    BY <1>1, <2>1 DEF CommitSchema, Go, Released, IInv, TypeOK, Starting
<1>3. JobOK' /\ NoClash' /\ KeyOK'
  BY <1>0, <1>1 DEF IInv, JobOK, NoClash, KeyOK, Keying, Starting
<1>4. applied \subseteq applied' /\ 1 .. job[p].release \subseteq applied'
  BY <1>0, <1>1 DEF Visible, Missing
<1>5. \A q \in Processes : Visible(q)' = applied' /\ pc'[q] \notin Migrating
  BY <1>0, <1>1 DEF Visible, Migrating
<1>6. SchemaOK'
  <2>1. \A m \in applied' : 1 .. m \subseteq applied'
    BY <1>0, <1>1
  <2>2. ASSUME NEW q \in Processes
        PROVE  /\ ran'[q] = {}
               /\ pc'[q] \in Migrated => 1 .. job'[q].release \subseteq applied'
    BY <1>0, <1>1, <1>4 DEF IInv, SchemaOK
  <2> QED BY <1>5, <2>1, <2>2 DEF SchemaOK, Migrating
<1> QED BY <1>2, <1>3, <1>6 DEF IInv

\* Steps that leave the migrations alone.
LEMMA KeyStepSchema ==
    ASSUME IInv, NEW p \in Processes,
           \A q \in Processes \ {p} : pc'[q] = pc[q],
           pc[p] \notin Migrating, pc'[p] \notin Migrating,
           pc'[p] \in Migrated => pc[p] \in Migrated,
           UNCHANGED <<applied, schemaLock, job, next, ran>>
    PROVE  SchemaOK'
BY DEF IInv, SchemaOK, Visible, Missing, Migrating

LEMMA ReadKeyIInv ==
    ASSUME IInv, NEW p \in Processes, ReadKey(p)
    PROVE  IInv'
<1>1. /\ pc[p] = "read_key" /\ provider'[p] = keyRow
      /\ pc'[p] = IF keyRow # None THEN "commit_key" ELSE "look"
      /\ \A q \in Processes \ {p} : pc'[q] = pc[q] /\ provider'[q] = provider[q]
      /\ UNCHANGED <<database, lost, locks, job, next, ran>>
  BY DEF ReadKey, Go, IInv, TypeOK
<1>2. TypeOK'
  BY <1>1 DEF ReadKey, Go, database, locks, IInv, TypeOK, Starting
<1>3. JobOK' /\ NoClash'
  BY <1>1 DEF IInv, JobOK, NoClash, Starting
<1>4. KeyOK'
  BY <1>1 DEF IInv, KeyOK, Keying, database, locks
<1>5. SchemaOK'
  BY <1>1, KeyStepSchema DEF Migrating, Migrated, Keying, database, locks
<1> QED BY <1>2, <1>3, <1>4, <1>5 DEF IInv

LEMMA ChooseKeyIInv ==
    ASSUME IInv, NEW p \in Processes, ChooseKey(p)
    PROVE  IInv'
<1>1. CASE Stop(p, "exit")
  BY <1>1, StopIInv
<1>2. CASE ~Stop(p, "exit")
  <2>1. PICK k \in Labelled :
          /\ provider' = [provider EXCEPT ![p] = k]
          /\ pc[p] = "look" /\ Go(p, "save_key")
          /\ UNCHANGED <<database, lost, locks, job, next, ran>>
    <3>1. pc[p] = "look" /\ (job[p].file # None => job[p].file \in Files)
      BY DEF ChooseKey, IInv, JobOK, Starting, Jobs
    <3>2. CASE /\ job[p].file # None
               /\ provider' = [provider EXCEPT ![p] =
                                 [version |-> "file-v1", key |-> job[p].file]]
               /\ Go(p, "save_key")
               /\ UNCHANGED <<database, lost, locks, job, next, ran>>
      <4>1. [version |-> "file-v1", key |-> job[p].file] \in Labelled
        BY <3>1, <3>2 DEF Labelled, Keys
      <4> QED BY <3>1, <3>2, <4>1
    <3>3. CASE \E k \in Generated \ InUse :
                  /\ provider' = [provider EXCEPT ![p] =
                                    [version |-> "db-v1", key |-> k]]
                  /\ Go(p, "save_key")
                  /\ UNCHANGED <<database, lost, locks, job, next, ran>>
      <4>1. PICK k \in Generated :
              /\ provider' = [provider EXCEPT ![p] =
                                [version |-> "db-v1", key |-> k]]
              /\ Go(p, "save_key")
              /\ UNCHANGED <<database, lost, locks, job, next, ran>>
        BY <3>3
      <4>2. [version |-> "db-v1", key |-> k] \in Labelled
        BY DEF Labelled, Keys
      <4> QED BY <3>1, <4>1, <4>2
    <3> QED BY <1>2, <3>2, <3>3 DEF ChooseKey
  <2>2. k # None
    BY NoKeyAssumption
  <2>3. /\ pc'[p] = "save_key" /\ provider'[p] = k
        /\ \A q \in Processes \ {p} : pc'[q] = pc[q] /\ provider'[q] = provider[q]
    BY <2>1 DEF Go, IInv, TypeOK
  <2>4. TypeOK'
    BY <2>1 DEF Go, database, locks, IInv, TypeOK, Starting
  <2>5. JobOK' /\ NoClash'
    BY <2>1, <2>3 DEF IInv, JobOK, NoClash, Starting
  <2>6. SchemaOK'
    BY <2>1, <2>3, KeyStepSchema DEF Migrating, Migrated, Keying, database, locks
  <2>7. KeyOK'
    BY <2>1, <2>2, <2>3 DEF IInv, KeyOK, Keying, database, locks
  <2> QED BY <2>4, <2>5, <2>6, <2>7 DEF IInv
<1> QED BY <1>1, <1>2

LEMMA SaveKeyIInv ==
    ASSUME IInv, NEW p \in Processes, SaveKey(p)
    PROVE  IInv'
<1>1. /\ pc[p] = "save_key" /\ keyRow = None /\ provider[p] # None
      /\ Go(p, "commit_key")
      /\ UNCHANGED <<database, lost, locks, job, next, ran, provider>>
  BY DEF SaveKey, IInv, KeyOK
<1>2. pc'[p] = "commit_key" /\ \A q \in Processes \ {p} : pc'[q] = pc[q]
  BY <1>1 DEF Go, IInv, TypeOK
<1>3. TypeOK'
  BY <1>1 DEF Go, database, locks, IInv, TypeOK, Starting
<1>4. JobOK' /\ NoClash'
  BY <1>1, <1>2 DEF IInv, JobOK, NoClash, Starting
<1>5. SchemaOK'
  BY <1>1, <1>2, KeyStepSchema DEF Migrating, Migrated, Keying, database, locks
<1>6. KeyOK'
  BY <1>1, <1>2 DEF IInv, KeyOK, Keying, database, locks
<1> QED BY <1>3, <1>4, <1>5, <1>6 DEF IInv

LEMMA CommitKeyIInv ==
    ASSUME IInv, NEW p \in Processes, CommitKey(p)
    PROVE  IInv'
<1>1. /\ pc[p] = "commit_key" /\ pc'[p] \in {"serving", "exit"}
      /\ \A q \in Processes \ {p} : pc'[q] = pc[q]
      /\ provider[p] # None /\ keyRow \in {None, provider[p]}
      /\ keyRow' = provider[p] /\ keyLock = p
      /\ UNCHANGED <<applied, sealed, lost, schemaLock, job, next, ran, provider>>
  BY DEF CommitKey, Go, IInv, TypeOK, KeyOK, Keying
<1>2. \A q \in Processes \ {p} : pc[q] \notin Keying
  BY <1>1 DEF IInv, KeyOK
<1>3. TypeOK'
  BY <1>1 DEF CommitKey, Go, Released, IInv, TypeOK, Starting
<1>4. JobOK' /\ NoClash'
  BY <1>1 DEF IInv, JobOK, NoClash, Starting
<1>5. SchemaOK'
  BY <1>1, KeyStepSchema DEF Migrating, Migrated, Keying
<1>6. KeyOK'
  BY <1>1, <1>2 DEF IInv, KeyOK, Keying
<1> QED BY <1>3, <1>4, <1>5, <1>6 DEF IInv

LEMMA AgainIInv ==
    ASSUME IInv, NEW p \in Processes, Again(p)
    PROVE  IInv'
<1>1. /\ pc[p] \in {"exit", "clash"} /\ pc'[p] = "off"
      /\ \A q \in Processes \ {p} :
            pc'[q] = pc[q] /\ job'[q] = job[q] /\ provider'[q] = provider[q]
      /\ UNCHANGED <<database, lost, locks, next, ran>>
  BY DEF Again, Go, IInv, TypeOK
<1>2. TypeOK'
  BY <1>1 DEF Again, Go, database, locks, IInv, TypeOK
<1>3. JobOK' /\ NoClash'
  BY <1>1 DEF IInv, JobOK, NoClash, Starting
<1>4. SchemaOK'
  BY <1>1 DEF IInv, SchemaOK, Migrating, Migrated, Keying, Visible, Missing,
              database, locks
<1>5. KeyOK'
  BY <1>1 DEF IInv, KeyOK, Keying, database, locks
<1> QED BY <1>2, <1>3, <1>4, <1>5 DEF IInv

\* Sealing, losing the row, and doing nothing.
LEMMA QuietIInv ==
    ASSUME IInv,
           (\E p \in Processes : SealData(p)) \/ LoseKeyRow \/ UNCHANGED vars
    PROVE  IInv'
<1>1. /\ UNCHANGED <<applied, locks, pc, job, next, ran, provider>>
      /\ keyRow' = keyRow \/ \A p \in Processes : pc[p] = "off"
  BY DEF SealData, LoseKeyRow, vars, database, locks
<1>2. TypeOK'
  <2>1. CASE \E p \in Processes : SealData(p)
    BY <2>1 DEF SealData, locks, IInv, TypeOK, KeyOK
  <2>2. CASE LoseKeyRow
    <3>1. lost' \in 0 .. MaxLoss
      BY <2>2, BoundAssumption DEF LoseKeyRow, IInv, TypeOK
    <3> QED BY <2>2, <3>1 DEF LoseKeyRow, locks, IInv, TypeOK
  <2>3. CASE UNCHANGED vars
    BY <2>3 DEF vars, database, locks, IInv, TypeOK
  <2> QED BY <2>1, <2>2, <2>3
<1>3. JobOK' /\ NoClash' /\ KeyOK'
  BY <1>1 DEF IInv, JobOK, NoClash, KeyOK, Keying, locks
<1>4. SchemaOK'
  BY <1>1 DEF IInv, SchemaOK, Visible, Missing, locks
<1> QED BY <1>2, <1>3, <1>4 DEF IInv

LEMMA NextIInv == IInv /\ [Next]_vars => IInv'
<1> SUFFICES ASSUME IInv, [Next]_vars PROVE IInv'
  OBVIOUS
<1>1. ASSUME NEW p \in Processes, Waits(p) PROVE IInv'
  BY <1>1, LockIInv, ApplyIInv, SaveKeyIInv DEF Waits
<1>2. ASSUME NEW p \in Processes, Works(p) PROVE IInv'
  BY <1>2, CheckIInv, CommitSchemaIInv, ReadKeyIInv, ChooseKeyIInv,
     CommitKeyIInv DEF Works
<1>3. ASSUME NEW p \in Processes, Die(p) PROVE IInv'
  BY <1>3, StopIInv DEF Die
<1> QED BY <1>1, <1>2, <1>3, BootIInv, AgainIInv, QuietIInv DEF Next

-----------------------------------------------------------------------------
(* The theorems.                                                           *)

\* Every step keeps migrations, jobs and the key row consistent.
THEOREM Invariance == Spec => []IInv
BY InitIInv, NextIInv, PTL DEF Spec

\* Tables, locks and processes have the shape of the schema and the code.
THEOREM TypeCorrect == Spec => []TypeOK
<1>1. IInv => TypeOK
  BY DEF IInv
<1> QED BY <1>1, Invariance, PTL

\* No migration runs twice and no second key is inserted, however many
\* processes start together or again.
THEOREM NoClashHolds == Spec => []NoClash
<1>1. IInv => NoClash
  BY DEF IInv
<1> QED BY <1>1, Invariance, PTL

\* A server that listens has the whole schema of its release under it.
THEOREM ServesOnWholeSchemaHolds == Spec => []ServesOnWholeSchema
<1>1. IInv => ServesOnWholeSchema
  BY DEF IInv, SchemaOK, Migrated, ServesOnWholeSchema
<1> QED BY <1>1, Invariance, PTL

-----------------------------------------------------------------------------
(* One key opens everything.                                               *)

\* A key from a file and one from the generator are labelled differently.
LabelOK(c) == c.version = "file-v1" <=> c.key \in Files

\* All there is was sealed under one key; the row has it when there is a row,
\* and when there is none a process that is about to store a key has it.
KeysAgree ==
    /\ \A c \in sealed : LabelOK(c)
    /\ \A c, d \in sealed : c = d
    /\ keyRow # None => LabelOK(keyRow) /\ sealed \subseteq {keyRow}
    /\ \A p \in Processes :
          /\ provider[p] # None => LabelOK(provider[p])
          /\ pc[p] \in Starting /\ job[p].file # None /\ keyRow = None =>
                \A c \in sealed : c.key = job[p].file
          /\ pc[p] \in {"save_key", "commit_key"} /\ keyRow = None =>
                sealed \subseteq {provider[p]}

LEMMA InitKeys == Init => KeysAgree
<1> SUFFICES ASSUME Init PROVE KeysAgree
  OBVIOUS
<1>1. \/ sealed = {}
      \/ \E f \in Files : sealed = {[version |-> "file-v1", key |-> f]}
  BY DEF Init
<1>2. (\A c \in sealed : LabelOK(c)) /\ (\A c, d \in sealed : c = d)
  BY <1>1 DEF LabelOK
<1> QED BY <1>2 DEF Init, KeysAgree, Starting

LEMMA ChooseKeys ==
    ASSUME IInv, KeysAgree, Generated \cap Files = {},
           NEW p \in Processes, ChooseKey(p), ~Stop(p, "exit")
    PROVE  KeysAgree'
<1>1. /\ pc[p] = "look" /\ keyRow = None /\ Go(p, "save_key")
      /\ UNCHANGED <<database, job>>
      /\ job[p].file \in Files \cup {None}
  BY DEF ChooseKey, IInv, KeyOK, JobOK, Starting, Jobs
<1>2. PICK k \in Labelled : /\ provider' = [provider EXCEPT ![p] = k]
                            /\ LabelOK(k) /\ sealed \subseteq {k}
  <2>1. CASE job[p].file # None
    <3> DEFINE k == [version |-> "file-v1", key |-> job[p].file]
    <3>1. provider' = [provider EXCEPT ![p] = k]
      BY <2>1 DEF ChooseKey
    <3>2. k \in Labelled /\ LabelOK(k)
      BY <1>1, <2>1 DEF Labelled, Keys, LabelOK
    <3>3. ASSUME NEW c \in sealed PROVE c = k
      <4>1. c.key = job[p].file /\ LabelOK(c)
        BY <1>1, <2>1 DEF KeysAgree, Starting
      <4>2. c \in Labelled
        BY DEF IInv, TypeOK
      <4>3. c.version = "file-v1"
        BY <1>1, <2>1, <4>1 DEF LabelOK
      <4> QED BY <4>1, <4>2, <4>3 DEF Labelled
    <3> HIDE DEF k
    <3> QED BY <3>1, <3>2, <3>3
  <2>2. CASE job[p].file = None
    <3>1. sealed = {}
      BY <2>2 DEF ChooseKey, NoCiphertext
    <3>2. PICK g \in Generated :
            provider' = [provider EXCEPT ![p] = [version |-> "db-v1", key |-> g]]
      BY <2>2 DEF ChooseKey, NoCiphertext
    <3>3. /\ [version |-> "db-v1", key |-> g] \in Labelled
          /\ LabelOK([version |-> "db-v1", key |-> g])
      BY DEF Labelled, Keys, LabelOK
    <3> QED BY <3>1, <3>2, <3>3
  <2> QED BY <2>1, <2>2
<1>3. /\ pc'[p] = "save_key" /\ provider'[p] = k
      /\ \A q \in Processes \ {p} : pc'[q] = pc[q] /\ provider'[q] = provider[q]
  BY <1>1, <1>2 DEF Go, IInv, TypeOK
<1> QED BY <1>1, <1>2, <1>3 DEF KeysAgree, database, Starting

LEMMA NextKeys ==
    ASSUME IInv, KeysAgree, Generated \cap Files = {}, [Next]_vars
    PROVE  KeysAgree'
<1> USE DEF KeysAgree, database
<1>1. ASSUME NEW p \in Processes, NEW r \in Releases, NEW f \in Files \cup {None},
             NEW command \in {"serve", "migrate", "key-import"},
             Boot(p, command, f, r)
      PROVE  KeysAgree'
  <2>1. /\ pc'[p] = "lock_schema" /\ job'[p].file = f
        /\ \A q \in Processes \ {p} : pc'[q] = pc[q] /\ job'[q] = job[q]
        /\ UNCHANGED <<database, provider>>
    BY <1>1 DEF Boot, Go, IInv, TypeOK
  <2>2. f # None => \A c \in sealed : c.key = f
    BY <1>1 DEF Boot
  <2> QED BY <2>1, <2>2
\* Steps that go on, and touch no key.
<1>2. ASSUME NEW p \in Processes,
             pc[p] \in Starting, pc'[p] # "commit_key" \/ pc[p] = "save_key",
             pc'[p] # "save_key",
             \A q \in Processes \ {p} : pc'[q] = pc[q],
             UNCHANGED <<keyRow, sealed, job, provider>>
      PROVE  KeysAgree'
  BY <1>2
<1>3. ASSUME NEW p \in Processes, Stop(p, "exit") PROVE KeysAgree'
  <2>1. /\ pc'[p] = "exit" /\ provider'[p] = None
        /\ \A q \in Processes \ {p} : pc'[q] = pc[q] /\ provider'[q] = provider[q]
        /\ UNCHANGED <<database, job>>
    BY <1>3 DEF Stop, Go, IInv, TypeOK
  <2> QED BY <2>1 DEF Starting
<1>4. ASSUME NEW p \in Processes, Waits(p) PROVE KeysAgree'
  <2>1. CASE LockSchema(p) \/ LockKey(p)
    BY <1>2, <2>1 DEF LockSchema, LockKey, Go, Starting, IInv, TypeOK
  <2>2. CASE ApplyMigration(p)
    <3>1. ~Stop(p, "clash")
      BY ApplyIInv, <2>2 DEF IInv, NoClash, Stop, Go, TypeOK
    <3> QED BY <1>2, <2>2, <3>1 DEF ApplyMigration, Go, Starting, IInv, TypeOK
  <2>3. CASE SaveKey(p)
    <3>1. ~Stop(p, "clash")
      BY SaveKeyIInv, <2>3 DEF IInv, NoClash, Stop, Go, TypeOK
    <3> QED BY <1>2, <2>3, <3>1 DEF SaveKey, Go, Starting, IInv, TypeOK
  <2> QED BY <1>4, <2>1, <2>2, <2>3 DEF Waits
<1>5. ASSUME NEW p \in Processes, Works(p) PROVE KeysAgree'
  <2>1. CASE CheckMigration(p) \/ CommitSchema(p)
    BY <1>2, <2>1 DEF CheckMigration, CommitSchema, Go, Starting, IInv, TypeOK
  <2>2. CASE ReadKey(p)
    <3>1. /\ pc[p] = "read_key" /\ provider'[p] = keyRow
          /\ pc'[p] \in {"commit_key", "look"}
          /\ pc'[p] = "commit_key" => keyRow # None
          /\ \A q \in Processes \ {p} : pc'[q] = pc[q] /\ provider'[q] = provider[q]
          /\ UNCHANGED <<database, job>>
      BY <2>2 DEF ReadKey, Go, IInv, TypeOK
    <3> QED BY <3>1 DEF Starting
  <2>3. CASE ChooseKey(p)
    BY <1>3, <2>3, ChooseKeys
  <2>4. CASE CommitKey(p)
    <3>1. /\ pc[p] = "commit_key" /\ pc'[p] \in {"serving", "exit"}
          /\ \A q \in Processes \ {p} : pc'[q] = pc[q]
          /\ provider[p] # None /\ keyRow \in {None, provider[p]}
          /\ keyRow' = provider[p]
          /\ UNCHANGED <<sealed, job, provider>>
      BY <2>4 DEF CommitKey, Go, IInv, TypeOK, KeyOK
    <3>2. sealed \subseteq {provider[p]} /\ LabelOK(provider[p])
      BY <3>1
    <3> QED BY <3>1, <3>2 DEF Starting
  <2> QED BY <1>5, <2>1, <2>2, <2>3, <2>4 DEF Works
<1>6. ASSUME NEW p \in Processes, SealData(p) PROVE KeysAgree'
  <2>1. /\ keyRow # None /\ provider[p] = keyRow
        /\ sealed' = sealed \cup {keyRow}
        /\ UNCHANGED <<keyRow, pc, job, provider>>
    BY <1>6 DEF SealData, IInv, KeyOK
  <2> QED BY <2>1
<1>7. ASSUME NEW p \in Processes, Die(p) PROVE KeysAgree'
  BY <1>3, <1>7 DEF Die
<1>8. ASSUME NEW p \in Processes, Again(p) PROVE KeysAgree'
  <2>1. /\ pc'[p] = "off" /\ provider'[p] = None
        /\ \A q \in Processes \ {p} :
              pc'[q] = pc[q] /\ provider'[q] = provider[q] /\ job'[q] = job[q]
        /\ UNCHANGED database
    BY <1>8 DEF Again, Go, IInv, TypeOK
  <2> QED BY <2>1 DEF Starting
<1>9. CASE LoseKeyRow
  BY <1>9 DEF LoseKeyRow, Starting
<1>10. CASE UNCHANGED vars
  BY <1>10 DEF vars
<1> QED
  BY <1>1, <1>4, <1>5, <1>6, <1>7, <1>8, <1>9, <1>10 DEF Next

\* Unless the operator has a key in a file that the generator drew, all
\* servers hold one key and it opens whatever was sealed, even when the row
\* that holds it gets lost: without the row there is no way to a second key.
THEOREM OneKeyOpensAllHolds ==
    ASSUME Generated \cap Files = {}
    PROVE  Spec => []OneKeyOpensAll
<1>1. IInv /\ KeysAgree => OneKeyOpensAll
  BY DEF IInv, KeyOK, KeysAgree, OneKeyOpensAll
<1>2. IInv /\ KeysAgree /\ [Next]_vars => KeysAgree'
  BY NextKeys
<1> QED BY <1>1, <1>2, InitKeys, Invariance, PTL DEF Spec

=============================================================================
