--------------------------- MODULE Client_proofs ---------------------------
(***************************************************************************)
(* Proofs about Client, for any number of processes beside those of the    *)
(* access store: the loops of the clients make only calls the store is     *)
(* proved correct for, a process starts with what it named, and its key    *)
(* never meets a row of its own past.                                      *)
(***************************************************************************)
EXTENDS Client, AccessStore_proofs

-----------------------------------------------------------------------------
(* The inductive invariant.                                                *)

Stages == Resting \cup Sleeping \cup Calling
Attempts == [app : Apps \cup {None}, token : Nat, key : Keys \cup {None},
             ask : SUBSET Paths]

ClientTypeOK ==
    /\ stage \in [Clients -> Stages]
    /\ attempt \in [Clients -> Attempts]
    /\ handle \in [Clients -> Requests \cup {None}]
    /\ call \in [Clients -> Handlers \cup {None}]
    /\ got \in [Clients -> SUBSET Paths]

\* From its launch on an attempt has a key and a token the store issued; one
\* that ended with an error has no key.
AttemptOK(c) ==
    IF stage[c] \in {"off", "denied", "failed"}
      THEN attempt[c].key = None
      ELSE /\ attempt[c].app \in Apps
           /\ attempt[c].key \in Keys
           /\ attempt[c].token \in 1 .. token[attempt[c].app]
           /\ attempt[c].ask \in Asks

\* The handler p is at work on what c has posted or polls.
WorksFor(p, c) ==
    /\ pc[p] # "idle"
    /\ job[p].key = attempt[c].key
    /\ stage[c] = "posting" =>
          /\ job[p].kind = "access"
          /\ job[p].app = attempt[c].app /\ job[p].ask = attempt[c].ask
    /\ stage[c] = "polling" => job[p].kind = "poll" /\ job[p].req = handle[c]

CallOK(c) ==
    /\ call[c] # None <=> stage[c] \in Calling
    /\ call[c] # None => WorksFor(call[c], c)

\* No two attempts have the same key, and no handler has the key of an
\* attempt but the one that works for it.
OwnKey(c) ==
    attempt[c].key # None =>
        /\ \A d \in Clients : attempt[d].key = attempt[c].key => d = c
        /\ \A p \in Handlers :
              pc[p] # "idle" /\ job[p].key = attempt[c].key => call[c] = p

\* The polled handle is one whose row the attempt's own post has made.
HandleKnown(c) ==
    stage[c] \in {"wait", "polling"} =>
        /\ handle[c] \in Requests
        /\ instance[handle[c]][attempt[c].key] # {}

\* What an attempt is due, as long as that is settled.
DueTo(c) == AskedFor(attempt[c])

\* Whatever is stored under the key of an attempt ...
RowsAsDue(c) ==
    attempt[c].key # None /\ Settled(c) =>
        \A r \in Requests : instance[r][attempt[c].key] \in {{}, DueTo(c)}

\* ... and what a handler is about to deliver to it, is what it is due.
ResolvedAsDue(c) ==
    /\ call[c] # None
    /\ pc[call[c]] \in {"check", "finish"} \/ reply[call[c]] = "approved"
    /\ Settled(c)
    => paths[call[c]] = DueTo(c)

\* The request an attempt is waiting for, as far as it will be polled: the one
\* it polls, until the answer is that it was revoked, or the one it is about to
\* be told.
Awaited(c) ==
    {r \in Requests :
       \/ stage[c] = "wait" /\ r = handle[c]
       \/ stage[c] = "polling" /\ r = handle[c] /\ reply[call[c]] # "revoked"
       \/ stage[c] = "posting" /\ r = job[call[c]].req
                               /\ reply[call[c]] = "waiting"}

\* Every other request that has a row under the attempt's key is decided, so
\* that a further post cannot join it.
Closed == {"approved", "denied", "revoked"}

PastClosed(c) ==
    stage[c] \in Sleeping \cup Calling =>
        \A r \in Requests \ Awaited(c) :
            instance[r][attempt[c].key] # {} => request[r].status \in Closed

NoConflict(c) == call[c] # None => reply[call[c]] # "conflict"

StartedAsDue(c) ==
    stage[c] = "started" /\ Settled(c) => got[c] = DueTo(c)

ClientOK(c) ==
    /\ AttemptOK(c)
    /\ CallOK(c)
    /\ OwnKey(c)
    /\ HandleKnown(c)
    /\ RowsAsDue(c)
    /\ ResolvedAsDue(c)
    /\ PastClosed(c)
    /\ NoConflict(c)
    /\ StartedAsDue(c)

\* A reply stands only in a handler that is done.
NoReplyYet == \A p \in Handlers : pc[p] # "done" => reply[p] = "none"

StoreOK == RInv /\ HandleOK /\ NoReplyYet
CInv == StoreOK /\ ClientTypeOK /\ \A c \in Clients : ClientOK(c)

-----------------------------------------------------------------------------
(* What a step of the store does to a handler and to the rows it stores.   *)

\* A handler at work stays where it is, ...
Rests(p) ==
    /\ pc'[p] = pc[p] /\ job'[p] = job[p]
    /\ paths'[p] = paths[p] /\ reply'[p] = reply[p]

\* ... reads on, ...
Reads(p) ==
    /\ pc[p] \in {"lock", "resolve", "check"} /\ pc'[p] \in InTransaction
    /\ UNCHANGED <<request, instance>>
    /\ job'[p] = job[p] /\ reply'[p] = reply[p]
    /\ \/ pc'[p] = "resolve"
       \/ pc'[p] = "check" /\ paths'[p] = Wanted(p) /\ Wanted(p) # {}
       \/ pc[p] = "check" /\ paths'[p] = paths[p]

\* ... answers without leaving a row behind, ...
Refuses(p) ==
    /\ reply'[p] = "conflict"
    /\ pc[p] = "finish" /\ job[p].kind = "access"
    /\ \E r \in Requests :
          /\ request[r].status \in {"absent", "pending"}
          /\ instance[r][job[p].key] \notin {{}, paths[p]}

Reports(p) ==
    /\ reply'[p] \in {"waiting", "denied", "revoked"}
    /\ pc[p] = "finish" /\ job[p].kind = "poll"
    /\ reply'[p] = "revoked" => request[job[p].req].status \in Closed

Answers(p) ==
    /\ pc[p] \in {"lock", "resolve", "check", "finish"} /\ pc'[p] = "done"
    /\ UNCHANGED <<request, instance>>
    /\ job'[p] = job[p] /\ paths'[p] = paths[p]
    /\ \/ reply'[p] \in Errors \ {"conflict"}
       \/ reply'[p] = "approved" /\ pc[p] = "finish"
       \/ Refuses(p)
       \/ Reports(p)

\* ... or answers with the request it has raised or joined.
Joins(p, r) ==
    /\ pc[p] = "finish" /\ job[p].kind = "access"
    /\ pc'[p] = "done" /\ reply'[p] = "waiting"
    /\ paths'[p] = paths[p]
    /\ job'[p] = [job[p] EXCEPT !.req = r]
    /\ \A s \in Requests, k \in Keys :
          instance'[s][k] =
             IF s = r /\ k = job[p].key /\ instance[s][k] = {}
               THEN paths[p] ELSE instance[s][k]

LEMMA FailAnswers ==
    ASSUME Shape, NEW p \in Handlers,
           pc[p] \in {"lock", "resolve", "check", "finish"},
           NEW why \in Errors \ {"conflict"}, Fail(p, why)
    PROVE  Answers(p)
BY DEF Fail, Answer, Answers, Shape, TypeOK, requestVars

LEMMA DeliverAnswers ==
    ASSUME Shape, NEW p \in Handlers, pc[p] = "finish", Deliver(p)
    PROVE  Answers(p)
BY DEF Deliver, Answer, Answers, Shape, TypeOK, requestVars

LEMMA EnqueueAnswers ==
    ASSUME Shape, NEW p \in Handlers, pc[p] = "finish",
           job[p].kind = "access", NEW r \in Requests, Enqueue(p, r)
    PROVE  Answers(p) \/ Joins(p, r)
<1>1. CASE Fail(p, "conflict") /\ ~Agrees(r, job[p].key, paths[p])
  <2>1. request[r].status \in {"absent", "pending"}
    BY DEF Enqueue, Unused, Pending, Requested
  <2>2. /\ pc'[p] = "done" /\ reply'[p] = "conflict"
        /\ UNCHANGED <<request, instance, job, paths>>
    BY <1>1 DEF Fail, Answer, Shape, TypeOK, requestVars
  <2>3. Refuses(p)
    BY <1>1, <2>1, <2>2 DEF Refuses, Agrees
  <2> QED BY <2>2, <2>3 DEF Answers
<1>2. CASE ~(Fail(p, "conflict") /\ ~Agrees(r, job[p].key, paths[p]))
  <2>1. /\ job' = [job EXCEPT ![p] = [job[p] EXCEPT !.req = r]]
        /\ instance' = [instance EXCEPT ![r] =
              [instance[r] EXCEPT ![job[p].key] =
                 IF instance[r][job[p].key] = {}
                   THEN paths[p] ELSE instance[r][job[p].key]]]
        /\ pc' = [pc EXCEPT ![p] = "done"]
        /\ reply' = [reply EXCEPT ![p] = "waiting"]
        /\ paths' = paths
    BY <1>2 DEF Enqueue, Answer
  <2>2. \A s \in Requests, k \in Keys :
           instance'[s][k] =
              IF s = r /\ k = job[p].key /\ instance[s][k] = {}
                THEN paths[p] ELSE instance[s][k]
    BY <2>1 DEF Shape, TypeOK
  <2> QED BY <2>1, <2>2 DEF Joins, Shape, TypeOK
<1> QED BY <1>1, <1>2

LEMMA PollAnswers ==
    ASSUME Shape, NEW p \in Handlers, FinishPoll(p)
    PROVE  Answers(p)
<1>1. pc[p] = "finish" /\ job[p].kind = "poll"
  BY DEF FinishPoll
<1>2. CASE Deliver(p)
  BY <1>1, <1>2, DeliverAnswers
<1>3. CASE ~Deliver(p)
  <2> DEFINE status == request[job[p].req].status
  <2>1. PICK r \in {"waiting", "denied", "revoked"} :
          Answer(p, r) /\ (r = "revoked" => status \in Closed)
    BY <1>3 DEF FinishPoll, Reported, Closed
  <2>2. UNCHANGED <<request, instance, job, paths>>
    BY <1>3 DEF FinishPoll, requestVars
  <2>3. pc'[p] = "done" /\ reply'[p] = r
    BY <2>1 DEF Answer, Shape, TypeOK
  <2> QED BY <1>1, <2>1, <2>2, <2>3 DEF Answers, Reports
<1> QED BY <1>2, <1>3

\* The steps of a handler at work, but for the one that ends its call.
LEMMA WorkStep ==
    ASSUME Shape, NEW p \in Handlers, Transact(p) \/ Abort(p), ~Respond(p)
    PROVE  Reads(p) \/ Answers(p) \/ \E r \in Requests : Joins(p, r)
<1> USE DEF Shape, TypeOK
<1>1. CASE Authenticate(p)
  <2>1. CASE Fail(p, "unauthorized")
    BY <1>1, <2>1, FailAnswers DEF Authenticate, Errors
  <2>2. CASE ~Fail(p, "unauthorized")
    <3>1. /\ pc[p] = "lock" /\ pc' = [pc EXCEPT ![p] = "resolve"]
          /\ UNCHANGED <<request, instance, job, paths, reply>>
      BY <1>1, <2>2 DEF Authenticate, requestVars
    <3> QED BY <3>1 DEF Reads, InTransaction
  <2> QED BY <2>1, <2>2
<1>2. CASE ResolvePaths(p)
  <2>1. CASE Fail(p, "not_found") \/ Fail(p, "forbidden")
    BY <1>2, <2>1, FailAnswers DEF ResolvePaths, Errors
  <2>2. CASE ~(Fail(p, "not_found") \/ Fail(p, "forbidden"))
    <3>1. /\ pc[p] = "resolve" /\ pc' = [pc EXCEPT ![p] = "check"]
          /\ paths' = [paths EXCEPT ![p] = Wanted(p)] /\ Wanted(p) # {}
          /\ UNCHANGED <<request, instance, job, reply>>
      BY <1>2, <2>2 DEF ResolvePaths, requestVars
    <3> QED BY <3>1 DEF Reads, InTransaction
  <2> QED BY <2>1, <2>2
<1>3. ASSUME NEW q \in Paths, CheckPath(p, q)
      PROVE  Reads(p) \/ Answers(p)
  <2>1. CASE Fail(p, "not_found")
    BY <1>3, <2>1, FailAnswers DEF CheckPath, Errors
  <2>2. CASE ~Fail(p, "not_found")
    <3>1. /\ pc[p] = "check"
          /\ \E w \in {"check", "finish"} : pc' = [pc EXCEPT ![p] = w]
          /\ UNCHANGED <<request, instance, job, paths, reply>>
      BY <1>3, <2>2 DEF CheckPath, requestVars
    <3> QED BY <3>1 DEF Reads, InTransaction
  <2> QED BY <2>1, <2>2
<1>4. CASE FinishAccess(p)
  BY <1>4, DeliverAnswers, EnqueueAnswers DEF FinishAccess
<1>5. CASE FinishPoll(p)
  BY <1>5, PollAnswers
<1>6. CASE Abort(p)
  BY <1>6, FailAnswers DEF Abort, Errors
<1> QED BY <1>1, <1>2, <1>3, <1>4, <1>5, <1>6 DEF Transact

\* A handler that is at work before and after a step of the store.
LEMMA HandlerStep ==
    ASSUME Shape, [Next]_vars, NEW p \in Handlers,
           pc[p] # "idle", pc'[p] # "idle"
    PROVE  \/ Rests(p) \/ Reads(p) \/ Answers(p)
           \/ \E r \in Requests : Joins(p, r)
<1>1. ~Call(p) /\ ~Respond(p)
  BY DEF Call, BeginAccess, BeginPoll, Begin, Respond, Shape, TypeOK
<1>2. CASE Transact(p) \/ Abort(p)
  BY <1>1, <1>2, WorkStep
<1>3. CASE ~(Transact(p) \/ Abort(p))
  BY <1>1, <1>3, OwnPlace DEF Rests
<1> QED BY <1>2, <1>3

\* Only the handler that answers with a handle writes a row of
\* request_instances, the one the handle stands for.
LEMMA RowsStep ==
    ASSUME Shape, [Next]_vars
    PROVE  \/ UNCHANGED instance
           \/ \E p \in Handlers, r \in Requests : Joins(p, r)
<1>1. ASSUME NEW p \in Handlers, Call(p) \/ Transact(p) \/ Abort(p)
      PROVE  UNCHANGED instance \/ \E r \in Requests : Joins(p, r)
  <2>1. CASE Call(p) \/ Respond(p)
    BY <2>1 DEF Call, BeginAccess, BeginPoll, Begin, Respond, requestVars
  <2>2. CASE ~(Call(p) \/ Respond(p))
    BY <1>1, <2>2, WorkStep DEF Reads, Answers
  <2> QED BY <2>1, <2>2
<1>2. ASSUME NEW a \in Apps, Administer(a) PROVE UNCHANGED instance
  BY <1>2 DEF Administer, CreateApplication, EditPaths, RotateToken, Disable,
              RevokeAccess, Enable, Change, requestVars
<1> QED
  BY <1>1, <1>2
     DEF Next, ApproveRequest, DenyRequest, Settle, Publish, Archive, Tick,
         SetExpiry, vars, requestVars

\* Tokens are only ever issued.
LEMMA TokenGrows ==
    ASSUME Shape, [Next]_vars, NEW a \in Apps
    PROVE  token'[a] \in Nat /\ token[a] \in Nat /\ token[a] <= token'[a]
<1> USE DEF Shape, TypeOK
<1>1. CASE UNCHANGED token
  BY <1>1
<1>2. ASSUME NEW p \in Handlers, Call(p) \/ Transact(p) \/ Abort(p)
      PROVE  UNCHANGED token
  BY <1>2, HandlerEffect
<1>3. ASSUME NEW b \in Apps, Administer(b)
      PROVE  token'[a] \in Nat /\ token[a] <= token'[a]
  <2>1. \/ UNCHANGED token
        \/ token[b] = 0 /\ token' = [token EXCEPT ![b] = 1]
        \/ token' = [token EXCEPT ![b] = token[b] + 1]
    BY <1>3 DEF Administer, CreateApplication, EditPaths, RotateToken, Disable,
                RevokeAccess, Enable, Exists
  <2> QED BY <2>1
<1> QED
  BY <1>1, <1>2, <1>3
     DEF Next, ApproveRequest, DenyRequest, Settle, Publish, Archive, Tick,
         SetExpiry, vars, appVars

LEMMA NextNoReply == Shape /\ NoReplyYet /\ [Next]_vars => NoReplyYet'
<1> SUFFICES ASSUME Shape, NoReplyYet, [Next]_vars, NEW p \in Handlers,
                    pc'[p] # "done"
             PROVE  reply'[p] = "none"
  BY DEF NoReplyYet
<1>1. CASE pc[p] = "idle" /\ (Call(p) \/ Transact(p) \/ Abort(p))
  BY <1>1 DEF Call, BeginAccess, BeginPoll, Begin, Transact, Authenticate,
              ResolvePaths, CheckPath, FinishAccess, FinishPoll, Respond, Abort,
              NoReplyYet, Shape, TypeOK
<1>2. CASE pc[p] = "idle" /\ ~(Call(p) \/ Transact(p) \/ Abort(p))
  BY <1>2, OwnPlace DEF NoReplyYet
<1>3. CASE pc[p] # "idle" /\ pc'[p] # "idle"
  BY <1>3, HandlerStep
     DEF Rests, Reads, Answers, Joins, NoReplyYet, InTransaction
<1>4. CASE pc[p] # "idle" /\ pc'[p] = "idle"
  <2>1. Call(p) \/ Transact(p) \/ Abort(p)
    BY <1>4, OwnPlace
  <2>2. ~Call(p)
    BY <1>4 DEF Call, BeginAccess, BeginPoll, Begin
  <2>3. CASE Respond(p)
    BY <2>3 DEF Respond, Shape, TypeOK
  <2>4. CASE ~Respond(p)
    BY <1>4, <2>1, <2>2, <2>4, WorkStep DEF Reads, Answers, Joins, InTransaction
  <2> QED BY <2>3, <2>4
<1> QED BY <1>1, <1>2, <1>3, <1>4

LEMMA InitStore == Init => StoreOK
<1>1. Init => HandleOK /\ NoReplyYet
  BY DEF Init, HandleOK, NoReplyYet
<1> QED BY <1>1, InitRInv DEF StoreOK

LEMMA NextStore == StoreOK /\ [Next]_vars => StoreOK'
BY NextRInv, NextHandle, NextNoReply DEF StoreOK, RInv, IInv

-----------------------------------------------------------------------------
(* The calls of the clients are calls of the store.                        *)

LEMMA PostCalls ==
    ASSUME CInv, NEW c \in Clients, NEW p \in Handlers, Post(c, p) \/ Poll(c, p)
    PROVE  Call(p)
<1>1. CASE Post(c, p)
  <2>1. /\ attempt[c].app \in Apps /\ attempt[c].key \in Keys
        /\ attempt[c].token \in 1 .. token[attempt[c].app]
        /\ attempt[c].ask \in Asks
    BY <1>1 DEF Post, CInv, ClientOK, AttemptOK
  <2>2. attempt[c].token \in 0 .. token[attempt[c].app]
    BY <2>1 DEF CInv, StoreOK, RInv, IInv, Shape, TypeOK
  <2>3. BeginAccess(p, attempt[c].app, attempt[c].token, attempt[c].key,
                    attempt[c].ask)
    BY <1>1 DEF Post
  <2> QED BY <2>1, <2>2, <2>3 DEF Call
<1>2. CASE Poll(c, p)
  <2>1. /\ attempt[c].app \in Apps /\ attempt[c].key \in Keys
        /\ attempt[c].token \in 1 .. token[attempt[c].app]
        /\ handle[c] \in Requests
    BY <1>2 DEF Poll, CInv, ClientOK, AttemptOK, HandleKnown
  <2>2. attempt[c].token \in 0 .. token[attempt[c].app]
    BY <2>1 DEF CInv, StoreOK, RInv, IInv, Shape, TypeOK
  <2>3. BeginPoll(p, attempt[c].app, attempt[c].token, handle[c],
                  attempt[c].key)
    BY <1>2 DEF Poll
  <2> QED BY <2>1, <2>2, <2>3 DEF Call
<1> QED BY <1>1, <1>2

\* Nothing a client, its server or anybody else does is foreign to the store.
LEMMA ClientStep == CInv /\ [ClientNext]_allVars => [Next]_vars
<1> SUFFICES ASSUME CInv, [ClientNext]_allVars PROVE [Next]_vars
  OBVIOUS
<1>1. ASSUME NEW c \in Clients, Run(c) PROVE Next
  <2>1. PICK p \in Handlers : Post(c, p) \/ Poll(c, p) \/ Receive(c, p)
    BY <1>1 DEF Run
  <2>2. CASE Post(c, p) \/ Poll(c, p)
    BY <2>2, PostCalls DEF Next
  <2>3. CASE Receive(c, p)
    BY <2>3 DEF Receive, Next, Transact
  <2> QED BY <2>1, <2>2, <2>3
<1>2. ASSUME NEW c \in Clients,
             \/ GiveUp(c)
             \/ \E a \in Apps, ask \in Asks : Launch(c, a, ask)
      PROVE  UNCHANGED vars
  BY <1>2 DEF GiveUp, Launch
<1>3. ASSUME NEW p \in Handlers, Serve(p) PROVE Next
  BY <1>3 DEF Serve, Statement, Next, Transact
<1>4. CASE Others
  BY <1>4 DEF Others, Next
<1>5. CASE UNCHANGED allVars
  BY <1>5 DEF allVars, systemVars
<1> QED BY <1>1, <1>2, <1>3, <1>4, <1>5 DEF ClientNext

-----------------------------------------------------------------------------
(* A process that does not move itself.  The store steps, with or without  *)
(* another process; the handler that works for it, if there is one, may    *)
(* move, but does not end its call.                                        *)

StaysPut(c) ==
    /\ stage'[c] = stage[c] /\ attempt'[c] = attempt[c]
    /\ handle'[c] = handle[c] /\ call'[c] = call[c] /\ got'[c] = got[c]

\* Its key stays its own.
KeyUnshared(c) ==
    attempt[c].key # None =>
        /\ \A d \in Clients \ {c} : attempt'[d].key # attempt[c].key
        /\ \A p \in Handlers :
              pc[p] = "idle" /\ pc'[p] # "idle"
                => job'[p].key # attempt[c].key

\* What it is due is settled after the step only if it was before, and the
\* same.
DueStays(c) ==
    attempt[c].key # None /\ Settled(c)' => Settled(c) /\ DueTo(c)' = DueTo(c)

Bystander(c) ==
    /\ StaysPut(c)
    /\ KeyUnshared(c)
    /\ DueStays(c)
    /\ call[c] # None => pc'[call[c]] # "idle"

\* The handler that works for the process.
LEMMA WorkerStep ==
    ASSUME CInv, [Next]_vars, NEW c \in Clients, Bystander(c),
           NEW p \in Handlers, p = call[c]
    PROVE  /\ \/ Rests(p) \/ Reads(p) \/ Answers(p)
              \/ \E r \in Requests : Joins(p, r)
           /\ pc[p] # "idle" /\ pc'[p] # "idle"
           /\ job[p] \in Jobs /\ job[p].key = attempt[c].key
           /\ stage[c] \in Calling
<1>1. pc[p] # "idle" /\ pc'[p] # "idle" /\ stage[c] \in Calling
  BY NoneAssumption DEF CInv, ClientOK, CallOK, WorksFor, Bystander
<1>2. job[p] \in Jobs /\ job[p].key = attempt[c].key
  BY NoneAssumption
     DEF CInv, ClientOK, CallOK, WorksFor, StoreOK, RInv, IInv, Shape, TypeOK
<1> QED BY <1>1, <1>2, HandlerStep DEF CInv, StoreOK, RInv, IInv

LEMMA CallStays ==
    ASSUME CInv, [Next]_vars, NEW c \in Clients, Bystander(c)
    PROVE  CallOK(c)'
<1>1. CASE call[c] = None
  BY <1>1 DEF CInv, ClientOK, CallOK, Bystander, StaysPut
<1>2. CASE call[c] # None
  <2>1. PICK p \in Handlers : p = call[c]
    BY <1>2 DEF CInv, ClientTypeOK
  <2>2. /\ job'[p].key = job[p].key /\ job'[p].kind = job[p].kind
        /\ job'[p].app = job[p].app /\ job'[p].ask = job[p].ask
        /\ job[p].kind = "poll" => job'[p].req = job[p].req
    <3>1. ASSUME NEW r \in Requests, Joins(p, r) PROVE <2>2!:
      BY <2>1, <3>1, WorkerStep, JobType DEF Joins
    <3>2. CASE Rests(p) \/ Reads(p) \/ Answers(p)
      BY <3>2 DEF Rests, Reads, Answers
    <3> QED BY <2>1, <3>1, <3>2, WorkerStep
  <2>3. WorksFor(p, c)
    BY <1>2, <2>1 DEF CInv, ClientOK, CallOK
  <2>4. WorksFor(p, c)'
    BY <2>1, <2>2, <2>3, WorkerStep DEF WorksFor, Bystander, StaysPut
  <2> QED BY <1>2, <2>1, <2>4, WorkerStep DEF CallOK, Bystander, StaysPut
<1> QED BY <1>1, <1>2

LEMMA KeyStays ==
    ASSUME CInv, [Next]_vars, NEW c \in Clients, Bystander(c)
    PROVE  OwnKey(c)'
<1> SUFFICES ASSUME attempt[c].key # None
             PROVE  /\ \A d \in Clients :
                          attempt'[d].key = attempt[c].key => d = c
                    /\ \A p \in Handlers :
                          pc'[p] # "idle" /\ job'[p].key = attempt[c].key
                             => call[c] = p
  BY DEF OwnKey, Bystander, StaysPut
<1>1. ASSUME NEW d \in Clients, attempt'[d].key = attempt[c].key PROVE d = c
  BY <1>1 DEF Bystander, KeyUnshared
<1>2. ASSUME NEW p \in Handlers, pc'[p] # "idle",
             job'[p].key = attempt[c].key
      PROVE  call[c] = p
  <2>1. pc[p] # "idle"
    BY <1>2 DEF Bystander, KeyUnshared
  <2>2. Shape /\ job[p] \in Jobs
    BY DEF CInv, StoreOK, RInv, IInv, Shape, TypeOK
  <2>3. job'[p].key = job[p].key
    <3>1. ASSUME NEW r \in Requests, Joins(p, r) PROVE job'[p].key = job[p].key
      BY <2>2, <3>1, JobType DEF Joins
    <3> QED BY <1>2, <2>1, <2>2, <3>1, HandlerStep DEF Rests, Reads, Answers
  <2> QED BY <1>2, <2>1, <2>3 DEF CInv, ClientOK, OwnKey
<1> QED BY <1>1, <1>2

\* A row that appears under its key is the one its own handler answers with.
LEMMA OwnRow ==
    ASSUME CInv, [Next]_vars, NEW c \in Clients, Bystander(c),
           stage[c] \in Sleeping \cup Calling \cup {"started"},
           NEW r \in Requests
    PROVE  /\ attempt[c].key \in Keys
           /\ \/ instance'[r][attempt[c].key] = instance[r][attempt[c].key]
              \/ /\ call[c] \in Handlers /\ Joins(call[c], r)
                 /\ stage[c] = "posting"
                 /\ instance'[r][attempt[c].key] = paths[call[c]]
<1>0. Shape
  BY DEF CInv, StoreOK, RInv, IInv
<1>1. attempt[c].key \in Keys /\ attempt[c].key # None
  BY NoneAssumption
     DEF CInv, ClientOK, AttemptOK, Sleeping, Calling
<1>2. CASE UNCHANGED instance
  BY <1>1, <1>2
<1>3. ASSUME NEW p \in Handlers, NEW s \in Requests, Joins(p, s),
             instance'[r][attempt[c].key] # instance[r][attempt[c].key]
      PROVE  /\ call[c] \in Handlers /\ Joins(call[c], r)
             /\ stage[c] = "posting"
             /\ instance'[r][attempt[c].key] = paths[call[c]]
  <2>1. s = r /\ job[p].key = attempt[c].key /\ pc[p] # "idle"
        /\ instance'[r][attempt[c].key] = paths[p]
    BY <1>1, <1>3 DEF Joins
  <2>2. call[c] = p
    BY <1>1, <2>1 DEF CInv, ClientOK, OwnKey
  <2>3. stage[c] = "posting"
    BY <1>3, <2>2, NoneAssumption
       DEF CInv, ClientOK, CallOK, WorksFor, Calling, Joins
  <2> QED BY <1>3, <2>1, <2>2, <2>3
<1>4. CASE \E p \in Handlers, s \in Requests : Joins(p, s)
  <2>1. PICK p \in Handlers, s \in Requests : Joins(p, s)
    BY <1>4
  <2> QED BY <1>1, <1>3, <2>1
<1> QED BY <1>0, <1>2, <1>4, RowsStep

\* What its handler has resolved is what it is due.
LEMMA ResolvedStays ==
    ASSUME CInv, [Next]_vars, NEW c \in Clients, Bystander(c)
    PROVE  ResolvedAsDue(c)'
<1> SUFFICES ASSUME NEW p \in Handlers, p = call[c],
                    pc'[p] \in {"check", "finish"} \/ reply'[p] = "approved",
                    Settled(c)'
             PROVE  paths'[p] = DueTo(c)'
  BY DEF ResolvedAsDue, Bystander, StaysPut, CInv, ClientTypeOK
<1>0. call[c] # None /\ stage[c] \in Calling /\ attempt[c].key # None
  BY NoneAssumption
     DEF CInv, ClientOK, CallOK, AttemptOK, Calling
<1>due. Settled(c) /\ DueTo(c)' = DueTo(c)
  BY <1>0 DEF Bystander, DueStays
<1>1. ASSUME pc[p] \in {"check", "finish"} \/ reply[p] = "approved"
      PROVE  paths[p] = DueTo(c)
  BY <1>0, <1>1, <1>due DEF CInv, ClientOK, ResolvedAsDue
<1>2. CASE Rests(p)
  BY <1>1, <1>2, <1>due DEF Rests
<1>3. CASE Answers(p)
  <2>1. reply'[p] = "approved" /\ pc[p] = "finish"
    BY <1>3 DEF Answers, Errors, Refuses, Reports
  <2> QED BY <1>1, <1>3, <1>due, <2>1 DEF Answers
<1>4. CASE Reads(p)
  <2>1. CASE pc[p] = "check" /\ paths'[p] = paths[p]
    BY <1>1, <1>due, <2>1
  <2>2. CASE pc'[p] = "resolve"
    <3>1. reply[p] = "none"
      BY <1>4 DEF Reads, CInv, StoreOK, NoReplyYet
    <3> QED BY <1>4, <2>2, <3>1 DEF Reads
  <2>3. CASE paths'[p] = Wanted(p) /\ Wanted(p) # {}
    <3>1. WorksFor(p, c) /\ stage[c] \in {"posting", "polling"}
      BY <1>0 DEF CInv, ClientOK, CallOK, Calling
    <3>2. CASE stage[c] = "posting"
      <4>1. AskedFor(job[p]) = DueTo(c) /\ job[p].kind = "access"
        BY <3>1, <3>2 DEF WorksFor, AskedFor, DueTo
      <4> QED BY <1>due, <2>3, <4>1 DEF Wanted
    <3>3. CASE stage[c] = "polling"
      <4>1. /\ job[p].kind = "poll" /\ job[p].req \in Requests
            /\ attempt[c].key # None
        BY <3>1, <3>3, NoneAssumption
           DEF WorksFor, CInv, StoreOK, RInv, IInv, Shape, JobOK, ClientOK,
               AttemptOK
      <4>2. Wanted(p) = instance[job[p].req][attempt[c].key]
        BY <2>3, <3>1, <4>1 DEF WorksFor, Wanted, StoredFor
      <4>3. instance[job[p].req][attempt[c].key] \in {{}, DueTo(c)}
        BY <1>due, <4>1 DEF CInv, ClientOK, RowsAsDue
      <4> QED BY <1>due, <2>3, <4>2, <4>3
    <3> QED BY <3>1, <3>2, <3>3
  <2> QED BY <1>4, <2>1, <2>2, <2>3 DEF Reads
<1>5. ASSUME NEW r \in Requests, Joins(p, r) PROVE paths'[p] = DueTo(c)
  BY <1>1, <1>5 DEF Joins
<1> QED BY <1>2, <1>3, <1>4, <1>5, <1>due, WorkerStep

LEMMA RowsStay ==
    ASSUME CInv, [Next]_vars, NEW c \in Clients, Bystander(c)
    PROVE  RowsAsDue(c)' /\ HandleKnown(c)'
<1>0. Shape
  BY DEF CInv, StoreOK, RInv, IInv
<1>1. RowsAsDue(c)'
  <2> SUFFICES ASSUME attempt[c].key # None, Settled(c)',
                      NEW r \in Requests
               PROVE  instance'[r][attempt[c].key] \in {{}, DueTo(c)'}
    BY DEF RowsAsDue, Bystander, StaysPut
  <2>due. Settled(c) /\ DueTo(c)' = DueTo(c)
    BY DEF Bystander, DueStays
  <2>1. stage[c] \in Sleeping \cup Calling \cup {"started"}
    BY DEF CInv, ClientTypeOK, Stages, Resting, ClientOK, AttemptOK
  <2>2. instance[r][attempt[c].key] \in {{}, DueTo(c)}
    BY <2>due DEF CInv, ClientOK, RowsAsDue
  <2>3. ASSUME call[c] \in Handlers, Joins(call[c], r)
        PROVE  paths[call[c]] = DueTo(c)
    BY <2>due, <2>3, NoneAssumption DEF Joins, CInv, ClientOK, ResolvedAsDue
  <2> QED BY <2>1, <2>2, <2>3, <2>due, OwnRow
<1>2. HandleKnown(c)'
  <2> SUFFICES ASSUME stage[c] \in {"wait", "polling"}
               PROVE  /\ handle[c] \in Requests
                      /\ instance'[handle[c]][attempt[c].key] # {}
    BY DEF HandleKnown, Bystander, StaysPut
  <2>1. /\ handle[c] \in Requests /\ attempt[c].key \in Keys
        /\ instance[handle[c]][attempt[c].key] # {}
    BY DEF CInv, ClientOK, HandleKnown, AttemptOK
  <2> QED BY <1>0, <2>1, StoredForGood
<1> QED BY <1>1, <1>2

LEMMA NoConflictStays ==
    ASSUME CInv, [Next]_vars, NEW c \in Clients, Bystander(c)
    PROVE  NoConflict(c)'
<1> SUFFICES ASSUME NEW p \in Handlers, p = call[c], reply'[p] = "conflict"
             PROVE  FALSE
  BY DEF NoConflict, Bystander, StaysPut, CInv, ClientTypeOK
<1>0. call[c] # None
  BY NoneAssumption
<1>1. reply[p] # "conflict"
  BY <1>0 DEF CInv, ClientOK, NoConflict
<1>2. Refuses(p)
  BY <1>1, WorkerStep DEF Rests, Reads, Answers, Joins, Reports, Errors
<1>3. PICK r \in Requests :
        /\ request[r].status \in {"absent", "pending"}
        /\ instance[r][job[p].key] \notin {{}, paths[p]}
  BY <1>2 DEF Refuses
<1>4. /\ reply[p] = "none" /\ pc[p] = "finish"
      /\ job[p].key = attempt[c].key
      /\ stage[c] = "posting"
  BY <1>0, <1>2, WorkerStep
     DEF Refuses, CInv, StoreOK, NoReplyYet, ClientOK, CallOK, WorksFor, Calling
<1>5. r \notin Awaited(c)
  BY <1>4 DEF Awaited
<1>6. request[r].status \in Closed
  BY <1>3, <1>4, <1>5 DEF CInv, ClientOK, PastClosed, Calling
<1> QED BY <1>3, <1>6 DEF Closed

LEMMA PastStays ==
    ASSUME CInv, [Next]_vars, NEW c \in Clients, Bystander(c)
    PROVE  PastClosed(c)'
<1> SUFFICES ASSUME stage[c] \in Sleeping \cup Calling, NEW r \in Requests,
                    r \notin Awaited(c)', instance'[r][attempt[c].key] # {}
             PROVE  request'[r].status \in Closed
  BY DEF PastClosed, Bystander, StaysPut
<1>0. Shape
  BY DEF CInv, StoreOK, RInv, IInv
<1>1. ASSUME request[r].status \in Closed PROVE request'[r].status \in Closed
  <2>1. FinalAt(r)
    BY <1>0, DecisionStep
  <2> QED BY <1>1, <2>1 DEF FinalAt, Closed
<1>2. ASSUME r \notin Awaited(c), instance[r][attempt[c].key] # {}
      PROVE  request'[r].status \in Closed
  BY <1>1, <1>2 DEF CInv, ClientOK, PastClosed
<1>3. CASE instance'[r][attempt[c].key] # instance[r][attempt[c].key]
  <2>1. call[c] \in Handlers /\ Joins(call[c], r) /\ stage[c] = "posting"
    BY <1>3, OwnRow
  <2>2. PICK p \in Handlers : p = call[c]
    BY <2>1
  <2>3. job[p] \in Jobs
    BY <1>0 DEF Shape, TypeOK
  <2>4. job'[p].req = r /\ reply'[p] = "waiting"
    <3>1. Joins(p, r)
      BY <2>1, <2>2
    <3> QED BY <2>3, <3>1, JobType DEF Joins
  <2>5. r \in Awaited(c)'
    BY <2>1, <2>2, <2>4 DEF Awaited, Bystander, StaysPut
  <2> QED BY <2>5
<1>4. CASE /\ instance'[r][attempt[c].key] = instance[r][attempt[c].key]
           /\ r \in Awaited(c)
  <2>1. stage[c] # "wait"
    BY <1>4 DEF Awaited, Bystander, StaysPut
  <2>2. call[c] # None /\ stage[c] \in {"posting", "polling"}
    BY <2>1, <1>4 DEF Awaited, CInv, ClientOK, CallOK, Calling
  <2>3. PICK p \in Handlers : p = call[c]
    BY <2>2 DEF CInv, ClientTypeOK
  <2>4. ~Rests(p)
    BY <1>4, <2>2, <2>3 DEF Awaited, Bystander, StaysPut, Rests
  <2>5. CASE stage[c] = "posting"
    <3>1. reply[p] = "waiting" /\ pc[p] = "done"
      BY <1>4, <2>3, <2>5 DEF Awaited, CInv, StoreOK, RInv, ReplyOK
    <3>2. \A s \in Requests : ~Joins(p, s)
      BY <3>1 DEF Joins
    <3>3. Answers(p)
      BY <2>3, <2>4, <3>1, <3>2, WorkerStep DEF Reads
    <3> QED BY <3>1, <3>3 DEF Answers
  <2>6. CASE stage[c] = "polling"
    <3>1. r = handle[c] /\ reply[p] # "revoked" /\ reply'[p] = "revoked"
      BY <1>4, <2>3, <2>6 DEF Awaited, Bystander, StaysPut
    <3>2. Reports(p)
      BY <2>3, <3>1, WorkerStep DEF Rests, Reads, Answers, Joins, Refuses, Errors
    <3>3. job[p].req = handle[c]
      BY <2>2, <2>3, <2>6 DEF CInv, ClientOK, CallOK, WorksFor
    <3> QED BY <1>1, <3>1, <3>2, <3>3 DEF Reports
  <2> QED BY <2>2, <2>5, <2>6
<1> QED BY <1>2, <1>3, <1>4

LEMMA BystanderOK ==
    ASSUME CInv, [Next]_vars, NEW c \in Clients, Bystander(c)
    PROVE  ClientOK(c)'
<1>1. AttemptOK(c)'
  <2>1. \A a \in Apps : token'[a] \in Nat /\ token[a] <= token'[a]
    BY TokenGrows DEF CInv, StoreOK, RInv, IInv
  <2>2. AttemptOK(c) /\ token \in [Apps -> Nat]
    BY DEF CInv, ClientOK, StoreOK, RInv, IInv, Shape, TypeOK
  <2> QED BY <2>1, <2>2 DEF AttemptOK, Bystander, StaysPut
<1>2. StartedAsDue(c)'
  <2> SUFFICES ASSUME stage[c] = "started", Settled(c)'
               PROVE  got[c] = DueTo(c)'
    BY DEF StartedAsDue, Bystander, StaysPut
  <2>1. attempt[c].key # None
    BY NoneAssumption DEF CInv, ClientOK, AttemptOK
  <2>2. Settled(c) /\ DueTo(c)' = DueTo(c)
    BY <2>1 DEF Bystander, DueStays
  <2> QED BY <2>2 DEF CInv, ClientOK, StartedAsDue
<1> QED
  BY <1>1, <1>2, CallStays, KeyStays, ResolvedStays, RowsStay, NoConflictStays,
     PastStays DEF ClientOK

-----------------------------------------------------------------------------
(* The others, when something else than the process itself moves.          *)

LEMMA OnlyMoves ==
    ASSUME NEW p \in Handlers, Transact(p) \/ Abort(p)
    PROVE  \E w : pc' = [pc EXCEPT ![p] = w]
<1>1. ASSUME NEW why, Fail(p, why) PROVE \E w : pc' = [pc EXCEPT ![p] = w]
  BY <1>1 DEF Fail, Answer
<1>2. ASSUME NEW q \in Paths, CheckPath(p, q)
      PROVE  \E w : pc' = [pc EXCEPT ![p] = w]
  BY <1>1, <1>2 DEF CheckPath
<1>3. CASE FinishAccess(p) \/ FinishPoll(p)
  BY <1>1, <1>3 DEF FinishAccess, FinishPoll, Enqueue, Deliver, Answer
<1>4. CASE Authenticate(p) \/ ResolvePaths(p) \/ Respond(p) \/ Abort(p)
  BY <1>1, <1>4 DEF Authenticate, ResolvePaths, Respond, Abort
<1> QED BY <1>2, <1>3, <1>4 DEF Transact

\* The history looks at every step.
LEMMA WatchedStep ==
    ASSUME [ClientNext]_allVars, NEW c \in Clients,
           attempt'[c] = attempt[c]
    PROVE  DueStays(c)
<1>1. CASE Watch
  <2>1. steady'[c] =
          /\ attempt[c].key # None /\ attempt[c].ask = {}
          /\ steady[c]
          /\ live' \cap boundary'[attempt[c].app]
                = live \cap boundary[attempt[c].app]
    BY <1>1 DEF Watch
  <2> QED BY <2>1 DEF DueStays, Settled, DueTo, AskedFor
<1>2. CASE UNCHANGED allVars
  BY <1>2 DEF allVars, systemVars, vars, appVars, DueStays, Settled, DueTo,
              AskedFor
<1> QED BY <1>1, <1>2 DEF ClientNext

\* The server and everybody who is not a client.
LEMMA ServerStands ==
    ASSUME CInv, [ClientNext]_allVars, NEW c \in Clients,
           (\E p \in Handlers : Serve(p)) \/ Others \/ UNCHANGED allVars
    PROVE  Bystander(c)
<1>0. Shape
  BY DEF CInv, StoreOK, RInv, IInv
<1>1. StaysPut(c)
  BY DEF Serve, Others, allVars, systemVars, clientVars, StaysPut
<1>2. ASSUME \A q \in Handlers : pc[q] = "idle" => pc'[q] = "idle",
             call[c] # None => pc'[call[c]] # "idle"
      PROVE  Bystander(c)
  <2>1. attempt' = attempt
    BY DEF Serve, Others, allVars, systemVars, clientVars
  <2>2. KeyUnshared(c)
    BY <1>2, <2>1 DEF KeyUnshared, CInv, ClientOK, OwnKey
  <2>3. DueStays(c)
    BY <2>1, WatchedStep
  <2> QED BY <1>1, <1>2, <2>2, <2>3 DEF Bystander
<1>3. call[c] # None => call[c] \in Handlers /\ pc[call[c]] # "idle"
  BY DEF CInv, ClientTypeOK, ClientOK, CallOK, WorksFor
<1>4. CASE UNCHANGED pc
  BY <1>2, <1>3, <1>4
<1>5. ASSUME NEW p \in Handlers, Transact(p) \/ Abort(p), ~Respond(p)
      PROVE  Bystander(c)
  <2>1. /\ pc[p] # "idle" /\ pc'[p] # "idle"
    BY <1>0, <1>5, WorkStep DEF Reads, Answers, Joins, InTransaction
  <2>2. \A q \in Handlers \ {p} : pc'[q] = pc[q]
    BY <1>0, <1>5, OnlyMoves DEF Shape, TypeOK
  <2> QED BY <1>2, <1>3, <2>1, <2>2
<1>6. ASSUME NEW p \in Handlers, Unheard(p), Respond(p)
      PROVE  Bystander(c)
  <2>1. /\ pc[p] = "done" /\ pc'[p] = "idle"
        /\ \A q \in Handlers \ {p} : pc'[q] = pc[q]
    BY <1>0, <1>6 DEF Respond, Shape, TypeOK
  <2> QED BY <1>2, <1>3, <1>6, <2>1 DEF Unheard
<1>7. ASSUME NEW p \in Handlers, Serve(p) PROVE Bystander(c)
  <2>1. Transact(p)
    BY <1>7 DEF Serve, Statement, Transact
  <2>2. CASE Respond(p)
    <3>1. Unheard(p)
      BY <1>7, <2>2 DEF Serve, Statement, Respond, Authenticate, ResolvePaths,
                        CheckPath, FinishAccess, FinishPoll
    <3> QED BY <1>6, <2>2, <3>1
  <2> QED BY <1>5, <2>1, <2>2
<1>8. CASE Others
  <2>1. ASSUME NEW p \in Handlers, Abort(p) PROVE Bystander(c)
    <3>1. ~Respond(p)
      BY <2>1 DEF Abort, Respond
    <3> QED BY <1>5, <2>1, <3>1
  <2>2. ASSUME NEW a \in Apps, Administer(a) PROVE UNCHANGED pc
    BY <2>2 DEF Administer, CreateApplication, EditPaths, RotateToken, Disable,
                RevokeAccess, Enable, Change, handlerVars
  <2> QED
    BY <1>4, <1>8, <2>1, <2>2
       DEF Others, ApproveRequest, DenyRequest, Settle, Publish, Archive, Tick,
           SetExpiry, handlerVars
<1>9. CASE UNCHANGED allVars
  BY <1>4, <1>9 DEF allVars, systemVars, vars, handlerVars
<1> QED BY <1>7, <1>8, <1>9

\* What a call does to the handler it reaches, and to the store.
Reaches(c, p, place, kind) ==
    /\ pc[p] = "idle" /\ pc'[p] = "lock" /\ reply'[p] = "none"
    /\ job'[p].kind = kind /\ job'[p].key = attempt[c].key
    /\ kind = "access" => /\ job'[p].app = attempt[c].app
                          /\ job'[p].ask = attempt[c].ask
    /\ kind = "poll" => job'[p].req = handle[c]
    /\ \A q \in Handlers \ {p} : pc'[q] = pc[q] /\ job'[q] = job[q]
    /\ UNCHANGED <<token, request, instance, attempt, handle, got>>
    /\ stage' = [stage EXCEPT ![c] = place]
    /\ call' = [call EXCEPT ![c] = p]

LEMMA CallReaches ==
    ASSUME CInv, NEW c \in Clients, NEW p \in Handlers
    PROVE  /\ Post(c, p) => Reaches(c, p, "posting", "access")
           /\ Poll(c, p) => Reaches(c, p, "polling", "poll")
<1>1. /\ pc \in [Handlers -> Places] /\ job \in [Handlers -> Jobs]
      /\ pc[p] = "idle" => reply[p] = "none"
  BY DEF CInv, StoreOK, NoReplyYet, RInv, IInv, Shape, TypeOK
<1>2. CASE Post(c, p)
  BY <1>1, <1>2
     DEF Post, BeginAccess, Begin, Send, Reaches, Poll, requestVars, appVars
<1>3. CASE Poll(c, p)
  BY <1>1, <1>3
     DEF Poll, BeginPoll, Begin, Send, Reaches, Post, requestVars, appVars
<1> QED BY <1>2, <1>3

\* A key that is drawn is in nobody's hands, and under no request.
LEMMA FreshIsFresh ==
    ASSUME Fresh # {}
    PROVE  /\ FreshKey \in Keys
           /\ \A c \in Clients : attempt[c].key # FreshKey
           /\ \A p \in Handlers : job[p].key # FreshKey
           /\ \A r \in Requests : instance[r][FreshKey] = {}
<1>1. FreshKey \in Fresh
  BY DEF FreshKey
<1> QED BY <1>1 DEF Fresh, Spent

\* Another process.
LEMMA OthersStand ==
    ASSUME CInv, [ClientNext]_allVars,
           NEW c \in Clients, NEW d \in Clients, d # c,
           \/ Run(d) \/ GiveUp(d)
           \/ \E a \in Apps, ask \in Asks : Launch(d, a, ask)
    PROVE  Bystander(c)
<1> USE DEF ClientTypeOK
<1>0. /\ pc \in [Handlers -> Places] /\ ClientTypeOK
      /\ call[c] # None => call[c] \in Handlers /\ pc[call[c]] # "idle"
                          /\ job[call[c]].key = attempt[c].key
      /\ call[c] # None => attempt[c].key # None
      /\ attempt[c].key # None =>
             \A e \in Clients \ {c} : attempt[e].key # attempt[c].key
  BY NoneAssumption
     DEF CInv, StoreOK, RInv, IInv, Shape, TypeOK, JobOK, ClientOK, CallOK,
         WorksFor, OwnKey
<1>1. CASE GiveUp(d)
  <2>1. /\ UNCHANGED pc /\ StaysPut(c)
        /\ attempt' = [attempt EXCEPT ![d] = NoAttempt]
    BY <1>0, <1>1
       DEF GiveUp, Stop, HangUp, StaysPut, vars, handlerVars
  <2> QED BY <1>0, <2>1, WatchedStep DEF Bystander, KeyUnshared, StaysPut, NoAttempt
<1>2. ASSUME NEW a \in Apps, NEW ask \in Asks, Launch(d, a, ask)
      PROVE  Bystander(c)
  <2>1. /\ UNCHANGED pc /\ StaysPut(c) /\ Fresh # {}
        /\ attempt' = [attempt EXCEPT ![d] =
              [app |-> a, token |-> token[a], key |-> FreshKey, ask |-> ask]]
    BY <1>0, <1>2 DEF Launch, StaysPut, vars, handlerVars
  <2>2. attempt[c].key # FreshKey
    BY <2>1, FreshIsFresh
  <2> QED BY <1>0, <2>1, <2>2, WatchedStep DEF Bystander, KeyUnshared, StaysPut
<1>3. ASSUME NEW p \in Handlers, Post(d, p) \/ Poll(d, p)
      PROVE  Bystander(c)
  <2>1. PICK place, kind : Reaches(d, p, place, kind)
    BY <1>3, CallReaches
  <2>2. StaysPut(c)
    BY <1>0, <2>1 DEF Reaches, StaysPut
  <2> QED BY <1>0, <2>1, <2>2, WatchedStep DEF Bystander, KeyUnshared, StaysPut, Reaches
<1>4. ASSUME NEW p \in Handlers, Receive(d, p) PROVE Bystander(c)
  <2>1. /\ pc[p] = "done" /\ pc' = [pc EXCEPT ![p] = "idle"] /\ call[d] = p
        /\ call' = [call EXCEPT ![d] = None]
    BY <1>4 DEF Receive, Respond, HangUp
  <2>2. /\ \E w : stage' = [stage EXCEPT ![d] = w]
        /\ \E w : handle' = [handle EXCEPT ![d] = w]
        /\ got' = got \/ \E w : got' = [got EXCEPT ![d] = w]
        /\ attempt' = attempt \/ attempt' = [attempt EXCEPT ![d] = NoAttempt]
    BY <1>4 DEF Receive, Start, Stop, GoOn
  <2>3. StaysPut(c)
    BY <1>0, <2>1, <2>2 DEF StaysPut
  <2>4. call[c] # p
    <3>1. p # None
      BY NoneAssumption
    <3>2. job[p].key = attempt[d].key
      BY <2>1, <3>1 DEF CInv, ClientOK, CallOK, WorksFor
    <3> QED BY <1>0, <3>1, <3>2
  <2> QED BY <1>0, <2>1, <2>2, <2>3, <2>4, WatchedStep DEF Bystander, KeyUnshared, StaysPut, NoAttempt
<1> QED BY <1>1, <1>2, <1>3, <1>4 DEF Run

-----------------------------------------------------------------------------
(* The process itself.                                                     *)

LEMMA QuitOK ==
    ASSUME NEW c \in Clients, stage'[c] \in {"denied", "failed"},
           attempt'[c] = NoAttempt, call'[c] = None
    PROVE  ClientOK(c)'
BY DEF ClientOK, AttemptOK, CallOK, OwnKey, HandleKnown, RowsAsDue,
       ResolvedAsDue, PastClosed, NoConflict, StartedAsDue, NoAttempt,
       Sleeping, Calling

LEMMA LaunchOK ==
    ASSUME CInv, NEW c \in Clients, NEW a \in Apps, NEW ask \in Asks,
           Launch(c, a, ask)
    PROVE  ClientOK(c)'
<1>1. /\ stage'[c] = "post" /\ call'[c] = None
      /\ attempt'[c] = [app |-> a, token |-> token[a], key |-> FreshKey,
                        ask |-> ask]
      /\ attempt' = [attempt EXCEPT ![c] =
            [app |-> a, token |-> token[a], key |-> FreshKey, ask |-> ask]]
      /\ UNCHANGED <<pc, job, instance, token>>
  BY DEF Launch, CInv, ClientTypeOK, ClientOK, CallOK, Resting, Calling, vars,
         handlerVars, requestVars, appVars
<1>2. /\ FreshKey \in Keys
      /\ \A d \in Clients : attempt[d].key # FreshKey
      /\ \A p \in Handlers : job[p].key # FreshKey
      /\ \A r \in Requests : instance[r][FreshKey] = {}
  BY FreshIsFresh DEF Launch
<1>3. AttemptOK(c)'
  <2>1. token[a] \in 1 .. token[a]
    BY DEF Launch, Exists, CInv, StoreOK, RInv, IInv, Shape, TypeOK
  <2> QED BY <1>1, <1>2, <2>1 DEF AttemptOK
<1>4. OwnKey(c)'
  <2>1. \A d \in Clients : attempt'[d].key = FreshKey => d = c
    BY <1>1, <1>2 DEF CInv, ClientTypeOK
  <2> QED BY <1>1, <1>2, <2>1 DEF OwnKey
<1>5. RowsAsDue(c)' /\ PastClosed(c)'
  BY <1>1, <1>2 DEF RowsAsDue, PastClosed
<1> QED
  BY <1>1, <1>3, <1>4, <1>5
     DEF ClientOK, CallOK, HandleKnown, ResolvedAsDue, NoConflict,
         StartedAsDue, Calling

LEMMA SendOK ==
    ASSUME CInv, [ClientNext]_allVars, NEW c \in Clients, NEW p \in Handlers,
           \/ stage[c] = "post" /\ Reaches(c, p, "posting", "access")
           \/ stage[c] = "wait" /\ Reaches(c, p, "polling", "poll")
    PROVE  ClientOK(c)'
<1>1. /\ call'[c] = p /\ pc'[p] = "lock" /\ reply'[p] = "none"
      /\ job'[p].key = attempt[c].key
      /\ \A q \in Handlers \ {p} : pc'[q] = pc[q] /\ job'[q] = job[q]
      /\ UNCHANGED <<token, request, instance, attempt, handle, got>>
      /\ \/ /\ stage[c] = "post" /\ stage'[c] = "posting"
            /\ job'[p].kind = "access"
            /\ job'[p].app = attempt[c].app /\ job'[p].ask = attempt[c].ask
         \/ /\ stage[c] = "wait" /\ stage'[c] = "polling"
            /\ job'[p].kind = "poll" /\ job'[p].req = handle[c]
  BY DEF Reaches, CInv, ClientTypeOK
<1>2. call[c] = None
  BY <1>1 DEF CInv, ClientOK, CallOK, Calling
<1>3. AttemptOK(c)' /\ HandleKnown(c)' /\ RowsAsDue(c)'
  <2>1. DueStays(c)
    BY <1>1, WatchedStep
  <2>2. RowsAsDue(c)'
    BY <1>1, <2>1 DEF CInv, ClientOK, RowsAsDue, DueStays
  <2> QED
    BY <1>1, <2>2 DEF CInv, ClientOK, AttemptOK, HandleKnown
<1>4. CallOK(c)'
  BY <1>1, NoneAssumption DEF CallOK, WorksFor, Calling
<1>5. OwnKey(c)'
  <2> SUFFICES ASSUME attempt[c].key # None, NEW q \in Handlers \ {p},
                      pc'[q] # "idle", job'[q].key = attempt[c].key
               PROVE  FALSE
    BY <1>1 DEF OwnKey, CInv, ClientOK
  <2> QED BY <1>1, <1>2, NoneAssumption DEF OwnKey, CInv, ClientOK
<1>6. ResolvedAsDue(c)' /\ NoConflict(c)' /\ StartedAsDue(c)'
  BY <1>1 DEF ResolvedAsDue, NoConflict, StartedAsDue
<1>7. PastClosed(c)'
  <2>1. \A r \in Requests : r \in Awaited(c) => r \in Awaited(c)'
    BY <1>1 DEF Awaited
  <2>2. stage[c] \in Sleeping
    BY <1>1 DEF Sleeping
  <2> QED BY <1>1, <2>1, <2>2 DEF PastClosed, CInv, ClientOK
<1> QED BY <1>3, <1>4, <1>5, <1>6, <1>7 DEF ClientOK

\* The answer arrives, and the loop goes on.
LEMMA GoOnOK ==
    ASSUME CInv, [ClientNext]_allVars, NEW c \in Clients, NEW p \in Handlers, call[c] = p,
           Respond(p), call'[c] = None, attempt'[c] = attempt[c],
           \A d \in Clients \ {c} : attempt'[d].key = attempt[d].key,
           \/ /\ stage'[c] = "started" /\ reply[p] = "approved"
              /\ got'[c] = paths[p]
           \/ /\ stage'[c] = "wait" /\ reply[p] = "waiting"
              /\ handle'[c] = job[p].req
           \/ stage'[c] = "post" /\ reply[p] = "revoked"
    PROVE  ClientOK(c)'
<1>0. /\ Shape /\ p # None /\ call[c] # None
      /\ stage[c] \in {"posting", "polling"} /\ WorksFor(p, c)
  BY NoneAssumption
     DEF CInv, StoreOK, RInv, IInv, ClientOK, CallOK, Calling
<1>1. /\ UNCHANGED <<token, request, instance>>
      /\ pc'[p] = "idle"
      /\ \A q \in Handlers \ {p} : pc'[q] = pc[q] /\ job'[q] = job[q]
  BY <1>0 DEF Respond, Shape, TypeOK, requestVars, appVars
<1>due. DueStays(c)
  BY WatchedStep
<1>2. AttemptOK(c)' /\ RowsAsDue(c)'
  <2>1. RowsAsDue(c)'
    BY <1>1, <1>due DEF CInv, ClientOK, RowsAsDue, DueStays
  <2> QED BY <1>0, <1>1, <2>1 DEF CInv, ClientOK, AttemptOK
<1>3. CallOK(c)' /\ ResolvedAsDue(c)' /\ NoConflict(c)'
  BY DEF CallOK, ResolvedAsDue, NoConflict, Calling
<1>4. OwnKey(c)'
  <2> SUFFICES ASSUME attempt[c].key # None
               PROVE  /\ \A d \in Clients \ {c} :
                            attempt[d].key # attempt[c].key
                      /\ \A q \in Handlers \ {p} :
                            pc[q] # "idle" => job[q].key # attempt[c].key
    BY <1>1 DEF OwnKey
  <2> QED BY DEF CInv, ClientOK, OwnKey
<1>5. StartedAsDue(c)'
  <2> SUFFICES ASSUME stage'[c] = "started", Settled(c)'
               PROVE  got'[c] = DueTo(c)'
    BY DEF StartedAsDue
  <2>1. attempt[c].key # None
    BY <1>0, NoneAssumption DEF CInv, ClientOK, AttemptOK
  <2>2. Settled(c) /\ DueTo(c)' = DueTo(c)
    BY <1>due, <2>1 DEF DueStays
  <2>3. paths[p] = DueTo(c)
    BY <1>0, <2>2 DEF CInv, ClientOK, ResolvedAsDue
  <2> QED BY <2>2, <2>3
<1>6. reply[p] = "waiting" =>
         /\ job[p].req \in Requests
         /\ instance[job[p].req][attempt[c].key] # {}
         /\ stage[c] = "polling" => job[p].req = handle[c]
  BY <1>0 DEF CInv, StoreOK, HandleOK, WorksFor
<1>7. HandleKnown(c)'
  BY <1>1, <1>6 DEF HandleKnown
<1>8. PastClosed(c)'
  <2>1. ASSUME NEW r \in Requests, r \in Awaited(c), stage'[c] # "started"
        PROVE  r \in Awaited(c)'
    BY <1>0, <1>6, <2>1 DEF Awaited
  <2> QED
    BY <1>0, <1>1, <2>1 DEF PastClosed, CInv, ClientOK, Sleeping, Calling
<1> QED BY <1>2, <1>3, <1>4, <1>5, <1>7, <1>8 DEF ClientOK

LEMMA ReceiveOK ==
    ASSUME CInv, [ClientNext]_allVars, NEW c \in Clients, NEW p \in Handlers, Receive(c, p)
    PROVE  ClientOK(c)'
<1> USE DEF ClientTypeOK
<1>1. /\ ClientTypeOK /\ call[c] = p /\ Respond(p)
      /\ call' = [call EXCEPT ![c] = None]
  BY DEF Receive, HangUp, CInv
<1>2. ASSUME NEW place \in {"denied", "failed"}, Stop(c, place)
      PROVE  ClientOK(c)'
  BY <1>1, <1>2, QuitOK DEF Stop
<1>3. CASE Start(c, paths[p]) /\ reply[p] = "approved"
  BY <1>1, <1>3, GoOnOK DEF Start
<1>4. CASE GoOn(c, "wait", job[p].req) /\ reply[p] = "waiting"
  BY <1>1, <1>4, GoOnOK DEF GoOn
<1>5. CASE GoOn(c, "post", handle[c]) /\ reply[p] = "revoked"
  BY <1>1, <1>5, GoOnOK DEF GoOn
<1> QED BY <1>2, <1>3, <1>4, <1>5 DEF Receive, AfterRevoked

-----------------------------------------------------------------------------
(* The theorems.                                                           *)

LEMMA NextClientType ==
    ASSUME CInv, [ClientNext]_allVars
    PROVE  ClientTypeOK'
<1> USE DEF ClientTypeOK, Stages, Resting, Sleeping, Calling
<1>0. /\ ClientTypeOK /\ NoAttempt \in Attempts
      /\ token \in [Apps -> Nat] /\ paths \in [Handlers -> SUBSET Paths]
      /\ job \in [Handlers -> Jobs]
  BY DEF CInv, StoreOK, RInv, IInv, Shape, TypeOK, NoAttempt, Attempts
<1>1. ASSUME NEW c \in Clients, NEW p \in Handlers, Post(c, p) \/ Poll(c, p)
      PROVE  ClientTypeOK'
  BY <1>0, <1>1 DEF Post, Poll, Send
<1>2. ASSUME NEW c \in Clients, NEW p \in Handlers, Receive(c, p)
      PROVE  ClientTypeOK'
  <2>1. job[p].req \in Requests \cup {None}
    BY <1>0 DEF Jobs
  <2>2. \/ Start(c, paths[p]) \/ Stop(c, "failed") \/ Stop(c, "denied")
        \/ GoOn(c, "wait", job[p].req) \/ GoOn(c, "post", handle[c])
    BY <1>2 DEF Receive, AfterRevoked
  <2>3. call' = [call EXCEPT ![c] = None]
    BY <1>2 DEF Receive, HangUp
  <2>4. CASE Start(c, paths[p])
    BY <1>0, <2>3, <2>4 DEF Start
  <2>5. CASE Stop(c, "failed") \/ Stop(c, "denied")
    BY <1>0, <2>3, <2>5 DEF Stop
  <2>6. CASE GoOn(c, "wait", job[p].req) \/ GoOn(c, "post", handle[c])
    BY <1>0, <2>1, <2>3, <2>6 DEF GoOn
  <2> QED BY <2>2, <2>4, <2>5, <2>6
<1>3. ASSUME NEW c \in Clients, GiveUp(c) PROVE ClientTypeOK'
  BY <1>0, <1>3 DEF GiveUp, Stop, HangUp
<1>4. ASSUME NEW c \in Clients, NEW a \in Apps, NEW ask \in Asks,
             Launch(c, a, ask)
      PROVE  ClientTypeOK'
  <2>1. [app |-> a, token |-> token[a], key |-> FreshKey, ask |-> ask]
          \in Attempts
    BY <1>0, <1>4, FreshIsFresh, InputAssumption DEF Launch, Attempts
  <2> QED BY <1>0, <1>4, <2>1 DEF Launch
<1>5. CASE UNCHANGED clientVars
  BY <1>0, <1>5 DEF clientVars
<1> QED
  BY <1>1, <1>2, <1>3, <1>4, <1>5
     DEF ClientNext, Run, Serve, Others, allVars, systemVars

LEMMA InitCInv == ClientInit => CInv
<1> SUFFICES ASSUME ClientInit PROVE CInv
  OBVIOUS
<1>1. StoreOK
  BY InitStore DEF ClientInit
<1>2. ClientTypeOK
  BY DEF ClientInit, ClientTypeOK, Stages, Resting, Attempts, NoAttempt
<1>3. ASSUME NEW c \in Clients PROVE ClientOK(c)
  <2>1. stage[c] = "off" /\ attempt[c] = NoAttempt /\ call[c] = None
    BY DEF ClientInit
  <2> QED
    BY <2>1 DEF ClientOK, AttemptOK, CallOK, OwnKey, HandleKnown, RowsAsDue,
                ResolvedAsDue, PastClosed, NoConflict, StartedAsDue,
                NoAttempt, Sleeping, Calling
<1> QED BY <1>1, <1>2, <1>3 DEF CInv

LEMMA NextCInv == CInv /\ [ClientNext]_allVars => CInv'
<1> SUFFICES ASSUME CInv, [ClientNext]_allVars PROVE CInv'
  OBVIOUS
<1>0. [Next]_vars
  BY ClientStep
<1>1. StoreOK'
  BY <1>0, NextStore DEF CInv
<1>2. ClientTypeOK'
  BY NextClientType
<1>3. ASSUME NEW c \in Clients PROVE ClientOK(c)'
  <2>1. CASE (\E p \in Handlers : Serve(p)) \/ Others \/ UNCHANGED allVars
    BY <1>0, <2>1, ServerStands, BystanderOK
  <2>2. ASSUME NEW d \in Clients, d # c,
               \/ Run(d) \/ GiveUp(d)
               \/ \E a \in Apps, ask \in Asks : Launch(d, a, ask)
        PROVE  ClientOK(c)'
    BY <1>0, <2>2, OthersStand, BystanderOK
  <2>3. CASE Run(c)
    <3>1. PICK p \in Handlers : Post(c, p) \/ Poll(c, p) \/ Receive(c, p)
      BY <2>3 DEF Run
    <3>2. CASE Post(c, p)
      BY <3>2, CallReaches, SendOK DEF Post
    <3>3. CASE Poll(c, p)
      BY <3>3, CallReaches, SendOK DEF Poll
    <3> QED BY <3>1, <3>2, <3>3, ReceiveOK
  <2>4. CASE GiveUp(c)
    BY <2>4, QuitOK DEF GiveUp, Stop, HangUp, CInv, ClientTypeOK
  <2>5. ASSUME NEW a \in Apps, NEW ask \in Asks, Launch(c, a, ask)
        PROVE  ClientOK(c)'
    BY <2>5, LaunchOK
  <2> QED BY <2>1, <2>2, <2>3, <2>4, <2>5 DEF ClientNext
<1> QED BY <1>1, <1>2, <1>3 DEF CInv

\* Through any number of attempts, lost answers, crashes and revocations every
\* client is where the rows and handlers of the store allow it to be.
THEOREM ClientInvariance == ClientSpec => []CInv
BY InitCInv, NextCInv, PTL DEF ClientSpec

\* Whatever the clients' loops and their broken connections do, the store sees
\* only calls, transactions and changes it is specified for: everything that is
\* proved of Spec holds beside the clients.
THEOREM ClientRefinesStore == ClientSpec => Spec
<1>1. ClientInit => Init
  BY DEF ClientInit
<1> QED BY <1>1, ClientInvariance, ClientStep, PTL DEF ClientSpec, Spec

\* So the promises of the policy are kept to every client, ...
THEOREM ClientKeepsPolicy == ClientSpec => ImplementsPolicy
BY ClientRefinesStore, ImplementsPolicyHolds, PTL

\* ... a process starts with exactly the secrets it named, or, without names
\* and as long as nothing it stands for changes, with all that are published
\* inside its boundary, whoever else uses or used the request it joins, ...
THEOREM StartsWithItsOwnHolds == ClientSpec => []StartsWithItsOwn
<1>1. CInv => StartsWithItsOwn
  BY DEF CInv, ClientOK, StartedAsDue, DueTo, StartsWithItsOwn
<1> QED BY <1>1, ClientInvariance, PTL

\* ... and a post under the attempt's own key is never refused for it: every
\* request that the key was used for is decided by then.
THEOREM NoSelfConflictHolds == ClientSpec => []NoSelfConflict
<1>1. CInv => NoSelfConflict
  BY DEF CInv, ClientOK, NoConflict, NoSelfConflict
<1> QED BY <1>1, ClientInvariance, PTL
=============================================================================
