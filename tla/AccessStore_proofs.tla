------------------------- MODULE AccessStore_proofs -------------------------
(***************************************************************************)
(* Proofs about AccessStore, for any number of applications, paths, keys,  *)
(* requests, handlers, changes and ticks: its invariant and what follows,  *)
(* then that a handle stands for what was asked, that the audit log tells  *)
(* what the tables say, and that the module implements AccessPolicy.       *)
(***************************************************************************)
EXTENDS AccessStore, TLAPS

-----------------------------------------------------------------------------
(* The inductive invariant.                                                *)

InTransaction == {"resolve", "check", "finish"}

\* A handler at work has a complete job.
JobOK ==
    \A p \in Handlers : pc[p] # "idle" =>
        /\ job[p].kind \in {"access", "poll"}
        /\ job[p].app \in Apps
        /\ job[p].key \in Keys
        /\ job[p].kind = "poll" => job[p].req \in Requests

\* A row of access_requests belongs to an application, and only a row does.
RowOK ==
    \A r \in Requests :
        request[r].app \in Apps <=> request[r].status # "absent"

\* A transaction past authenticate holds the lock of its application, whose
\* identity is still the one it presented.
LockOK ==
    \A p \in Handlers : pc[p] \in InTransaction =>
        /\ lockedBy[job[p].app] = p
        /\ job[p].token = token[job[p].app]
        /\ job[p].token # 0
        /\ enabled[job[p].app]

\* From checkPaths on, the paths are inside the boundary, and those of a
\* polled handle are the ones stored for its owner.
PathsOK ==
    \A p \in Handlers : pc[p] \in {"check", "finish"} =>
        /\ paths[p] # {}
        /\ paths[p] \subseteq boundary[job[p].app]
        /\ job[p].kind = "poll" =>
              /\ request[job[p].req].app = job[p].app
              /\ instance[job[p].req][job[p].key] = paths[p]

Shape == TypeOK /\ JobOK /\ RowOK

-----------------------------------------------------------------------------
(* Shape is inductive by itself.                                           *)

\* Replaying an event yields what a replay may yield.
LEMMA AuditType ==
    ASSUME trail \in [Apps -> Trails], NEW a \in Apps, NEW event \in Events,
           Audit(a, event)
    PROVE  trail' \in [Apps -> Trails]
BY DEF Audit, Replay, Trails

LEMMA InitShape == Init => Shape
BY NoneAssumption, BoundAssumption
   DEF Init, Shape, TypeOK, JobOK, RowOK, NoJob, NoRequest, Never, Statuses,
       Places, Replies, Errors, Trails, Jobs

\* Releasing locks keeps their type.
LEMMA ReleaseType ==
    ASSUME TypeOK, NEW p \in Handlers, Release(p)
    PROVE  lockedBy' \in [Apps -> Handlers \cup {None}]
BY DEF TypeOK, Release

LEMMA JobType ==
    /\ NoJob \in Jobs
    /\ \A j \in Jobs, r \in Requests :
          /\ [j EXCEPT !.req = r] \in Jobs
          /\ [j EXCEPT !.req = r].req = r
          /\ [j EXCEPT !.req = r].kind = j.kind
          /\ [j EXCEPT !.req = r].app = j.app
          /\ [j EXCEPT !.req = r].token = j.token
          /\ [j EXCEPT !.req = r].key = j.key
<1>1. NoJob \in Jobs
  BY BoundAssumption DEF NoJob, Jobs
<1>2. ASSUME NEW j \in Jobs, NEW r \in Requests
      PROVE  /\ [j EXCEPT !.req = r] \in Jobs
             /\ [j EXCEPT !.req = r].req = r
             /\ [j EXCEPT !.req = r].kind = j.kind
             /\ [j EXCEPT !.req = r].app = j.app
             /\ [j EXCEPT !.req = r].token = j.token
             /\ [j EXCEPT !.req = r].key = j.key
  BY DEF Jobs
<1> QED BY <1>1, <1>2

\* Failing is safe wherever a handler is at work.
LEMMA FailShape ==
    ASSUME Shape, NEW p \in Handlers, pc[p] # "idle",
           NEW why \in Errors, Fail(p, why)
    PROVE  Shape'
<1>1. lockedBy' \in [Apps -> Handlers \cup {None}]
  BY ReleaseType DEF Fail, Answer, Shape
<1>2. TypeOK'
  BY <1>1 DEF Fail, Answer, Shape, TypeOK, appVars, requestVars, Replies, Places
<1>3. JobOK'
  BY DEF Fail, Answer, Shape, TypeOK, JobOK
<1>4. RowOK'
  BY DEF Fail, Shape, RowOK, requestVars
<1> QED BY <1>2, <1>3, <1>4 DEF Shape

\* A call begins.
LEMMA CallShape ==
    ASSUME Shape, NEW p \in Handlers, Call(p)
    PROVE  Shape'
<1>1. PICK j \in Jobs :
        /\ Begin(p, j)
        /\ j.kind \in {"access", "poll"} /\ j.app \in Apps /\ j.key \in Keys
        /\ j.kind = "poll" => j.req \in Requests
  <2>1. PICK a \in Apps, k \in Keys : \E t \in 0 .. token[a] :
          \/ \E ask \in Asks : BeginAccess(p, a, t, k, ask)
          \/ \E r \in Requests : BeginPoll(p, a, t, r, k)
    BY DEF Call
  <2>2. PICK t \in 0 .. token[a] :
          \/ \E ask \in Asks : BeginAccess(p, a, t, k, ask)
          \/ \E r \in Requests : BeginPoll(p, a, t, r, k)
    BY <2>1
  <2>3. t \in Nat /\ clock \in 0 .. MaxClock
    BY DEF Shape, TypeOK
  <2>4. CASE \E ask \in Asks : BeginAccess(p, a, t, k, ask)
    BY <2>3, <2>4, InputAssumption DEF BeginAccess, Jobs
  <2>5. CASE \E r \in Requests : BeginPoll(p, a, t, r, k)
    BY <2>3, <2>5 DEF BeginPoll, Jobs
  <2> QED BY <2>2, <2>4, <2>5
<1>2. TypeOK'
  BY <1>1 DEF Begin, Shape, TypeOK, appVars, requestVars, Places
<1>3. JobOK'
  BY <1>1 DEF Begin, Shape, TypeOK, JobOK
<1>4. RowOK'
  BY <1>1 DEF Begin, Shape, RowOK, requestVars
<1> QED BY <1>2, <1>3, <1>4 DEF Shape

\* The steps of a transaction before its last.
LEMMA ReadShape ==
    ASSUME Shape, NEW p \in Handlers,
           \/ Authenticate(p) \/ ResolvePaths(p)
           \/ \E q \in Paths : CheckPath(p, q)
    PROVE  Shape'
<1>1. Wanted(p) \in SUBSET Paths \/ pc[p] = "idle"
  BY DEF Shape, TypeOK, JobOK, Wanted, AskedFor, StoredFor, Jobs
<1>2. CASE Authenticate(p)
  <2>1. CASE Fail(p, "unauthorized")
    BY <1>2, <2>1, FailShape DEF Authenticate, Errors
  <2>2. CASE ~Fail(p, "unauthorized")
    <3>0. /\ lockedBy' = [lockedBy EXCEPT ![job[p].app] = p]
          /\ pc' = [pc EXCEPT ![p] = "resolve"]
          /\ UNCHANGED <<appVars, requestVars, live, clock,
                         job, paths, todo, reply>>
      BY <1>2, <2>2 DEF Authenticate
    <3>1. TypeOK'
      BY <3>0 DEF Shape, TypeOK, appVars, requestVars, Places
    <3>2. JobOK' /\ RowOK'
      BY <1>2, <2>2 DEF Authenticate, Shape, TypeOK, JobOK, RowOK, requestVars
    <3> QED BY <3>1, <3>2 DEF Shape
  <2> QED BY <2>1, <2>2
<1>3. CASE ResolvePaths(p)
  <2>1. CASE Fail(p, "not_found") \/ Fail(p, "forbidden")
    BY <1>3, <2>1, FailShape DEF ResolvePaths, Errors
  <2>2. CASE ~(Fail(p, "not_found") \/ Fail(p, "forbidden"))
    <3>0. /\ paths' = [paths EXCEPT ![p] = Wanted(p)]
          /\ todo' = [todo EXCEPT ![p] = Wanted(p)]
          /\ pc' = [pc EXCEPT ![p] = "check"] /\ pc[p] # "idle"
          /\ UNCHANGED <<appVars, lockedBy, requestVars, live, clock,
                         job, reply>>
      BY <1>3, <2>2 DEF ResolvePaths
    <3>1. TypeOK'
      BY <1>1, <3>0 DEF Shape, TypeOK, appVars, requestVars, Places
    <3>2. JobOK' /\ RowOK'
      BY <1>3, <2>2 DEF ResolvePaths, Shape, TypeOK, JobOK, RowOK, requestVars
    <3> QED BY <3>1, <3>2 DEF Shape
  <2> QED BY <2>1, <2>2
<1>4. ASSUME NEW q \in Paths, CheckPath(p, q) PROVE Shape'
  <2>1. CASE Fail(p, "not_found")
    BY <1>4, <2>1, FailShape DEF CheckPath, Errors
  <2>2. CASE ~Fail(p, "not_found")
    <3>1. TypeOK'
      BY <1>4, <2>2 DEF CheckPath, Shape, TypeOK, appVars, requestVars, Places
    <3>2. JobOK' /\ RowOK'
      BY <1>4, <2>2 DEF CheckPath, Shape, TypeOK, JobOK, RowOK, requestVars
    <3> QED BY <3>1, <3>2 DEF Shape
  <2> QED BY <2>1, <2>2
<1> QED BY <1>2, <1>3, <1>4

\* The row that Access inserts into access_requests, or joins.
LEMMA EnqueueRequest ==
    ASSUME Shape, NEW p \in Handlers, pc[p] # "idle",
           NEW r \in Requests, Enqueue(p, r), ~Fail(p, "conflict")
    PROVE  /\ request' \in [Requests -> [app : Apps \cup {None},
                                         status : Statuses, gen : Nat]]
           /\ request'[r].app = job[p].app /\ request'[r].status = "pending"
           /\ request'[r] = request[r] \/ request'[r].gen = gen[job[p].app]
           /\ \A s \in Requests \ {r} : request'[s] = request[s]
<1> DEFINE a == job[p].app
<1>1. a \in Apps
  BY DEF Shape, JobOK
<1>2. CASE Pending(a) = {}
  <2>1. request' = [request EXCEPT ![r] =
           [app |-> a, status |-> "pending", gen |-> gen[a]]]
    BY <1>2 DEF Enqueue
  <2> QED BY <1>1, <2>1 DEF Shape, TypeOK, Statuses
<1>3. CASE Pending(a) # {}
  <2>1. request' = [request EXCEPT ![r] = request[r]] /\ r \in Pending(a)
    BY <1>3 DEF Enqueue
  <2> QED BY <2>1 DEF Shape, TypeOK, Pending, Requested
<1> QED BY <1>2, <1>3

\* The last step of a transaction, and the answer.
LEMMA FinishShape ==
    ASSUME Shape, NEW p \in Handlers,
           FinishAccess(p) \/ FinishPoll(p) \/ Abort(p) \/ Respond(p)
    PROVE  Shape'
<1>1. ASSUME Deliver(p), pc[p] # "idle" PROVE Shape'
  <2>1. lockedBy' \in [Apps -> Handlers \cup {None}]
    BY <1>1, ReleaseType DEF Deliver, Answer, Shape
  <2>2. TypeOK'
    BY <1>1, <2>1
       DEF Deliver, Answer, Shape, TypeOK, appVars, requestVars, Replies, Places
  <2>3. JobOK' /\ RowOK'
    BY <1>1 DEF Deliver, Answer, Shape, TypeOK, JobOK, RowOK, requestVars
  <2> QED BY <2>2, <2>3 DEF Shape
<1>2. ASSUME NEW r \in Requests, Enqueue(p, r), pc[p] # "idle" PROVE Shape'
  <2>1. CASE Fail(p, "conflict")
    BY <1>2, <2>1, FailShape DEF Errors
  <2>2. CASE ~Fail(p, "conflict")
    <3> DEFINE a == job[p].app
    <3> DEFINE k == job[p].key
    <3>1. a \in Apps /\ k \in Keys
      BY <1>2 DEF Shape, JobOK
    <3>2. lockedBy' \in [Apps -> Handlers \cup {None}]
      BY <1>2, <2>2, ReleaseType DEF Enqueue, Answer, Shape
    <3>3. trail' \in [Apps -> Trails]
      <4>1. CASE Pending(a) = {}
        BY <1>2, <2>2, <3>1, <4>1, AuditType DEF Enqueue, Shape, TypeOK, Events
      <4>2. CASE Pending(a) # {}
        BY <1>2, <2>2, <4>2 DEF Enqueue, Shape, TypeOK
      <4> QED BY <4>1, <4>2
    <3>4. /\ request' \in [Requests -> [app : Apps \cup {None},
                                        status : Statuses, gen : Nat]]
          /\ request'[r].app = a /\ request'[r].status = "pending"
          /\ \A s \in Requests \ {r} : request'[s] = request[s]
      BY <1>2, <2>2, EnqueueRequest
    <3>4a. /\ instance' = [instance EXCEPT ![r] =
                             [instance[r] EXCEPT ![k] =
                               IF @ = {} THEN paths[p] ELSE @]]
           /\ job' = [job EXCEPT ![p] = [job[p] EXCEPT !.req = r]]
           /\ pc' = [pc EXCEPT ![p] = "done"]
      BY <1>2, <2>2 DEF Enqueue, Answer
    <3>5. /\ request' \in [Requests -> [app : Apps \cup {None},
                                        status : Statuses, gen : Nat]]
          /\ RowOK'
      BY <3>1, <3>4 DEF Shape, TypeOK, RowOK, Statuses
    <3>6. /\ instance' \in [Requests -> [Keys -> SUBSET Paths]]
          /\ granted' \in [Apps -> BOOLEAN]
          /\ job' \in [Handlers -> Jobs]
      <4> HIDE DEF a, k
      <4>1. instance' \in [Requests -> [Keys -> SUBSET Paths]]
        BY <3>4a, <3>1 DEF Shape, TypeOK
      <4>2. granted' \in [Apps -> BOOLEAN]
        BY <1>2, <2>2, <3>1 DEF Expire, Enqueue, Shape, TypeOK
      <4>3. job' \in [Handlers -> Jobs]
        BY <3>4a, JobType DEF Shape, TypeOK
      <4> QED BY <4>1, <4>2, <4>3
    <3>7. TypeOK'
      BY <1>2, <2>2, <3>2, <3>3, <3>5, <3>6
         DEF Enqueue, Answer, Shape, TypeOK, Replies, Places
    <3>8. JobOK'
      <4> SUFFICES ASSUME NEW q \in Handlers, pc'[q] # "idle"
                   PROVE  /\ job'[q].kind \in {"access", "poll"}
                          /\ job'[q].app \in Apps /\ job'[q].key \in Keys
                          /\ job'[q].kind = "poll" => job'[q].req \in Requests
        BY DEF JobOK
      <4>1. CASE q # p
        BY <3>4a, <4>1 DEF Shape, TypeOK, JobOK
      <4>2. CASE q = p
        <5>1. job[p] \in Jobs /\ job'[p] = [job[p] EXCEPT !.req = r]
          BY <3>4a DEF Shape, TypeOK
        <5>2. /\ job'[p].kind = job[p].kind /\ job'[p].app = job[p].app
              /\ job'[p].key = job[p].key /\ job'[p].req = r
          BY <5>1, JobType
        <5> QED BY <1>2, <4>2, <5>2 DEF Shape, JobOK
      <4> QED BY <4>1, <4>2
    <3> QED BY <3>5, <3>7, <3>8 DEF Shape
  <2> QED BY <2>1, <2>2
<1>3. CASE FinishAccess(p)
  BY <1>1, <1>2, <1>3 DEF FinishAccess
<1>4. CASE FinishPoll(p)
  <2>1. CASE Deliver(p)
    BY <1>1, <1>4, <2>1 DEF FinishPoll
  <2>2. CASE ~Deliver(p)
    <3>1. job[p].app \in Apps /\ pc[p] # "idle"
      BY <1>4 DEF FinishPoll, Shape, JobOK
    <3>2. PICK r \in Replies : Answer(p, r)
      BY <1>4, <2>2 DEF Reported, FinishPoll, Replies
    <3>3. lockedBy' \in [Apps -> Handlers \cup {None}]
      BY <3>2, ReleaseType DEF Answer, Shape
    <3>4. granted' \in [Apps -> BOOLEAN]
      BY <1>4, <2>2, <3>1 DEF Expire, FinishPoll, Shape, TypeOK
    <3>5. UNCHANGED <<token, enabled, boundary, expires, gen, trail,
                      requestVars, live, clock, job, paths, todo>>
      BY <1>4, <2>2 DEF FinishPoll
    <3>6. TypeOK'
      BY <3>2, <3>3, <3>4, <3>5
         DEF Answer, Shape, TypeOK, requestVars, Places
    <3>7. JobOK' /\ RowOK'
      BY <3>1, <3>2, <3>5
         DEF Answer, Shape, TypeOK, JobOK, RowOK, requestVars
    <3> QED BY <3>6, <3>7 DEF Shape
  <2> QED BY <2>1, <2>2
<1>5. CASE Abort(p)
  BY <1>5, FailShape DEF Abort, Errors
<1>6. CASE Respond(p)
  <2>1. TypeOK'
    BY <1>6, JobType DEF Respond, Shape, TypeOK, appVars, requestVars,
                         Places, Replies
  <2>2. JobOK' /\ RowOK'
    BY <1>6 DEF Respond, Shape, TypeOK, JobOK, RowOK, requestVars
  <2> QED BY <2>1, <2>2 DEF Shape
<1> QED BY <1>3, <1>4, <1>5, <1>6

\* Administrators' transactions.
LEMMA AdminShape ==
    ASSUME Shape, NEW a \in Apps, Administer(a)
    PROVE  Shape'
<1>1. /\ UNCHANGED <<expires, lockedBy, instance, live, clock, handlerVars>>
      /\ token' \in [Apps -> Nat]
      /\ enabled' \in [Apps -> BOOLEAN]
      /\ boundary' \in [Apps -> SUBSET Paths]
      /\ gen' \in [Apps -> Nat] /\ granted' \in [Apps -> BOOLEAN]
      /\ \E event \in Events : Audit(a, event)
  <2> USE DEF Shape, TypeOK, Events, Withdrawals, requestVars
  <2>1. ASSUME NEW b \in Boundaries, CreateApplication(a, b) PROVE <1>1!:
    BY <2>1, InputAssumption DEF CreateApplication
  <2>2. ASSUME NEW b \in Boundaries, EditPaths(a, b) PROVE <1>1!:
    BY <2>2, InputAssumption DEF EditPaths, Change, Revoke
  <2>3. CASE RotateToken(a)
    BY <2>3 DEF RotateToken, Change, Revoke
  <2>4. CASE Disable(a)
    BY <2>4 DEF Disable, Change, Revoke
  <2>5. CASE RevokeAccess(a)
    BY <2>5 DEF RevokeAccess, Change, Revoke
  <2>6. CASE Enable(a)
    BY <2>6 DEF Enable
  <2> QED BY <2>1, <2>2, <2>3, <2>4, <2>5, <2>6 DEF Administer
<1>2. trail' \in [Apps -> Trails]
  BY <1>1, AuditType DEF Shape, TypeOK
<1>3. UNCHANGED request \/ Revoke(a)
  BY DEF Administer, CreateApplication, EditPaths, RotateToken, Disable,
         RevokeAccess, Enable, Change, requestVars
<1>4. /\ request' \in [Requests -> [app : Apps \cup {None},
                                    status : Statuses, gen : Nat]]
      /\ RowOK'
  <2>1. CASE Revoke(a)
    <3>1. \A r \in Requests :
             \/ request'[r] = request[r]
             \/ /\ request[r].status # "absent"
                /\ request'[r] = [request[r] EXCEPT !.status = "revoked"]
      BY <2>1 DEF Revoke
    <3>3. ASSUME NEW r \in Requests
          PROVE  /\ request'[r] \in [app : Apps \cup {None},
                                     status : Statuses, gen : Nat]
                 /\ request'[r].app \in Apps <=> request'[r].status # "absent"
      <4>1. CASE request'[r] = request[r]
        BY <4>1 DEF Shape, TypeOK, RowOK
      <4>2. CASE /\ request[r].status # "absent"
                 /\ request'[r] = [request[r] EXCEPT !.status = "revoked"]
        BY <4>2 DEF Shape, TypeOK, RowOK, Statuses
      <4> QED BY <3>1, <4>1, <4>2
    <3>4. request' = [r \in Requests |-> request'[r]]
      BY <2>1 DEF Revoke
    <3> QED BY <3>3, <3>4 DEF RowOK
  <2>2. CASE UNCHANGED request
    BY <2>2 DEF Shape, TypeOK, RowOK
  <2> QED BY <1>3, <2>1, <2>2
<1>5. TypeOK' /\ JobOK'
  BY <1>1, <1>2, <1>4 DEF Shape, TypeOK, JobOK, handlerVars
<1> QED BY <1>4, <1>5 DEF Shape

\* Approvals, denials, the secrets table and the environment.
LEMMA OtherShape ==
    ASSUME Shape,
           \/ \E r \in Requests : ApproveRequest(r) \/ DenyRequest(r)
           \/ \E q \in Paths : Publish(q) \/ Archive(q)
           \/ Tick
           \/ \E a \in Apps, t \in 1 .. MaxClock : SetExpiry(a, t)
    PROVE  Shape'
<1>1. ASSUME NEW r \in Requests, ApproveRequest(r) \/ DenyRequest(r)
      PROVE  Shape'
  <2>1. PICK status \in Statuses \ {"absent"}, event \in Events :
          Settle(r, status, event)
    BY <1>1 DEF ApproveRequest, DenyRequest, Statuses, Events
  <2>2. request[r].app \in Apps
    BY <2>1 DEF Decidable, Settle, Shape, RowOK
  <2>3. trail' \in [Apps -> Trails]
    BY <2>1, <2>2, AuditType DEF Settle, Shape, TypeOK
  <2>4. /\ granted' \in [Apps -> BOOLEAN]
        /\ expires' \in [Apps -> 0 .. Never]
    <3>1. Never \in 0 .. Never
      BY BoundAssumption DEF Never
    <3>2. CASE ApproveRequest(r)
      <4>1. /\ granted' = [granted EXCEPT ![request[r].app] = TRUE]
            /\ expires' = [expires EXCEPT ![request[r].app] = Never]
        BY <3>2 DEF ApproveRequest
      <4> QED BY <3>1, <4>1 DEF Shape, TypeOK
    <3>3. CASE DenyRequest(r)
      BY <3>3 DEF DenyRequest, Shape, TypeOK
    <3> QED BY <1>1, <3>2, <3>3
  <2>5. request' = [request EXCEPT ![r] = [request[r] EXCEPT !.status = status]]
    BY <2>1 DEF Settle
  <2>6. /\ request' \in [Requests -> [app : Apps \cup {None},
                                      status : Statuses, gen : Nat]]
        /\ RowOK'
    <3>1. ASSUME NEW s \in Requests
          PROVE  /\ request'[s] \in [app : Apps \cup {None},
                                     status : Statuses, gen : Nat]
                 /\ request'[s].app \in Apps <=> request'[s].status # "absent"
      <4>1. CASE s # r
        BY <2>5, <4>1 DEF Shape, TypeOK, RowOK
      <4>2. CASE s = r
        BY <2>1, <2>2, <2>5, <4>2 DEF Shape, TypeOK, Statuses
      <4> QED BY <4>1, <4>2
    <3>2. request' = [s \in Requests |-> request'[s]]
      BY <2>5 DEF Shape, TypeOK
    <3> QED BY <3>1, <3>2 DEF RowOK
  <2>7. TypeOK' /\ JobOK'
    BY <2>1, <2>3, <2>4, <2>6
       DEF Settle, Shape, TypeOK, JobOK, handlerVars
  <2> QED BY <2>6, <2>7 DEF Shape
<1>2. ASSUME NEW q \in Paths, Publish(q) \/ Archive(q) PROVE Shape'
  BY <1>2 DEF Publish, Archive, Shape, TypeOK, JobOK, RowOK, appVars,
              requestVars, handlerVars
<1>3. CASE Tick
  <2>1. clock' \in 0 .. MaxClock
    BY <1>3, BoundAssumption DEF Tick, Shape, TypeOK
  <2> QED
    BY <1>3, <2>1 DEF Tick, Shape, TypeOK, JobOK, RowOK, appVars,
                      requestVars, handlerVars
<1>4. ASSUME NEW a \in Apps, NEW t \in 1 .. MaxClock, SetExpiry(a, t)
      PROVE  Shape'
  <2>1. expires' \in [Apps -> 0 .. Never]
    BY <1>4, BoundAssumption DEF SetExpiry, Shape, TypeOK, Never
  <2> QED
    BY <1>4, <2>1 DEF SetExpiry, Shape, TypeOK, JobOK, RowOK, requestVars,
                      handlerVars
<1> QED BY <1>1, <1>2, <1>3, <1>4

LEMMA StutterShape == Shape /\ UNCHANGED vars => Shape'
BY DEF vars, appVars, requestVars, handlerVars, Shape, TypeOK, JobOK, RowOK

LEMMA NextShape == Shape /\ [Next]_vars => Shape'
<1> SUFFICES ASSUME Shape, [Next]_vars PROVE Shape'
  OBVIOUS
<1>1. ASSUME NEW p \in Handlers, Call(p) \/ Transact(p) \/ Abort(p)
      PROVE  Shape'
  BY <1>1, CallShape, ReadShape, FinishShape DEF Transact
<1> QED BY <1>1, AdminShape, OtherShape, StutterShape DEF Next

\* Every table and every handler always has the shape the schema and the Go
\* types give it.
THEOREM TypeCorrect == Spec => []TypeOK
<1>1. Shape => TypeOK
  BY DEF Shape
<1> QED BY <1>1, InitShape, NextShape, PTL DEF Spec

-----------------------------------------------------------------------------
(* The row lock.  What authenticate has read stays true to the end of the  *)
(* transaction: this is what FOR UPDATE buys, and all the rest needs it.   *)

\* What a step of somebody else leaves as it was for a handler at work.
Kept(p) ==
    LET a == job[p].app
    IN  /\ pc'[p] = pc[p] /\ job'[p] = job[p] /\ paths'[p] = paths[p]
        /\ reply'[p] = reply[p]
        /\ lockedBy'[a] = lockedBy[a]
        /\ token'[a] = token[a] /\ enabled'[a] = enabled[a]
        /\ boundary'[a] = boundary[a] /\ granted'[a] = granted[a]
        /\ \A r \in Requests :
              /\ request[r].app = a => /\ request'[r] = request[r]
                                       /\ instance'[r] = instance[r]
              /\ request'[r].app = a => request[r].app = a

LEMMA HandlersKeepOut ==
    ASSUME Shape, LockOK, NEW p \in Handlers, pc[p] \in InTransaction,
           NEW q \in Handlers, q # p, Call(q) \/ Transact(q) \/ Abort(q)
    PROVE  Kept(p)
<1> DEFINE a == job[p].app
<1>1. a \in Apps /\ lockedBy[a] = p /\ pc[p] # "idle"
  BY DEF LockOK, Shape, JobOK, InTransaction
<1> HIDE DEF a
<1>2. ASSUME NEW r, Answer(q, r)
      PROVE  /\ pc'[p] = pc[p] /\ reply'[p] = reply[p]
             /\ lockedBy'[a] = lockedBy[a]
  BY <1>1, <1>2 DEF Answer, Release, Shape, TypeOK
<1>3. ASSUME NEW why, Fail(q, why) PROVE Kept(p)
  BY <1>2, <1>3 DEF Fail, Kept, a, appVars, requestVars
<1>4. ASSUME Deliver(q) PROVE Kept(p)
  BY <1>2, <1>4 DEF Deliver, Kept, a, appVars, requestVars
<1>5. ASSUME pc[q] = "finish"
      PROVE  job[q].app \in Apps /\ job[q].app # a
  BY <1>1, <1>5 DEF Shape, JobOK, LockOK, InTransaction
<1>6. ASSUME NEW r \in Requests, Enqueue(q, r), pc[q] = "finish" PROVE Kept(p)
  <2>1. CASE Fail(q, "conflict")
    BY <1>3, <2>1
  <2>2. CASE ~Fail(q, "conflict")
    <3>1. /\ Answer(q, "waiting")
          /\ request'[r].app = job[q].app
          /\ \A s \in Requests \ {r} : request'[s] = request[s]
          /\ instance' = [instance EXCEPT ![r] =
                [instance[r] EXCEPT ![job[q].key] =
                   IF @ = {} THEN paths[q] ELSE @]]
          /\ granted' = [granted EXCEPT ![job[q].app] = FALSE]
          /\ job' = [job EXCEPT ![q] = [job[q] EXCEPT !.req = r]]
          /\ UNCHANGED <<token, enabled, boundary, paths>>
      BY <1>6, <2>2, EnqueueRequest DEF Expire, Enqueue
    <3>2. request[r].app # a
      BY <1>1, <1>5, <1>6
         DEF Enqueue, Unused, Pending, Requested, Shape, RowOK
    <3>3. pc'[p] = pc[p] /\ reply'[p] = reply[p] /\ lockedBy'[a] = lockedBy[a]
      BY <1>2, <3>1
    <3> QED
      BY <1>1, <1>5, <1>6, <3>1, <3>2, <3>3 DEF Kept, a, Shape, TypeOK
  <2> QED BY <2>1, <2>2
<1>7. CASE Call(q)
  BY <1>7 DEF Call, BeginAccess, BeginPoll, Begin, Kept, appVars,
              requestVars, Shape, TypeOK
<1>8. CASE Authenticate(q)
  <2>1. CASE Fail(q, "unauthorized")
    BY <1>3, <2>1
  <2>2. CASE ~Fail(q, "unauthorized")
    <3>1. /\ lockedBy[job[q].app] = None
          /\ lockedBy' = [lockedBy EXCEPT ![job[q].app] = q]
          /\ pc' = [pc EXCEPT ![q] = "resolve"]
          /\ UNCHANGED <<appVars, requestVars, job, paths, reply>>
      BY <1>8, <2>2 DEF LockFree, Authenticate
    <3>2. job[q].app # a
      BY <1>1, <3>1, NoneAssumption
    <3> QED
      BY <1>1, <3>1, <3>2 DEF Kept, a, appVars, requestVars, Shape, TypeOK
  <2> QED BY <2>1, <2>2
<1>9. CASE ResolvePaths(q)
  BY <1>3, <1>9 DEF ResolvePaths, Kept, appVars, requestVars, Shape, TypeOK
<1>10. ASSUME NEW x \in Paths, CheckPath(q, x) PROVE Kept(p)
  BY <1>3, <1>10 DEF CheckPath, Kept, appVars, requestVars, Shape, TypeOK
<1>11. CASE FinishAccess(q)
  BY <1>4, <1>6, <1>11 DEF FinishAccess
<1>12. CASE FinishPoll(q)
  <2>1. CASE Deliver(q)
    BY <1>4, <2>1
  <2>2. CASE ~Deliver(q)
    <3>1. /\ \E r \in Replies : Answer(q, r)
          /\ granted'[a] = granted[a]
          /\ UNCHANGED <<token, enabled, boundary, requestVars, job, paths>>
      BY <1>1, <1>5, <1>12, <2>2 DEF Reported, Expire, FinishPoll, Replies, Shape, TypeOK
    <3> QED BY <1>2, <3>1 DEF Kept, a, requestVars
  <2> QED BY <2>1, <2>2
<1>13. CASE Abort(q)
  BY <1>3, <1>13 DEF Abort
<1>14. CASE Respond(q)
  BY <1>14 DEF Respond, Kept, appVars, requestVars, Shape, TypeOK
<1> QED
  BY <1>7, <1>8, <1>9, <1>10, <1>11, <1>12, <1>13, <1>14 DEF Transact

LEMMA AdminsKeepOut ==
    ASSUME Shape, LockOK, NEW p \in Handlers, pc[p] \in InTransaction,
           \/ \E b \in Apps : Administer(b)
           \/ \E r \in Requests : ApproveRequest(r) \/ DenyRequest(r)
    PROVE  Kept(p)
<1> DEFINE a == job[p].app
<1>1. /\ a \in Apps /\ a # None
      /\ lockedBy[a] = p /\ p # None /\ token[a] # 0
  BY NoneAssumption DEF LockOK, Shape, JobOK, InTransaction
<1> HIDE DEF a
<1>2. ASSUME NEW b \in Apps, Administer(b) PROVE Kept(p)
  <2>1. CASE b = a
    <3>1. token[b] # 0 /\ lockedBy[b] # None
      BY <1>1, <2>1
    <3> QED
      BY <1>2, <3>1
         DEF LockFree, Administer, CreateApplication, EditPaths, RotateToken, Disable,
             RevokeAccess, Enable, Change, Exists
  <2>2. CASE b # a
    <3>1. /\ UNCHANGED <<lockedBy, instance, handlerVars>>
          /\ token'[a] = token[a] /\ enabled'[a] = enabled[a]
          /\ boundary'[a] = boundary[a]
          /\ UNCHANGED <<granted, request>> \/ Revoke(b)
      BY <1>1, <1>2, <2>2
         DEF Administer, CreateApplication, EditPaths, RotateToken, Disable,
             RevokeAccess, Enable, Change, requestVars, Shape, TypeOK
    <3>2. granted'[a] = granted[a]
      BY <1>1, <2>2, <3>1 DEF Revoke, Shape, TypeOK
    <3>3. ASSUME NEW r \in Requests
          PROVE  /\ request'[r].app = request[r].app
                 /\ request[r].app = a => request'[r] = request[r]
      BY <2>2, <3>1 DEF Revoke, Shape, TypeOK
    <3> QED BY <3>1, <3>2, <3>3 DEF Kept, a, handlerVars
  <2> QED BY <2>1, <2>2
<1>3. ASSUME NEW r \in Requests, ApproveRequest(r) \/ DenyRequest(r)
      PROVE  Kept(p)
  <2>1. /\ lockedBy[request[r].app] = None
        /\ \E status \in Statuses :
              request' = [request EXCEPT ![r] =
                            [request[r] EXCEPT !.status = status]]
        /\ UNCHANGED <<token, enabled, boundary, lockedBy, instance,
                       handlerVars>>
        /\ \/ granted' = [granted EXCEPT ![request[r].app] = TRUE]
           \/ UNCHANGED granted
    BY <1>3 DEF Decidable, LockFree, ApproveRequest, DenyRequest, Settle, Statuses
  <2>2. request[r].app # a
    BY <1>1, <2>1
  <2> QED
    BY <1>1, <2>1, <2>2 DEF Kept, a, handlerVars, Shape, TypeOK
<1> QED BY <1>2, <1>3

\* While a handler is inside its transaction, a step that is not its own
\* changes nothing of its application: no token, no boundary, no grant, no
\* request, and not the lock.
LEMMA KeptByOthers ==
    ASSUME Shape, LockOK, [Next]_vars, NEW p \in Handlers,
           pc[p] \in InTransaction, ~Transact(p), ~Abort(p)
    PROVE  Kept(p)
<1>1. ~Call(p)
  BY DEF Call, BeginAccess, BeginPoll, Begin, InTransaction
<1>2. CASE \E q \in Handlers : Call(q) \/ Transact(q) \/ Abort(q)
  BY <1>1, <1>2, HandlersKeepOut
<1>3. CASE \/ \E b \in Apps : Administer(b)
           \/ \E r \in Requests : ApproveRequest(r) \/ DenyRequest(r)
  BY <1>3, AdminsKeepOut
<1>4. CASE \E q \in Paths : Publish(q) \/ Archive(q)
  BY <1>4 DEF Publish, Archive, Kept, appVars, requestVars, handlerVars
<1>5. CASE Tick
  BY <1>5 DEF Tick, Kept, appVars, requestVars, handlerVars
<1>6. CASE \E b \in Apps, t \in 1 .. MaxClock : SetExpiry(b, t)
  BY <1>6 DEF SetExpiry, Kept, appVars, requestVars, handlerVars
<1>7. CASE UNCHANGED vars
  BY <1>7 DEF vars, Kept, appVars, requestVars, handlerVars
<1> QED BY <1>2, <1>3, <1>4, <1>5, <1>6, <1>7 DEF Next

\* What a handler knows of itself, only its own steps change.
LEMMA OwnPlace ==
    ASSUME Shape, [Next]_vars, NEW p \in Handlers,
           ~Call(p), ~Transact(p), ~Abort(p)
    PROVE  /\ pc'[p] = pc[p] /\ job'[p] = job[p]
           /\ paths'[p] = paths[p] /\ reply'[p] = reply[p]
<1>1. ASSUME NEW q \in Handlers, q # p, Call(q)
      PROVE  /\ pc'[p] = pc[p] /\ job'[p] = job[p]
             /\ paths'[p] = paths[p] /\ reply'[p] = reply[p]
  BY <1>1 DEF Call, BeginAccess, BeginPoll, Begin, Shape, TypeOK
<1>2. ASSUME NEW q \in Handlers, q # p, Transact(q) \/ Abort(q)
      PROVE  /\ pc'[p] = pc[p] /\ job'[p] = job[p]
             /\ paths'[p] = paths[p] /\ reply'[p] = reply[p]
  <2> USE DEF Shape, TypeOK
  <2>1. CASE Authenticate(q)
    BY <1>2, <2>1 DEF Authenticate, Fail, Answer
  <2>2. CASE ResolvePaths(q)
    BY <1>2, <2>2 DEF ResolvePaths, Fail, Answer
  <2>3. ASSUME NEW x \in Paths, CheckPath(q, x)
        PROVE  /\ pc'[p] = pc[p] /\ job'[p] = job[p]
               /\ paths'[p] = paths[p] /\ reply'[p] = reply[p]
    BY <1>2, <2>3 DEF CheckPath, Fail, Answer
  <2>4. CASE FinishAccess(q)
    <3>1. CASE Deliver(q)
      BY <1>2, <3>1 DEF Deliver, Answer
    <3>2. ASSUME NEW r \in Requests, Enqueue(q, r)
          PROVE  /\ pc'[p] = pc[p] /\ job'[p] = job[p]
                 /\ paths'[p] = paths[p] /\ reply'[p] = reply[p]
      BY <1>2, <3>2 DEF Enqueue, Fail, Answer
    <3> QED BY <2>4, <3>1, <3>2 DEF FinishAccess
  <2>5. CASE FinishPoll(q)
    BY <1>2, <2>5 DEF FinishPoll, Deliver, Answer
  <2>6. CASE Respond(q)
    BY <1>2, <2>6 DEF Respond
  <2>7. CASE Abort(q)
    BY <1>2, <2>7 DEF Abort, Fail, Answer
  <2> QED BY <1>2, <2>1, <2>2, <2>3, <2>4, <2>5, <2>6, <2>7 DEF Transact
<1>3. CASE \E a \in Apps : Administer(a)
  BY <1>3 DEF Administer, CreateApplication, EditPaths, RotateToken, Disable,
              RevokeAccess, Enable, Change, handlerVars
<1>4. CASE \/ \E r \in Requests : ApproveRequest(r) \/ DenyRequest(r)
           \/ \E q \in Paths : Publish(q) \/ Archive(q)
           \/ Tick
           \/ \E a \in Apps, t \in 1 .. MaxClock : SetExpiry(a, t)
           \/ UNCHANGED vars
  BY <1>4 DEF ApproveRequest, DenyRequest, Settle, Publish, Archive, Tick,
              SetExpiry, handlerVars, vars
<1> QED BY <1>1, <1>2, <1>3, <1>4 DEF Next

\* Where a handler's own step takes it.
LEMMA OwnStep ==
    ASSUME Shape, NEW p \in Handlers, Call(p) \/ Transact(p) \/ Abort(p),
           pc'[p] \in InTransaction
    PROVE  /\ job'[p] = job[p] /\ pc[p] # "idle"
           /\ UNCHANGED <<appVars, requestVars>>
           /\ \/ /\ Authenticate(p)
                 /\ pc[p] = "lock" /\ pc'[p] = "resolve"
                 /\ lockedBy' = [lockedBy EXCEPT ![job[p].app] = p]
                 /\ job[p].token = token[job[p].app] /\ job[p].token # 0
                 /\ enabled[job[p].app]
              \/ /\ ResolvePaths(p)
                 /\ pc[p] = "resolve" /\ pc'[p] = "check"
                 /\ UNCHANGED lockedBy
                 /\ paths'[p] = Wanted(p) /\ Wanted(p) # {}
                 /\ Wanted(p) \subseteq boundary[job[p].app]
              \/ /\ \E q \in Paths : CheckPath(p, q)
                 /\ pc[p] = "check" /\ pc'[p] \in {"check", "finish"}
                 /\ UNCHANGED <<lockedBy, paths>>
<1> USE DEF Shape, TypeOK, InTransaction
<1>1. CASE Call(p)
  BY <1>1 DEF Call, BeginAccess, BeginPoll, Begin
<1>2. ASSUME NEW r, Answer(p, r) PROVE FALSE
  BY <1>2 DEF Answer
<1>3. ASSUME NEW why, Fail(p, why) PROVE FALSE
  BY <1>2, <1>3 DEF Fail
<1>4. CASE Authenticate(p)
  <2>1. /\ pc[p] = "lock" /\ job[p].token # 0
        /\ job[p].token = token[job[p].app] /\ enabled[job[p].app]
        /\ lockedBy' = [lockedBy EXCEPT ![job[p].app] = p]
        /\ pc' = [pc EXCEPT ![p] = "resolve"]
        /\ UNCHANGED <<appVars, requestVars, job>>
    BY <1>3, <1>4 DEF Authenticate
  <2> QED BY <1>4, <2>1
<1>5. CASE ResolvePaths(p)
  <2>1. /\ pc[p] = "resolve"
        /\ Wanted(p) # {} /\ Wanted(p) \subseteq boundary[job[p].app]
        /\ paths' = [paths EXCEPT ![p] = Wanted(p)]
        /\ pc' = [pc EXCEPT ![p] = "check"]
        /\ UNCHANGED <<appVars, lockedBy, requestVars, job>>
    BY <1>3, <1>5 DEF ResolvePaths
  <2> QED BY <1>5, <2>1
<1>6. ASSUME NEW q \in Paths, CheckPath(p, q)
      PROVE  /\ pc[p] = "check" /\ pc'[p] \in {"check", "finish"}
             /\ UNCHANGED <<appVars, lockedBy, requestVars, job, paths>>
  BY <1>3, <1>6 DEF CheckPath
<1>7. CASE FinishAccess(p)
  BY <1>2, <1>3, <1>7 DEF FinishAccess, Deliver, Enqueue
<1>8. CASE FinishPoll(p)
  BY <1>2, <1>8 DEF FinishPoll, Deliver
<1>9. CASE Respond(p)
  BY <1>9 DEF Respond
<1>10. CASE Abort(p)
  BY <1>3, <1>10 DEF Abort
<1> QED
  BY <1>1, <1>4, <1>5, <1>6, <1>7, <1>8, <1>9, <1>10 DEF Transact

LEMMA NextLock == Shape /\ LockOK /\ [Next]_vars => LockOK'
<1> SUFFICES ASSUME Shape, LockOK, [Next]_vars,
                    NEW p \in Handlers, pc'[p] \in InTransaction
             PROVE  /\ lockedBy'[job'[p].app] = p
                    /\ job'[p].token = token'[job'[p].app]
                    /\ job'[p].token # 0
                    /\ enabled'[job'[p].app]
  BY DEF LockOK
<1>1. CASE Call(p) \/ Transact(p) \/ Abort(p)
  <2>1. job[p].app \in Apps
    BY <1>1, OwnStep DEF Shape, JobOK
  <2> QED
    BY <1>1, <2>1, OwnStep DEF LockOK, InTransaction, Shape, TypeOK, appVars
<1>2. CASE ~(Call(p) \/ Transact(p) \/ Abort(p))
  <2>1. pc[p] \in InTransaction
    BY <1>2, OwnPlace
  <2> QED BY <1>2, <2>1, KeptByOthers DEF Kept, LockOK
<1> QED BY <1>1, <1>2

LEMMA NextPaths == Shape /\ LockOK /\ PathsOK /\ [Next]_vars => PathsOK'
<1> SUFFICES ASSUME Shape, LockOK, PathsOK, [Next]_vars,
                    NEW p \in Handlers, pc'[p] \in {"check", "finish"}
             PROVE  /\ paths'[p] # {}
                    /\ paths'[p] \subseteq boundary'[job'[p].app]
                    /\ job'[p].kind = "poll" =>
                          /\ request'[job'[p].req].app = job'[p].app
                          /\ instance'[job'[p].req][job'[p].key] = paths'[p]
  BY DEF PathsOK
<1>1. CASE Call(p) \/ Transact(p) \/ Abort(p)
  <2>1. CASE pc[p] = "resolve"
    BY <1>1, <2>1, OwnStep
       DEF Wanted, StoredFor, InTransaction, appVars, requestVars
  <2>2. CASE pc[p] = "check"
    BY <1>1, <2>2, OwnStep DEF PathsOK, InTransaction, appVars, requestVars
  <2> QED BY <1>1, <2>1, <2>2, OwnStep DEF InTransaction
<1>2. CASE ~(Call(p) \/ Transact(p) \/ Abort(p))
  <2>1. pc[p] \in {"check", "finish"}
    BY <1>2, OwnPlace
  <2>2. Kept(p)
    BY <1>2, <2>1, KeptByOthers DEF InTransaction
  <2>3. job[p].kind = "poll" => job[p].req \in Requests
    BY <2>1 DEF Shape, JobOK
  <2> QED BY <2>1, <2>2, <2>3 DEF Kept, PathsOK
<1> QED BY <1>1, <1>2

-----------------------------------------------------------------------------
(* Decisions and grants.                                                   *)

\* A request of the handler's application is raised or joined, and any grant
\* that has run out is withdrawn with it.
Raised(p, r) ==
    LET a == job[p].app
    IN  /\ \/ Pending(a) = {} /\ r \in Unused
           \/ r \in Pending(a)
        /\ request'[r].app = a /\ request'[r].status = "pending"
        /\ request'[r] = request[r] \/ request'[r].gen = gen[a]
        /\ \A s \in Requests \ {r} : request'[s] = request[s]
        /\ granted' = [granted EXCEPT ![a] = FALSE]

\* All a handler ever does to requests and grants.
LEMMA HandlerEffect ==
    ASSUME Shape, NEW p \in Handlers, Call(p) \/ Transact(p) \/ Abort(p)
    PROVE  /\ UNCHANGED <<token, enabled, boundary, gen, expires, live, clock>>
           /\ \/ UNCHANGED <<granted, request>>
              \/ pc[p] = "finish" /\ \E r \in Requests : Raised(p, r)
              \/ /\ pc[p] = "finish"
                 /\ granted' = [granted EXCEPT ![job[p].app] = FALSE]
                 /\ UNCHANGED request
<1> USE DEF appVars, requestVars
<1>1. ASSUME NEW why, Fail(p, why)
      PROVE  /\ UNCHANGED <<token, enabled, boundary, gen, expires, live, clock>>
             /\ UNCHANGED <<granted, request>>
  BY <1>1 DEF Fail
<1>2. CASE Call(p)
  BY <1>2 DEF Call, BeginAccess, BeginPoll, Begin
<1>3. CASE Authenticate(p)
  BY <1>1, <1>3 DEF Authenticate
<1>4. CASE ResolvePaths(p)
  BY <1>1, <1>4 DEF ResolvePaths
<1>5. CASE \E q \in Paths : CheckPath(p, q)
  BY <1>1, <1>5 DEF CheckPath
<1>6. CASE FinishAccess(p)
  <2>1. CASE Deliver(p)
    BY <2>1 DEF Deliver
  <2>2. ASSUME NEW r \in Requests, Enqueue(p, r)
        PROVE  \/ Fail(p, "conflict")
               \/ /\ Raised(p, r)
                  /\ UNCHANGED <<token, enabled, boundary, gen, expires,
                                 live, clock>>
    <3>1. pc[p] # "idle"
      BY <1>6 DEF FinishAccess
    <3> QED BY <2>2, <3>1, EnqueueRequest DEF Expire, Enqueue, Raised
  <2> QED BY <1>1, <1>6, <2>1, <2>2 DEF FinishAccess
<1>7. CASE FinishPoll(p)
  BY <1>7 DEF Expire, FinishPoll, Deliver
<1>8. CASE Respond(p) \/ Abort(p)
  BY <1>1, <1>8 DEF Respond, Abort
<1> QED BY <1>2, <1>3, <1>4, <1>5, <1>6, <1>7, <1>8 DEF Transact

Decided == OneDecision /\ FreshApproval

LEMMA HandlerDecision ==
    ASSUME Shape, LockOK, Decided,
           NEW p \in Handlers, Call(p) \/ Transact(p) \/ Abort(p)
    PROVE  Decided'
<1> USE DEF Decided, OneDecision, FreshApproval, Pending, Requested
<1>1. UNCHANGED <<gen, enabled>>
  BY HandlerEffect
<1>2. CASE UNCHANGED <<granted, request>>
  BY <1>1, <1>2
<1>3. ASSUME pc[p] = "finish", NEW r \in Requests, Raised(p, r)
      PROVE  Decided'
  <2> DEFINE a == job[p].app
  <2>1. a \in Apps /\ enabled[a]
    BY <1>3 DEF LockOK, InTransaction, Shape, JobOK
  <2>2. /\ request[r].status \notin {"approved"}
        /\ \A s \in Requests :
              request[s].app = a /\ request[s].status = "pending" => s = r
        /\ request[r].app \in Apps => request[r].app = a
    BY <1>3, <2>1 DEF Raised, Unused, Shape, RowOK
  <2>3. /\ request'[r].app = a /\ request'[r].status = "pending"
        /\ request'[r].gen = gen[a]
        /\ \A s \in Requests \ {r} : request'[s] = request[s]
        /\ granted'[a] = FALSE
        /\ \A b \in Apps \ {a} : granted'[b] = granted[b]
    <3>1. /\ request'[r].app = a /\ request'[r].status = "pending"
          /\ request'[r] = request[r] \/ request'[r].gen = gen[a]
          /\ \A s \in Requests \ {r} : request'[s] = request[s]
          /\ granted' = [granted EXCEPT ![a] = FALSE]
      BY <1>3 DEF Raised
    <3>2. request'[r] = request[r] => request[r].gen = gen[a]
      BY <3>1
    <3> HIDE DEF a
    <3> QED BY <2>1, <3>1, <3>2 DEF Shape, TypeOK
  <2> HIDE DEF a
  <2>4. OneDecision'
    <3> SUFFICES ASSUME NEW b \in Apps
                 PROVE  /\ \A s, t \in Requests :
                              /\ request'[s].app = b
                              /\ request'[s].status = "pending"
                              /\ request'[t].app = b
                              /\ request'[t].status = "pending"
                              => s = t
                        /\ \A s \in Requests :
                              /\ request'[s].app = b
                              /\ request'[s].status = "pending"
                              => ~granted'[b]
      OBVIOUS
    <3>1. CASE b = a
      BY <2>2, <2>3, <3>1
    <3>2. CASE b # a
      BY <2>2, <2>3, <3>2
    <3> QED BY <3>1, <3>2
  <2>5. FreshApproval'
    <3>1. ASSUME NEW s \in Requests,
                 request'[s].status \in {"pending", "approved"}
          PROVE  /\ request'[s].gen = gen'[request'[s].app]
                 /\ enabled'[request'[s].app]
      BY <1>1, <2>1, <2>3, <3>1
    <3>2. ASSUME NEW b \in Apps, granted'[b]
          PROVE  \E s \in Requests : /\ request'[s].app = b
                                     /\ request'[s].status = "approved"
      <4>1. b # a /\ granted[b]
        BY <2>3, <3>2
      <4>2. PICK s \in Requests : /\ request[s].app = b
                                  /\ request[s].status = "approved"
        BY <4>1
      <4>3. request'[s] = request[s]
        BY <2>2, <2>3, <4>2
      <4> QED BY <4>2, <4>3
    <3> QED BY <3>1, <3>2
  <2> QED BY <2>4, <2>5
<1>4. CASE /\ granted' = [granted EXCEPT ![job[p].app] = FALSE]
           /\ UNCHANGED request
  BY <1>1, <1>4 DEF Shape, TypeOK
<1> QED BY <1>2, <1>3, <1>4, HandlerEffect

LEMMA AdminDecision ==
    ASSUME Shape, Decided, NEW a \in Apps, Administer(a)
    PROVE  Decided'
<1> USE DEF Decided, OneDecision, FreshApproval, Pending, Requested
<1>1. CASE \/ \E b \in Boundaries : CreateApplication(a, b)
           \/ Enable(a)
  <2>1. /\ UNCHANGED <<granted, gen, request>>
        /\ enabled' = [enabled EXCEPT ![a] = TRUE]
    BY <1>1 DEF CreateApplication, Enable, requestVars
  <2> QED BY <2>1 DEF Shape, TypeOK, RowOK
<1>2. CASE /\ Revoke(a)
           /\ gen' = [gen EXCEPT ![a] = @ + 1]
           /\ \A b \in Apps \ {a} : enabled'[b] = enabled[b]
  <2>1. /\ ~granted'[a]
        /\ \A b \in Apps \ {a} : /\ granted'[b] = granted[b]
                                 /\ gen'[b] = gen[b]
                                 /\ enabled'[b] = enabled[b]
    BY <1>2 DEF Revoke, Shape, TypeOK
  <2>2. ASSUME NEW r \in Requests
        PROVE  /\ request'[r].app = request[r].app
               /\ request[r].app # a => request'[r] = request[r]
               /\ request[r].app = a =>
                     request'[r].status \notin {"pending", "approved"}
    BY <1>2 DEF Revoke, Shape, TypeOK
  <2>3. ASSUME NEW r \in Requests, request[r].status # "absent"
        PROVE  request[r].app \in Apps
    BY <2>3 DEF Shape, RowOK
  <2>4. OneDecision'
    BY <2>1, <2>2
  <2>5. FreshApproval'
    <3>1. ASSUME NEW r \in Requests,
                 request'[r].status \in {"pending", "approved"}
          PROVE  /\ request'[r].gen = gen'[request'[r].app]
                 /\ enabled'[request'[r].app]
      BY <2>1, <2>2, <2>3, <3>1
    <3>2. ASSUME NEW b \in Apps, granted'[b]
          PROVE  \E s \in Requests : /\ request'[s].app = b
                                     /\ request'[s].status = "approved"
      BY <2>1, <2>2, <3>2
    <3> QED BY <3>1, <3>2
  <2> QED BY <2>4, <2>5
<1>3. CASE \/ \E b \in Boundaries : EditPaths(a, b)
           \/ RotateToken(a) \/ Disable(a) \/ RevokeAccess(a)
  BY <1>2, <1>3 DEF EditPaths, RotateToken, Disable, RevokeAccess, Change,
                    Shape, TypeOK
<1> QED BY <1>1, <1>3 DEF Administer

LEMMA ResolveDecision ==
    ASSUME Shape, Decided,
           NEW r \in Requests, ApproveRequest(r) \/ DenyRequest(r)
    PROVE  Decided'
<1> USE DEF Decided, OneDecision, FreshApproval, Pending, Requested
<1> DEFINE a == request[r].app
<1>1. /\ a \in Apps /\ request[r].status = "pending" /\ enabled[a]
      /\ UNCHANGED <<enabled, gen>>
  BY DEF Decidable, ApproveRequest, DenyRequest, Settle, Shape, RowOK
<1>2. PICK status \in {"approved", "denied"} :
        /\ request' = [request EXCEPT ![r] =
                         [request[r] EXCEPT !.status = status]]
        /\ \/ status = "denied" /\ UNCHANGED granted
           \/ status = "approved" /\ granted' = [granted EXCEPT ![a] = TRUE]
  BY DEF ApproveRequest, DenyRequest, Settle
<1>3. /\ request'[r].app = a /\ request'[r].gen = request[r].gen
      /\ request'[r].status = status
      /\ \A s \in Requests \ {r} : request'[s] = request[s]
      /\ \A b \in Apps \ {a} : granted'[b] = granted[b]
      /\ granted'[a] => status = "approved"
  BY <1>1, <1>2 DEF Shape, TypeOK
<1> HIDE DEF a
<1>4. OneDecision'
  BY <1>1, <1>3 DEF a
<1>5. FreshApproval'
  <2>1. ASSUME NEW s \in Requests,
               request'[s].status \in {"pending", "approved"}
        PROVE  /\ request'[s].gen = gen'[request'[s].app]
               /\ enabled'[request'[s].app]
    BY <1>1, <1>3, <2>1 DEF a
  <2>2. ASSUME NEW b \in Apps, granted'[b]
        PROVE  \E s \in Requests : /\ request'[s].app = b
                                   /\ request'[s].status = "approved"
    <3>1. CASE b = a
      BY <1>3, <2>2, <3>1
    <3>2. CASE b # a
      BY <1>1, <1>3, <2>2, <3>2 DEF a
    <3> QED BY <3>1, <3>2
  <2> QED BY <2>1, <2>2
<1> QED BY <1>4, <1>5

LEMMA NextDecision == Shape /\ LockOK /\ Decided /\ [Next]_vars => Decided'
<1> SUFFICES ASSUME Shape, LockOK, Decided, [Next]_vars PROVE Decided'
  OBVIOUS
<1>1. CASE \/ \E q \in Paths : Publish(q) \/ Archive(q)
           \/ Tick
           \/ \E a \in Apps, t \in 1 .. MaxClock : SetExpiry(a, t)
           \/ UNCHANGED vars
  BY <1>1 DEF Publish, Archive, Tick, SetExpiry, vars, appVars, requestVars,
              Decided, OneDecision, FreshApproval, Pending, Requested
<1> QED
  BY <1>1, HandlerDecision, AdminDecision, ResolveDecision DEF Next

-----------------------------------------------------------------------------
(* The theorems.                                                           *)

IInv == Shape /\ LockOK /\ PathsOK /\ Decided

LEMMA InitIInv == Init => IInv
<1> SUFFICES ASSUME Init PROVE IInv
  OBVIOUS
<1>1. Shape
  BY InitShape
<1>2. LockOK /\ PathsOK
  BY DEF Init, LockOK, PathsOK, InTransaction
<1>3. Decided
  BY DEF Init, Decided, OneDecision, FreshApproval, Pending, Requested, NoRequest
<1> QED BY <1>1, <1>2, <1>3 DEF IInv

LEMMA NextIInv == IInv /\ [Next]_vars => IInv'
BY NextShape, NextLock, NextPaths, NextDecision DEF IInv

THEOREM Invariance == Spec => []IInv
BY InitIInv, NextIInv, PTL DEF Spec

\* However handlers and administrators interleave, a grant row is active only
\* when no request waits, so an approval never fails on one_active_grant.
THEOREM OneDecisionHolds == Spec => []OneDecision
<1>1. IInv => OneDecision
  BY DEF IInv, Decided
<1> QED BY <1>1, Invariance, PTL

\* No approval or request outlives a rotation, a disabling, an edit of the
\* boundary or a revocation.
THEOREM FreshApprovalHolds == Spec => []FreshApproval
<1>1. IInv => FreshApproval
  BY DEF IInv, Decided
<1> QED BY <1>1, Invariance, PTL

\* A handler answers "approved" only in its own last step, and then with a
\* grant in force at its transaction's start.
LEMMA ApprovedStep ==
    ASSUME Shape, [Next]_vars, NEW p \in Handlers, Answered(p, "approved")
    PROVE  /\ pc[p] = "finish"
           /\ HasGrant(job[p].app, job[p].now)
<1> USE DEF Answered
<1>1. Call(p) \/ Transact(p) \/ Abort(p)
  BY OwnPlace
<1>2. ASSUME NEW why \in Errors, Fail(p, why) PROVE FALSE
  BY <1>2 DEF Fail, Answer, Errors, Shape, TypeOK
<1>3. ~Call(p)
  BY DEF Call, BeginAccess, BeginPoll, Begin
<1>4. ~Authenticate(p) /\ ~ResolvePaths(p) /\ ~Abort(p)
  BY <1>2 DEF Authenticate, ResolvePaths, Abort, Errors
<1>5. ~\E q \in Paths : CheckPath(p, q)
  BY <1>2 DEF CheckPath, Errors
<1>6. ~Respond(p)
  BY DEF Respond, Shape, TypeOK
<1>7. CASE FinishAccess(p)
  <2>1. ASSUME NEW r \in Requests, Enqueue(p, r) PROVE FALSE
    BY <1>2, <2>1 DEF Enqueue, Answer, Errors, Shape, TypeOK
  <2> QED BY <1>7, <2>1 DEF FinishAccess
<1>8. CASE FinishPoll(p)
  BY <1>8 DEF Reported, FinishPoll, Answer, Shape, TypeOK
<1> QED BY <1>1, <1>3, <1>4, <1>5, <1>6, <1>7, <1>8 DEF Transact

\* Secrets leave only for the current token of an enabled application, under
\* a grant in force and inside the boundary of that very moment.
THEOREM DeliveryAuthorizedHolds == Spec => DeliveryAuthorized
<1> DEFINE Step == \A p \in Handlers : Answered(p, "approved") => Authorized(p)
<1>1. IInv /\ [Next]_vars => [Step]_vars
  <2> SUFFICES ASSUME IInv, [Next]_vars, NEW p \in Handlers,
                      Answered(p, "approved")
               PROVE  Authorized(p)
    OBVIOUS
  <2>1. pc[p] = "finish" /\ HasGrant(job[p].app, job[p].now)
    BY ApprovedStep DEF IInv
  <2> QED
    BY <2>1 DEF IInv, LockOK, PathsOK, InTransaction, HasGrant, Authorized
<1> QED BY <1>1, Invariance, PTL DEF Spec, DeliveryAuthorized

\* What may become of the decision on a request, and of its owner.
FinalAt(r) ==
    LET from == request[r].status
        to == request'[r].status
    IN  /\ from \in {"denied", "revoked"} => to = from
        /\ from = "approved" => to \in {"approved", "revoked"}
        /\ from # "absent" => /\ to # "absent"
                              /\ request'[r].app = request[r].app

LEMMA DecisionStep ==
    ASSUME Shape, [Next]_vars
    PROVE  \A r \in Requests : FinalAt(r)
<1> DEFINE Step == \A r \in Requests : FinalAt(r)
<1> USE DEF FinalAt
<1>1. CASE UNCHANGED request
  BY <1>1
<1>2. ASSUME NEW p \in Handlers, NEW r \in Requests, Raised(p, r) PROVE Step
  <2>1. /\ request'[r].app = job[p].app /\ request'[r].status = "pending"
        /\ \A s \in Requests \ {r} : request'[s] = request[s]
    BY <1>2 DEF Raised
  <2>2. \/ request[r].status = "absent"
        \/ request[r].status = "pending" /\ request[r].app = job[p].app
    BY <1>2 DEF Raised, Unused, Pending, Requested
  <2> QED BY <2>1, <2>2 DEF Shape, TypeOK
<1>3. ASSUME NEW a \in Apps, Revoke(a) PROVE Step
  BY <1>3 DEF Revoke, Shape, TypeOK
<1>4. ASSUME NEW r \in Requests, ApproveRequest(r) \/ DenyRequest(r)
      PROVE  Step
  <2>1. /\ request[r].status = "pending"
        /\ \E status \in {"approved", "denied"} :
              request' = [request EXCEPT ![r] =
                            [request[r] EXCEPT !.status = status]]
    BY <1>4 DEF Decidable, ApproveRequest, DenyRequest, Settle
  <2> QED BY <2>1 DEF Shape, TypeOK
<1>5. ASSUME NEW p \in Handlers, Call(p) \/ Transact(p) \/ Abort(p)
      PROVE  Step
  BY <1>1, <1>2, <1>5, HandlerEffect
<1>6. ASSUME NEW a \in Apps, Administer(a) PROVE Step
  BY <1>1, <1>3, <1>6
     DEF Administer, CreateApplication, EditPaths, RotateToken, Disable,
         RevokeAccess, Enable, Change, requestVars
<1> QED
  BY <1>1, <1>4, <1>5, <1>6
     DEF Next, Publish, Archive, Tick, SetExpiry, vars, requestVars

\* A decision, once taken, is only ever withdrawn.
THEOREM DecisionsFinalHolds == Spec => DecisionsFinal
<1> DEFINE Step == \A r \in Requests : FinalAt(r)
<1>1. IInv /\ [Next]_vars => [Step]_vars
  BY DecisionStep DEF IInv
<1>2. Spec => [][Step]_vars
  BY <1>1, Invariance, PTL DEF Spec
<1> QED BY <1>2 DEF DecisionsFinal, FinalAt
-----------------------------------------------------------------------------
(* What is needed besides IInv.                                            *)

\* A transaction began when its now() says, and not later.
NowOK == \A p \in Handlers : job[p].now <= clock

\* Only an application that was created is enabled.
ExistsOK == \A a \in Apps : enabled[a] => token[a] # 0

\* An answer stands from the last step of a transaction to Respond.
ReplyOK == \A p \in Handlers : reply[p] \in {"approved", "waiting"} => pc[p] = "done"

\* A handle that was given out has paths, the ones the handler resolved.
HandleOK ==
    \A p \in Handlers : reply[p] = "waiting" =>
        /\ job[p].req \in Requests /\ job[p].key \in Keys
        /\ paths[p] # {}
        /\ instance[job[p].req][job[p].key] = paths[p]

RInv == IInv /\ NowOK /\ ExistsOK /\ ReplyOK

-----------------------------------------------------------------------------
(* Every step of a handler is one of four.                                 *)

\* It changes no table that an approval depends on ...
Calm(p) ==
    /\ UNCHANGED <<granted, request, trail>>
    /\ reply'[p] # "approved"

\* ... or it delivers ...
Delivers(p) ==
    /\ UNCHANGED <<granted, request, trail>>
    /\ pc[p] = "finish"
    /\ reply'[p] = "approved"
    /\ HasGrant(job[p].app, job[p].now)

\* ... or raises or joins a request ...
Raises(p, r) ==
    /\ Raised(p, r)
    /\ pc[p] = "finish"
    /\ reply'[p] # "approved"
    /\ ~HasGrant(job[p].app, job[p].now)
    /\ IF Pending(job[p].app) = {}
         THEN Audit(job[p].app, "ACCESS_REQUESTED")
         ELSE UNCHANGED trail

\* ... or finds that the grant behind a handle is gone.
Lapses(p) ==
    /\ UNCHANGED <<request, trail>>
    /\ granted' = [granted EXCEPT ![job[p].app] = FALSE]
    /\ pc[p] = "finish"
    /\ reply'[p] # "approved"
    /\ ~HasGrant(job[p].app, job[p].now)

LEMMA HandlerSteps ==
    ASSUME Shape, ReplyOK, NEW p \in Handlers, Call(p) \/ Transact(p) \/ Abort(p)
    PROVE  /\ UNCHANGED <<token, enabled, expires, clock>>
           /\ \A q \in Handlers \ {p} : reply'[q] = reply[q]
           /\ \/ Calm(p) \/ Delivers(p) \/ Lapses(p)
              \/ \E r \in Requests : Raises(p, r)
<1> USE DEF appVars, requestVars
<1>0. UNCHANGED <<token, enabled, expires, clock>>
  BY HandlerEffect
<1>1. ASSUME NEW why \in Errors, Fail(p, why)
      PROVE  Calm(p) /\ \A q \in Handlers \ {p} : reply'[q] = reply[q]
  BY <1>1 DEF Fail, Answer, Calm, Errors, Shape, TypeOK
<1>2. CASE Call(p)
  BY <1>0, <1>2 DEF Call, BeginAccess, BeginPoll, Begin, Calm, ReplyOK
<1>3. CASE Authenticate(p)
  BY <1>0, <1>1, <1>3 DEF Authenticate, Errors, Calm, ReplyOK
<1>4. CASE ResolvePaths(p)
  BY <1>0, <1>1, <1>4 DEF ResolvePaths, Errors, Calm, ReplyOK
<1>5. CASE \E q \in Paths : CheckPath(p, q)
  BY <1>0, <1>1, <1>5 DEF CheckPath, Errors, Calm, ReplyOK
<1>6. CASE FinishAccess(p)
  <2>1. CASE HasGrant(job[p].app, job[p].now) /\ Deliver(p)
    BY <1>0, <1>6, <2>1 DEF FinishAccess, Deliver, Answer, Delivers, Shape, TypeOK
  <2>2. ASSUME NEW r \in Requests, ~HasGrant(job[p].app, job[p].now),
               Enqueue(p, r), ~Fail(p, "conflict")
        PROVE  Raises(p, r) /\ \A q \in Handlers \ {p} : reply'[q] = reply[q]
    <3>1. pc[p] = "finish"
      BY <1>6 DEF FinishAccess
    <3>2. Answer(p, "waiting")
      BY <2>2 DEF Enqueue
    <3>3. reply'[p] = "waiting" /\ \A q \in Handlers \ {p} : reply'[q] = reply[q]
      BY <3>2 DEF Answer, Shape, TypeOK
    <3>4. Raised(p, r)
      BY <2>2, <3>1, EnqueueRequest DEF Expire, Enqueue, Raised
    <3>5. IF Pending(job[p].app) = {}
            THEN Audit(job[p].app, "ACCESS_REQUESTED")
            ELSE UNCHANGED trail
      BY <2>2 DEF Enqueue
    <3> QED BY <2>2, <3>1, <3>3, <3>4, <3>5 DEF Raises
  <2> QED BY <1>0, <1>1, <1>6, <2>1, <2>2 DEF FinishAccess, Errors
<1>7. CASE FinishPoll(p)
  <2>1. pc[p] = "finish"
    BY <1>7 DEF FinishPoll
  <2>2. CASE /\ request[job[p].req].status \in {"pending", "denied", "revoked"}
             /\ Answer(p, Reported(request[job[p].req].status))
             /\ UNCHANGED <<granted, request, trail>>
    <3>1. Reported(request[job[p].req].status) \in {"waiting", "denied", "revoked"}
      BY <2>2 DEF Reported
    <3> QED BY <1>0, <2>2, <3>1 DEF Answer, Calm, Shape, TypeOK
  <2>3. CASE HasGrant(job[p].app, job[p].now) /\ Deliver(p)
    BY <1>0, <2>1, <2>3 DEF Deliver, Answer, Delivers, Shape, TypeOK
  <2>4. CASE /\ ~HasGrant(job[p].app, job[p].now)
             /\ Expire(job[p].app) /\ Answer(p, "revoked")
             /\ UNCHANGED <<request, trail>>
    BY <1>0, <2>1, <2>4 DEF Expire, Answer, Lapses, Shape, TypeOK
  <2> QED BY <1>7, <2>2, <2>3, <2>4 DEF FinishPoll
<1>8. CASE Respond(p)
  BY <1>0, <1>8 DEF Respond, Calm, Shape, TypeOK
<1>9. CASE Abort(p)
  BY <1>0, <1>1, <1>9 DEF Abort, Errors
<1> QED BY <1>2, <1>3, <1>4, <1>5, <1>6, <1>7, <1>8, <1>9 DEF Transact

-----------------------------------------------------------------------------
(* RInv is inductive.                                                      *)

\* The clock never goes back.
LEMMA ClockRuns ==
    ASSUME Shape, [Next]_vars
    PROVE  clock' \in 0 .. MaxClock /\ clock <= clock'
<1>1. clock' = clock \/ clock' = clock + 1
  <2>1. ASSUME NEW p \in Handlers, Call(p) \/ Transact(p) \/ Abort(p)
        PROVE  clock' = clock
    BY <2>1, HandlerEffect
  <2>2. ASSUME NEW a \in Apps, Administer(a) PROVE clock' = clock
    BY <2>2 DEF Administer, CreateApplication, EditPaths, RotateToken, Disable,
                RevokeAccess, Enable, Change
  <2>3. CASE \/ \E r \in Requests : ApproveRequest(r) \/ DenyRequest(r)
             \/ \E q \in Paths : Publish(q) \/ Archive(q)
             \/ Tick
             \/ \E a \in Apps, t \in 1 .. MaxClock : SetExpiry(a, t)
             \/ UNCHANGED vars
    BY <2>3 DEF ApproveRequest, DenyRequest, Settle, Publish, Archive, Tick,
                SetExpiry, vars
  <2> QED BY <2>1, <2>2, <2>3 DEF Next
<1>2. clock \in 0 .. MaxClock /\ clock' \in 0 .. MaxClock
  BY NextShape DEF Shape, TypeOK
<1> QED BY <1>1, <1>2

LEMMA NextNow == Shape /\ NowOK /\ [Next]_vars => NowOK'
<1> SUFFICES ASSUME Shape, NowOK, [Next]_vars, NEW p \in Handlers
             PROVE  job'[p].now <= clock'
  BY DEF NowOK
<1>1. /\ clock \in Nat /\ clock' \in Nat /\ clock <= clock'
      /\ job[p] \in Jobs /\ job[p].now \in Nat /\ job[p].now <= clock
      /\ job \in [Handlers -> Jobs]
  BY ClockRuns, BoundAssumption DEF Shape, TypeOK, Jobs, NowOK
<1>2. ASSUME job'[p].now \in {0, clock, job[p].now}
      PROVE  job'[p].now <= clock'
  BY <1>1, <1>2
<1>3. CASE UNCHANGED job
  BY <1>2, <1>3
<1>4. CASE Call(p)
  BY <1>1, <1>2, <1>4 DEF Call, BeginAccess, BeginPoll, Begin
<1>5. CASE Respond(p)
  BY <1>1, <1>2, <1>5 DEF Respond, NoJob
<1>6. ASSUME NEW r \in Requests, Enqueue(p, r) PROVE job'[p].now <= clock'
  <2>1. CASE Fail(p, "conflict")
    BY <1>3, <2>1 DEF Fail
  <2>2. CASE ~Fail(p, "conflict")
    <3>1. job' = [job EXCEPT ![p] = [job[p] EXCEPT !.req = r]]
      BY <1>6, <2>2 DEF Enqueue
    <3>2. \A j \in Jobs : [j EXCEPT !.req = r].now = j.now
      BY DEF Jobs
    <3>3. job'[p] = [job[p] EXCEPT !.req = r]
      BY <1>1, <3>1
    <3> QED BY <1>1, <1>2, <3>2, <3>3
  <2> QED BY <2>1, <2>2
<1>7. CASE Transact(p) \/ Abort(p)
  BY <1>3, <1>5, <1>6, <1>7
     DEF Transact, Authenticate, ResolvePaths, CheckPath, FinishAccess,
         FinishPoll, Deliver, Abort, Fail
<1>8. CASE ~(Call(p) \/ Transact(p) \/ Abort(p))
  BY <1>2, <1>8, OwnPlace
<1> QED BY <1>4, <1>7, <1>8

LEMMA NextExists == Shape /\ ExistsOK /\ [Next]_vars => ExistsOK'
<1> SUFFICES ASSUME Shape, ExistsOK, [Next]_vars PROVE ExistsOK'
  OBVIOUS
<1>1. CASE UNCHANGED <<token, enabled>>
  BY <1>1 DEF ExistsOK
<1>2. ASSUME NEW p \in Handlers, Call(p) \/ Transact(p) \/ Abort(p)
      PROVE  ExistsOK'
  BY <1>1, <1>2, HandlerEffect
<1>3. ASSUME NEW a \in Apps, Administer(a) PROVE ExistsOK'
  <2>1. /\ token' = token \/ \E n \in Nat \ {0} : token' = [token EXCEPT ![a] = n]
        /\ \/ enabled' = enabled
           \/ enabled' = [enabled EXCEPT ![a] = FALSE]
           \/ enabled' = [enabled EXCEPT ![a] = TRUE] /\ token'[a] # 0
    BY <1>3 DEF Administer, CreateApplication, EditPaths, RotateToken, Disable,
                RevokeAccess, Enable, Change, Exists, Shape, TypeOK
  <2> QED BY <2>1 DEF ExistsOK, Shape, TypeOK
<1> QED
  BY <1>1, <1>2, <1>3
     DEF Next, ApproveRequest, DenyRequest, Settle, Publish, Archive, Tick,
         SetExpiry, vars, appVars

LEMMA NextReply == Shape /\ ReplyOK /\ [Next]_vars => ReplyOK'
<1> SUFFICES ASSUME Shape, ReplyOK, [Next]_vars, NEW p \in Handlers,
                    reply'[p] \in {"approved", "waiting"}
             PROVE  pc'[p] = "done"
  BY DEF ReplyOK
<1> USE DEF Shape, TypeOK
<1>1. ASSUME NEW r, Answer(p, r) PROVE pc'[p] = "done"
  BY <1>1 DEF Answer
<1>2. CASE Call(p)
  BY <1>2 DEF Call, BeginAccess, BeginPoll, Begin, ReplyOK
<1>3. CASE Authenticate(p) \/ ResolvePaths(p) \/ \E q \in Paths : CheckPath(p, q)
  BY <1>1, <1>3 DEF Authenticate, ResolvePaths, CheckPath, Fail, ReplyOK
<1>4. CASE FinishAccess(p) \/ FinishPoll(p) \/ Abort(p)
  BY <1>1, <1>4 DEF FinishAccess, FinishPoll, Abort, Fail, Deliver, Enqueue
<1>5. CASE Respond(p)
  BY <1>5 DEF Respond
<1>6. CASE ~(Call(p) \/ Transact(p) \/ Abort(p))
  BY <1>6, OwnPlace DEF ReplyOK
<1> QED BY <1>2, <1>3, <1>4, <1>5, <1>6 DEF Transact

LEMMA InitRInv == Init => RInv
<1> SUFFICES ASSUME Init PROVE RInv
  OBVIOUS
<1>1. NowOK
  BY DEF Init, NowOK, NoJob
<1>2. ExistsOK /\ ReplyOK
  BY DEF Init, ExistsOK, ReplyOK
<1> QED BY <1>1, <1>2, InitIInv DEF RInv

LEMMA NextRInv == RInv /\ [Next]_vars => RInv'
BY NextIInv, NextNow, NextExists, NextReply DEF RInv, IInv

-----------------------------------------------------------------------------
(* A handle stands for what was asked.                                     *)

\* A row of request_instances keeps the paths it was made with.
LEMMA StoredForGood ==
    ASSUME Shape, [Next]_vars, NEW r \in Requests, NEW k \in Keys,
           instance[r][k] # {}
    PROVE  instance'[r][k] = instance[r][k]
<1>1. CASE UNCHANGED instance
  BY <1>1
<1>2. ASSUME NEW p \in Handlers, NEW s \in Requests, Enqueue(p, s)
      PROVE  instance'[r][k] = instance[r][k]
  <2>1. CASE Fail(p, "conflict")
    BY <1>1, <2>1 DEF Fail, requestVars
  <2>2. CASE ~Fail(p, "conflict")
    <3>1. instance' = [instance EXCEPT ![s] =
             [instance[s] EXCEPT ![job[p].key] =
                IF instance[s][job[p].key] = {} THEN paths[p]
                                                ELSE instance[s][job[p].key]]]
      BY <1>2, <2>2 DEF Enqueue
    <3> QED BY <3>1 DEF Shape, TypeOK
  <2> QED BY <2>1, <2>2
<1>3. ASSUME NEW p \in Handlers, Call(p) \/ Transact(p) \/ Abort(p)
      PROVE  instance'[r][k] = instance[r][k]
  BY <1>1, <1>2, <1>3
     DEF Call, BeginAccess, BeginPoll, Begin, Transact, Authenticate,
         ResolvePaths, CheckPath, FinishAccess, FinishPoll, Deliver, Respond,
         Abort, Fail, requestVars
<1>4. ASSUME NEW a \in Apps, Administer(a) PROVE UNCHANGED instance
  BY <1>4 DEF Administer, CreateApplication, EditPaths, RotateToken, Disable,
              RevokeAccess, Enable, Change, requestVars
<1> QED
  BY <1>1, <1>3, <1>4
     DEF Next, ApproveRequest, DenyRequest, Settle, Publish, Archive, Tick,
         SetExpiry, vars, requestVars

LEMMA NextHandle == RInv /\ HandleOK /\ [Next]_vars => HandleOK'
<1> SUFFICES ASSUME RInv, HandleOK, [Next]_vars, NEW p \in Handlers,
                    reply'[p] = "waiting"
             PROVE  /\ job'[p].req \in Requests /\ job'[p].key \in Keys
                    /\ paths'[p] # {}
                    /\ instance'[job'[p].req][job'[p].key] = paths'[p]
  BY DEF HandleOK
<1>0. Shape /\ ReplyOK /\ PathsOK
  BY DEF RInv, IInv
<1>1. CASE ~(Call(p) \/ Transact(p) \/ Abort(p))
  BY <1>0, <1>1, OwnPlace, StoredForGood DEF HandleOK
<1>2. ASSUME pc[p] # "done" PROVE reply[p] # "waiting"
  BY <1>0, <1>2 DEF ReplyOK
<1>3. ASSUME NEW why \in Errors, Fail(p, why) PROVE FALSE
  BY <1>0, <1>3 DEF Fail, Answer, Errors, Shape, TypeOK
<1>4. ~Call(p)
  BY <1>2 DEF Call, BeginAccess, BeginPoll, Begin
<1>5. ~Authenticate(p) /\ ~ResolvePaths(p) /\ ~Abort(p)
  BY <1>2, <1>3 DEF Authenticate, ResolvePaths, Abort, Errors
<1>6. ~\E q \in Paths : CheckPath(p, q)
  BY <1>2, <1>3 DEF CheckPath, Errors
<1>7. ~Respond(p) /\ ~Deliver(p)
  BY <1>0 DEF Respond, Deliver, Answer, Shape, TypeOK
<1>8. ASSUME pc[p] = "finish"
      PROVE  paths[p] # {} /\ job[p].key \in Keys /\ job[p] \in Jobs
  BY <1>0, <1>8 DEF PathsOK, Shape, TypeOK, JobOK
<1>9. CASE FinishAccess(p)
  <2>1. PICK r \in Requests : Enqueue(p, r) /\ ~Fail(p, "conflict")
    BY <1>3, <1>7, <1>9 DEF FinishAccess, Errors
  <2>2. pc[p] = "finish"
    BY <1>9 DEF FinishAccess
  <2> DEFINE k == job[p].key
  <2>3. /\ job' = [job EXCEPT ![p] = [job[p] EXCEPT !.req = r]]
        /\ instance' = [instance EXCEPT ![r] =
              [instance[r] EXCEPT ![k] =
                 IF instance[r][k] = {} THEN paths[p] ELSE instance[r][k]]]
        /\ instance[r][k] \in {{}, paths[p]}
        /\ paths' = paths
    BY <2>1 DEF Enqueue, Agrees
  <2>4. job'[p].req = r /\ job'[p].key = k
    BY <1>0, <1>8, <2>2, <2>3, JobType DEF Shape, TypeOK
  <2>5. instance'[r][k] = paths[p]
    BY <1>0, <1>8, <2>2, <2>3 DEF Shape, TypeOK
  <2> QED BY <1>8, <2>2, <2>3, <2>4, <2>5
<1>10. CASE FinishPoll(p)
  <2>1. /\ pc[p] = "finish" /\ job[p].kind = "poll"
        /\ UNCHANGED <<job, paths, instance>>
    BY <1>7, <1>10 DEF FinishPoll, requestVars
  <2> QED BY <1>0, <1>8, <2>1 DEF PathsOK, Shape, JobOK
<1> QED BY <1>1, <1>4, <1>5, <1>6, <1>7, <1>9, <1>10 DEF Transact

\* The handle a caller is told to poll stands for exactly the paths it asked
\* for: no later request, of its own or of another handler, changes the row.
THEOREM HandleIsExactHolds == Spec => []HandleIsExact
<1>1. Init => HandleOK
  BY DEF Init, HandleOK
<1>2. HandleOK => HandleIsExact
  BY DEF HandleOK, HandleIsExact
<1> QED BY <1>1, <1>2, InitRInv, NextRInv, NextHandle, PTL DEF Spec

-----------------------------------------------------------------------------
(* The audit log tells what the tables say.                                *)

\* What one event adds to the log of one application.
LEMMA AuditEffect ==
    ASSUME Shape, NEW a \in Apps, NEW event \in Events, Audit(a, event)
    PROVE  /\ \A b \in Apps \ {a} : trail'[b] = trail[b]
           /\ trail'[a].enabled <=>
                 \/ event \in {"APPLICATION_CREATED", "APPLICATION_ENABLED"}
                 \/ trail[a].enabled /\ event # "APPLICATION_DISABLED"
           /\ trail'[a].waiting <=>
                 \/ event = "ACCESS_REQUESTED"
                 \/ trail[a].waiting /\ event \notin Withdrawals
                       /\ event \notin {"ACCESS_APPROVED", "ACCESS_DENIED"}
           /\ trail'[a].granted <=>
                 \/ event = "ACCESS_APPROVED"
                 \/ trail[a].granted /\ event \notin Withdrawals
                       /\ event # "ACCESS_REQUESTED"
BY DEF Audit, Replay, Shape, TypeOK, Trails

\* A transaction that finds no grant in force finds one that has run out by
\* the clock, or none: now() is not later than the clock.
LEMMA NoGrantInForce ==
    ASSUME RInv, NEW p \in Handlers, pc[p] = "finish",
           ~HasGrant(job[p].app, job[p].now)
    PROVE  /\ job[p].app \in Apps
           /\ granted[job[p].app] => expires[job[p].app] <= clock
<1>1. /\ job[p].app \in Apps /\ job[p] \in Jobs
      /\ expires \in [Apps -> 0 .. Never] /\ clock \in 0 .. MaxClock
      /\ job[p].now <= clock
  BY DEF RInv, IInv, Shape, TypeOK, JobOK, NowOK
<1>2. /\ job[p].now \in Nat /\ expires[job[p].app] \in Nat /\ clock \in Nat
  BY <1>1, BoundAssumption DEF Jobs, Never
<1> QED BY <1>1, <1>2 DEF HasGrant

\* Raising or joining a request concerns the rows of one application.
LEMMA RaisedRows ==
    ASSUME Shape, NEW p \in Handlers, NEW r \in Requests, Raises(p, r),
           NEW a \in Apps, a = job[p].app
    PROVE  /\ r \in Pending(a)' /\ ~granted'[a]
           /\ \A b \in Apps \ {a} : /\ Pending(b)' = Pending(b)
                                    /\ granted'[b] = granted[b]
<1>1. /\ request'[r].app = a /\ request'[r].status = "pending"
      /\ \A s \in Requests \ {r} : request'[s] = request[s]
      /\ granted' = [granted EXCEPT ![a] = FALSE]
      /\ request[r].app \in Apps => request[r].app = a
  BY DEF Raises, Raised, Unused, Pending, Requested, Shape, RowOK
<1>2. \A b \in Apps \ {a} : Pending(b)' = Pending(b)
  BY <1>1 DEF Pending, Requested
<1>3. ~granted'[a] /\ \A b \in Apps \ {a} : granted'[b] = granted[b]
  BY <1>1 DEF Shape, TypeOK
<1>4. r \in Pending(a)'
  BY <1>1 DEF Pending, Requested
<1> QED BY <1>2, <1>3, <1>4

\* Withdrawing concerns the rows of one application.
LEMMA RevokedRows ==
    ASSUME Shape, NEW a \in Apps, Revoke(a)
    PROVE  /\ Pending(a)' = {} /\ ~granted'[a]
           /\ \A b \in Apps \ {a} : /\ Pending(b)' = Pending(b)
                                    /\ granted'[b] = granted[b]
BY DEF Revoke, Pending, Requested, Shape, TypeOK

\* Deciding ends the waiting of the one application it is about.
LEMMA SettledRows ==
    ASSUME Shape, OneDecision, NEW r \in Requests, NEW event \in Events,
           NEW status \in {"approved", "denied"}, Settle(r, status, event),
           NEW a \in Apps, a = request[r].app
    PROVE  /\ enabled[a] /\ ~granted[a]
           /\ r \in Pending(a) /\ Pending(a)' = {}
           /\ \A b \in Apps \ {a} : Pending(b)' = Pending(b)
<1>1. /\ request[r].status = "pending" /\ enabled[a]
      /\ request' = [request EXCEPT ![r] = [request[r] EXCEPT !.status = status]]
  BY DEF Settle, Decidable
<1>2. /\ request'[r].app = a /\ request'[r].status = status
      /\ \A s \in Requests \ {r} : request'[s] = request[s]
  BY <1>1 DEF Shape, TypeOK
<1>3. r \in Pending(a)
  BY <1>1 DEF Pending, Requested
<1>4. ~granted[a] /\ \A s \in Pending(a) : s = r
  BY <1>3 DEF OneDecision
<1>5. Pending(a)' = {}
  BY <1>2, <1>4 DEF Pending, Requested
<1>6. \A b \in Apps \ {a} : Pending(b)' = Pending(b)
  BY <1>1, <1>2 DEF Pending, Requested
<1> QED BY <1>1, <1>3, <1>4, <1>5, <1>6

\* The log agrees with the tables about one application.
Agreed(a) ==
    /\ trail[a].enabled = enabled[a]
    /\ trail[a].waiting <=> Pending(a) # {}
    /\ granted[a] => trail[a].granted
    /\ trail[a].granted => granted[a] \/ expires[a] <= clock

\* Where no row of the application and no event changes, time alone does no
\* harm.
LEMMA AgreedStays ==
    ASSUME Shape, [Next]_vars, NEW a \in Apps, Agreed(a),
           trail'[a] = trail[a], enabled'[a] = enabled[a],
           Pending(a)' = Pending(a), granted'[a] = granted[a],
           expires'[a] = expires[a]
    PROVE  Agreed(a)'
<1>1. /\ expires[a] \in Nat /\ clock \in Nat /\ clock' \in Nat
      /\ clock <= clock'
  BY ClockRuns, BoundAssumption DEF Shape, TypeOK, Never
<1>2. expires[a] <= clock => expires'[a] <= clock'
  BY <1>1
<1> QED BY <1>2 DEF Agreed

LEMMA HandlerTrail ==
    ASSUME RInv, [Next]_vars, \A a \in Apps : Agreed(a),
           NEW p \in Handlers, Call(p) \/ Transact(p) \/ Abort(p),
           NEW b \in Apps
    PROVE  Agreed(b)'
<1>0. Shape /\ ReplyOK /\ OneDecision
  BY DEF RInv, IInv, Decided
<1>1. UNCHANGED <<enabled, expires, clock>>
  BY <1>0, HandlerSteps, HandlerEffect
<1>2. CASE Calm(p) \/ Delivers(p)
  <2>1. UNCHANGED <<granted, request, trail>>
    BY <1>2 DEF Calm, Delivers
  <2>2. Pending(b)' = Pending(b)
    BY <2>1 DEF Pending, Requested
  <2> QED BY <1>0, <1>1, <2>1, <2>2, AgreedStays
<1>3. ASSUME NEW r \in Requests, Raises(p, r) PROVE Agreed(b)'
  <2>1. PICK a \in Apps : a = job[p].app
    BY <1>0, <1>3 DEF Raises, Shape, JobOK
  <2>2. /\ r \in Pending(a)' /\ ~granted'[a]
        /\ \A x \in Apps \ {a} : /\ Pending(x)' = Pending(x)
                                 /\ granted'[x] = granted[x]
    BY <1>0, <1>3, <2>1, RaisedRows
  <2>3. CASE Pending(a) = {}
    <3>1. Audit(a, "ACCESS_REQUESTED")
      BY <1>3, <2>1, <2>3 DEF Raises
    <3>2. /\ "ACCESS_REQUESTED" \in Events
          /\ "ACCESS_REQUESTED" \notin Withdrawals
      BY DEF Events, Withdrawals
    <3>3. /\ \A x \in Apps \ {a} : trail'[x] = trail[x]
          /\ trail'[a].enabled <=> trail[a].enabled
          /\ trail'[a].waiting /\ ~trail'[a].granted
      BY <1>0, <3>1, <3>2, AuditEffect
    <3>4. CASE b = a
      <4>1. /\ trail[a].enabled = enabled[a] /\ enabled'[a] = enabled[a]
            /\ trail[a].enabled \in BOOLEAN /\ trail'[a].enabled \in BOOLEAN
        BY <1>0, <1>1, NextShape DEF Agreed, Shape, TypeOK, Trails
      <4>2. trail'[a].enabled = enabled'[a]
        BY <3>3, <4>1
      <4> QED BY <2>2, <3>3, <3>4, <4>2 DEF Agreed
    <3>5. CASE b # a
      BY <1>0, <1>1, <2>2, <3>3, <3>5, AgreedStays
    <3> QED BY <3>4, <3>5
  <2>4. CASE Pending(a) # {}
    <3>1. UNCHANGED trail /\ ~granted[a]
      BY <1>0, <1>3, <2>1, <2>4 DEF Raises, OneDecision
    <3>2. CASE b = a
      BY <1>1, <2>2, <2>4, <3>1, <3>2 DEF Agreed
    <3>3. CASE b # a
      BY <1>0, <1>1, <2>2, <3>1, <3>3, AgreedStays
    <3> QED BY <3>2, <3>3
  <2> QED BY <2>3, <2>4
<1>4. CASE Lapses(p)
  <2>1. PICK a \in Apps : a = job[p].app /\ (granted[a] => expires[a] <= clock)
    BY <1>4, NoGrantInForce DEF Lapses
  <2>2. /\ UNCHANGED <<request, trail>>
        /\ granted' = [granted EXCEPT ![a] = FALSE]
    BY <1>4, <2>1 DEF Lapses
  <2>3. Pending(b)' = Pending(b)
    BY <2>2 DEF Pending, Requested
  <2>4. CASE b = a
    <3>1. ~granted'[a]
      BY <1>0, <2>2 DEF Shape, TypeOK
    <3> QED BY <1>1, <2>1, <2>2, <2>3, <2>4, <3>1 DEF Agreed
  <2>5. CASE b # a
    <3>1. granted'[b] = granted[b]
      BY <1>0, <2>2, <2>5 DEF Shape, TypeOK
    <3> QED BY <1>0, <1>1, <2>2, <2>3, <3>1, AgreedStays
  <2> QED BY <2>4, <2>5
<1> QED BY <1>0, <1>2, <1>3, <1>4, HandlerSteps

LEMMA AdminTrail ==
    ASSUME RInv, [Next]_vars, \A a \in Apps : Agreed(a),
           NEW a \in Apps, Administer(a), NEW b \in Apps
    PROVE  Agreed(b)'
<1>0. Shape
  BY DEF RInv, IInv
<1>1. /\ trail[a].enabled \in BOOLEAN /\ trail'[a].enabled \in BOOLEAN
      /\ enabled[a] \in BOOLEAN /\ trail[a].enabled = enabled[a]
      /\ enabled \in [Apps -> BOOLEAN]
  BY <1>0, NextShape DEF Agreed, Shape, TypeOK, Trails
<1>2. CASE \/ \E x \in Boundaries : CreateApplication(a, x)
           \/ Enable(a)
  <2>1. /\ enabled' = [enabled EXCEPT ![a] = TRUE]
        /\ UNCHANGED <<granted, expires, request, clock>>
        /\ Audit(a, "APPLICATION_CREATED") \/ Audit(a, "APPLICATION_ENABLED")
    BY <1>2 DEF CreateApplication, Enable, requestVars
  <2>2. PICK event \in {"APPLICATION_CREATED", "APPLICATION_ENABLED"} :
          Audit(a, event)
    BY <2>1
  <2>3. event \in Events \ Withdrawals
    BY DEF Events, Withdrawals
  <2>4. /\ \A x \in Apps \ {a} : trail'[x] = trail[x]
        /\ trail'[a].enabled
        /\ trail'[a].waiting <=> trail[a].waiting
        /\ trail'[a].granted <=> trail[a].granted
    BY <1>0, <2>2, <2>3, AuditEffect
  <2>5. Pending(b)' = Pending(b)
    BY <2>1 DEF Pending, Requested
  <2>6. CASE b = a
    BY <1>1, <2>1, <2>4, <2>5, <2>6 DEF Agreed
  <2>7. CASE b # a
    BY <1>0, <1>1, <2>1, <2>4, <2>5, <2>7, AgreedStays
  <2> QED BY <2>6, <2>7
<1>3. ASSUME NEW event \in Withdrawals, Change(a, event),
             \/ UNCHANGED enabled /\ event # "APPLICATION_DISABLED"
             \/ /\ enabled' = [enabled EXCEPT ![a] = FALSE]
                /\ event = "APPLICATION_DISABLED"
      PROVE  Agreed(b)'
  <2>1. Revoke(a) /\ Audit(a, event) /\ UNCHANGED <<expires, clock>>
    BY <1>3 DEF Change
  <2>2. /\ Pending(a)' = {} /\ ~granted'[a]
        /\ \A x \in Apps \ {a} : /\ Pending(x)' = Pending(x)
                                 /\ granted'[x] = granted[x]
    BY <1>0, <2>1, RevokedRows
  <2>3. /\ event \in Events
        /\ event \notin {"APPLICATION_CREATED", "APPLICATION_ENABLED",
                         "ACCESS_REQUESTED", "ACCESS_APPROVED"}
    BY DEF Events, Withdrawals
  <2>4. /\ \A x \in Apps \ {a} : trail'[x] = trail[x]
        /\ trail'[a].enabled <=> trail[a].enabled /\ event # "APPLICATION_DISABLED"
        /\ ~trail'[a].waiting /\ ~trail'[a].granted
    BY <1>0, <1>3, <2>1, <2>3, AuditEffect
  <2>5. CASE b = a
    <3>1. trail'[a].enabled = enabled'[a]
      BY <1>1, <1>3, <2>4
    <3> QED BY <2>2, <2>4, <2>5, <3>1 DEF Agreed
  <2>6. CASE b # a
    <3>1. enabled'[b] = enabled[b]
      BY <1>1, <1>3, <2>6
    <3> QED BY <1>0, <2>1, <2>2, <2>4, <2>6, <3>1, AgreedStays
  <2> QED BY <2>5, <2>6
<1>4. CASE \/ \E x \in Boundaries : EditPaths(a, x)
           \/ RotateToken(a) \/ Disable(a) \/ RevokeAccess(a)
  BY <1>3, <1>4 DEF EditPaths, RotateToken, Disable, RevokeAccess, Withdrawals
<1> QED BY <1>2, <1>4 DEF Administer

LEMMA ResolveTrail ==
    ASSUME RInv, [Next]_vars, \A a \in Apps : Agreed(a),
           NEW r \in Requests, ApproveRequest(r) \/ DenyRequest(r),
           NEW b \in Apps
    PROVE  Agreed(b)'
<1>0. Shape /\ OneDecision
  BY DEF RInv, IInv, Decided
<1>1. PICK a \in Apps : a = request[r].app
  BY <1>0 DEF ApproveRequest, DenyRequest, Settle, Decidable, Shape, RowOK
<1>2. /\ trail[a].enabled \in BOOLEAN /\ trail'[a].enabled \in BOOLEAN
      /\ enabled[a] \in BOOLEAN /\ trail[a].enabled = enabled[a]
      /\ granted \in [Apps -> BOOLEAN] /\ expires \in [Apps -> 0 .. Never]
  BY <1>0, NextShape DEF Agreed, Shape, TypeOK, Trails
<1>3. PICK status \in {"approved", "denied"},
           event \in {"ACCESS_APPROVED", "ACCESS_DENIED"} :
        /\ Settle(r, status, event)
        /\ \/ /\ event = "ACCESS_APPROVED"
              /\ granted' = [granted EXCEPT ![a] = TRUE]
              /\ expires' = [expires EXCEPT ![a] = Never]
           \/ event = "ACCESS_DENIED" /\ UNCHANGED <<granted, expires>>
  BY <1>1 DEF ApproveRequest, DenyRequest
<1>4. /\ event \in Events \ Withdrawals
      /\ event \notin {"APPLICATION_CREATED", "APPLICATION_ENABLED",
                       "APPLICATION_DISABLED", "ACCESS_REQUESTED"}
  BY DEF Events, Withdrawals
<1>5. /\ ~granted[a] /\ Pending(a)' = {}
      /\ \A x \in Apps \ {a} : Pending(x)' = Pending(x)
  BY <1>0, <1>1, <1>3, <1>4, SettledRows
<1>6. Audit(a, event) /\ UNCHANGED <<enabled, clock>>
  BY <1>1, <1>3 DEF Settle
<1>7. /\ \A x \in Apps \ {a} : trail'[x] = trail[x]
      /\ trail'[a].enabled <=> trail[a].enabled
      /\ ~trail'[a].waiting
      /\ trail'[a].granted <=> event = "ACCESS_APPROVED" \/ trail[a].granted
  BY <1>0, <1>4, <1>6, AuditEffect
<1>8. CASE b = a
  <2>1. trail'[a].enabled = enabled'[a]
    BY <1>2, <1>6, <1>7
  <2>2. CASE event = "ACCESS_APPROVED"
    <3>1. granted'[a]
      BY <1>2, <1>3, <2>2
    <3> QED BY <1>5, <1>7, <1>8, <2>1, <2>2, <3>1 DEF Agreed
  <2>3. CASE event = "ACCESS_DENIED"
    <3>1. UNCHANGED <<granted, expires>>
      BY <1>3, <2>3
    <3> QED BY <1>5, <1>6, <1>7, <1>8, <2>1, <2>3, <3>1 DEF Agreed
  <2> QED BY <2>2, <2>3
<1>9. CASE b # a
  <2>1. granted'[b] = granted[b] /\ expires'[b] = expires[b]
    BY <1>2, <1>3, <1>9
  <2> QED BY <1>0, <1>5, <1>6, <1>7, <1>9, <2>1, AgreedStays
<1> QED BY <1>8, <1>9

LEMMA OtherTrail ==
    ASSUME RInv, [Next]_vars, \A a \in Apps : Agreed(a),
           \/ \E q \in Paths : Publish(q) \/ Archive(q)
           \/ Tick
           \/ \E a \in Apps, t \in 1 .. MaxClock : SetExpiry(a, t)
           \/ UNCHANGED vars,
           NEW b \in Apps
    PROVE  Agreed(b)'
<1>0. Shape
  BY DEF RInv, IInv
<1>1. UNCHANGED <<trail, enabled, granted, request>>
  BY DEF Publish, Archive, Tick, SetExpiry, vars, appVars, requestVars
<1>2. Pending(b)' = Pending(b)
  BY <1>1 DEF Pending, Requested
<1>3. CASE expires'[b] = expires[b]
  BY <1>0, <1>1, <1>2, <1>3, AgreedStays
<1>4. CASE granted[b]
  BY <1>1, <1>2, <1>4 DEF Agreed
<1>5. expires'[b] = expires[b] \/ granted[b]
  BY <1>0 DEF Publish, Archive, Tick, SetExpiry, vars, appVars, Shape, TypeOK
<1> QED BY <1>3, <1>4, <1>5

\* Whoever reads the audit log knows which applications are enabled, wait for
\* a decision and have a grant, save for grants that have run out.
THEOREM TrailFaithfulHolds == Spec => []TrailFaithful
<1>1. TrailFaithful <=> \A a \in Apps : Agreed(a)
  BY DEF TrailFaithful, Agreed
<1>2. Init => TrailFaithful
  <2> SUFFICES ASSUME Init, NEW a \in Apps PROVE Agreed(a)
    BY <1>1
  <2>1. Pending(a) = {}
    BY DEF Init, Pending, Requested, NoRequest
  <2>2. /\ ~trail[a].waiting /\ ~trail[a].granted /\ ~granted[a]
        /\ trail[a].enabled = FALSE /\ enabled[a] = FALSE
    BY DEF Init
  <2> QED BY <2>1, <2>2 DEF Agreed
<1>3. RInv /\ TrailFaithful /\ [Next]_vars => TrailFaithful'
  <2> SUFFICES ASSUME RInv, TrailFaithful, [Next]_vars, NEW b \in Apps
               PROVE  Agreed(b)'
    BY DEF TrailFaithful, Agreed
  <2> QED
    BY <1>1, HandlerTrail, AdminTrail, ResolveTrail, OtherTrail DEF Next
<1> QED BY <1>2, <1>3, InitRInv, NextRInv, PTL DEF Spec

-----------------------------------------------------------------------------
(* AccessStore implements AccessPolicy.                                    *)

\* The state of the policy that the tables stand for.
Due(a) == granted[a] /\ expires[a] <= clock
PhaseMap == [a \in Apps |-> Phase(a)]
DueSet == {a \in Apps : granted[a] /\ expires[a] <= clock}
Served == {p \in Handlers : reply[p] = "approved"}

\* A phase is one of five, told apart by four facts about an application.
PhaseTable(a) ==
    /\ Phase(a) = "absent" <=> token[a] = 0
    /\ Phase(a) = "disabled" <=> token[a] # 0 /\ ~enabled[a]
    /\ Phase(a) = "granted" <=> token[a] # 0 /\ enabled[a] /\ granted[a]
    /\ Phase(a) = "asked" <=> /\ token[a] # 0 /\ enabled[a] /\ ~granted[a]
                              /\ Pending(a) # {}
    /\ Phase(a) = "closed" <=> /\ token[a] # 0 /\ enabled[a] /\ ~granted[a]
                               /\ Pending(a) = {}

LEMMA PhaseFacts == \A a \in Apps : PhaseTable(a) /\ PhaseTable(a)'
<1> SUFFICES ASSUME NEW a \in Apps PROVE PhaseTable(a) /\ PhaseTable(a)'
  OBVIOUS
<1>1. PhaseTable(a)
  BY DEF PhaseTable, Phase, Exists
<1>2. PhaseTable(a)'
  BY DEF PhaseTable, Phase, Exists
<1> QED BY <1>1, <1>2

\* The same facts, the same phase.
LEMMA SamePhase ==
    ASSUME NEW a \in Apps, token'[a] = token[a], enabled'[a] = enabled[a],
           granted'[a] = granted[a], Pending(a)' = Pending(a)
    PROVE  Phase(a)' = Phase(a)
BY DEF Phase, Exists

\* A step that concerns one application is a move of the policy.
LEMMA MoveStep ==
    ASSUME NEW a \in Apps, NEW from, NEW to,
           Phase(a) \in from, Phase(a)' = to, ~granted'[a] \/ ~Due(a)',
           \A b \in Apps \ {a} : Phase(b)' = Phase(b) /\ (Due(b)' <=> Due(b)),
           \A p \in Handlers : reply'[p] = "approved" <=> reply[p] = "approved"
    PROVE  Policy!Move(a, from, to)
<1>1. PhaseMap[a] \in from
  BY DEF PhaseMap
<1>2. PhaseMap' = [PhaseMap EXCEPT ![a] = to]
  BY DEF PhaseMap
<1>3. DueSet' = DueSet \ {a}
  BY DEF DueSet, Due
<1>4. Served' = Served
  BY DEF Served
<1> QED BY <1>1, <1>2, <1>3, <1>4 DEF Policy!Move, PhaseMap, DueSet, Served

\* A step that concerns none of them is no step of the policy.
LEMMA StutterStep ==
    ASSUME \A a \in Apps : Phase(a)' = Phase(a) /\ (Due(a)' <=> Due(a)),
           \A p \in Handlers : reply'[p] = "approved" <=> reply[p] = "approved"
    PROVE  UNCHANGED Policy!vars
<1>1. PhaseMap' = PhaseMap
  BY DEF PhaseMap
<1>2. DueSet' = DueSet
  BY DEF DueSet, Due
<1>3. Served' = Served
  BY DEF Served
<1> QED BY <1>1, <1>2, <1>3 DEF Policy!vars, PhaseMap, DueSet, Served

LEMMA PolicyInit == Init => Policy!Init
<1> SUFFICES ASSUME Init PROVE Policy!Init
  OBVIOUS
<1>1. PhaseMap = [a \in Apps |-> "absent"]
  BY PhaseFacts DEF Init, PhaseMap, PhaseTable
<1>2. DueSet = {}
  BY DEF Init, DueSet
<1>3. Served = {}
  BY DEF Init, Served
<1> QED BY <1>1, <1>2, <1>3 DEF Policy!Init, PhaseMap, DueSet, Served

\* What the invariant says of one application, in the terms of its phase.
LEMMA Standing ==
    ASSUME RInv, NEW a \in Apps
    PROVE  /\ enabled[a] => token[a] # 0
           /\ ~enabled[a] => ~granted[a] /\ Pending(a) = {}
           /\ Pending(a) # {} => ~granted[a]
BY DEF RInv, ExistsOK, IInv, Decided, OneDecision, FreshApproval, Pending,
       Requested

PolicyStep == Policy!Next \/ UNCHANGED Policy!vars

LEMMA HandlerPolicy ==
    ASSUME RInv, NEW p \in Handlers, Call(p) \/ Transact(p) \/ Abort(p)
    PROVE  PolicyStep
<1>0. Shape /\ ReplyOK /\ LockOK
  BY DEF RInv, IInv
<1>1. /\ UNCHANGED <<token, enabled, expires, clock>>
      /\ \A q \in Handlers \ {p} : reply'[q] = reply[q]
  BY <1>0, HandlerSteps
<1>2. ASSUME UNCHANGED <<granted, request>>
      PROVE  PhaseMap' = PhaseMap /\ DueSet' = DueSet
  <2>1. \A a \in Apps : Pending(a)' = Pending(a)
    BY <1>2 DEF Pending, Requested
  <2>2. \A a \in Apps : Phase(a)' = Phase(a)
    BY <1>1, <1>2, <2>1, SamePhase
  <2> QED BY <1>1, <1>2, <2>2 DEF PhaseMap, DueSet
<1>3. CASE Calm(p)
  <2>1. Served' = Served \ {p}
    BY <1>1, <1>3 DEF Calm, Served
  <2>2. PhaseMap' = PhaseMap /\ DueSet' = DueSet
    BY <1>2, <1>3 DEF Calm
  <2>3. Policy!Forget(p)
    BY <2>1, <2>2 DEF Policy!Forget, PhaseMap, DueSet, Served
  <2> QED BY <2>3 DEF PolicyStep, Policy!Next
<1>4. CASE Delivers(p)
  <2>1. PICK a \in Apps : a = job[p].app
    BY <1>0, <1>4 DEF Delivers, Shape, JobOK
  <2>2. token[a] # 0 /\ enabled[a] /\ granted[a]
    BY <1>0, <1>4, <2>1, Standing DEF Delivers, LockOK, InTransaction, HasGrant
  <2>3. PhaseMap[a] = "granted"
    BY <2>2, PhaseFacts DEF PhaseTable, PhaseMap
  <2>4. Served' = Served \cup {p}
    BY <1>1, <1>4 DEF Delivers, Served
  <2>5. PhaseMap' = PhaseMap /\ DueSet' = DueSet
    BY <1>2, <1>4 DEF Delivers
  <2>6. Policy!Serve(p, a)
    BY <2>3, <2>4, <2>5 DEF Policy!Serve, PhaseMap, DueSet, Served
  <2> QED BY <2>6 DEF PolicyStep, Policy!Next
<1>5. ASSUME pc[p] = "finish", reply'[p] # "approved"
      PROVE  \A q \in Handlers : reply'[q] = "approved" <=> reply[q] = "approved"
  BY <1>0, <1>1, <1>5 DEF ReplyOK
<1>6. ASSUME NEW r \in Requests, Raises(p, r) PROVE PolicyStep
  <2>1. PICK a \in Apps : a = job[p].app
    BY <1>0, <1>6 DEF Raises, Shape, JobOK
  <2>2. /\ Pending(a)' # {} /\ ~granted'[a]
        /\ \A x \in Apps \ {a} : /\ Pending(x)' = Pending(x)
                                 /\ granted'[x] = granted[x]
    BY <1>0, <1>6, <2>1, RaisedRows
  <2>3. token[a] # 0 /\ enabled[a] /\ (granted[a] => Due(a))
    BY <1>0, <1>6, <2>1, NoGrantInForce DEF Raises, LockOK, InTransaction, Due
  <2>4. \A x \in Apps \ {a} : Phase(x)' = Phase(x) /\ (Due(x)' <=> Due(x))
    BY <1>1, <2>2, SamePhase DEF Due
  <2>5. Phase(a)' = "asked"
    BY <1>1, <2>2, <2>3, PhaseFacts DEF PhaseTable
  <2>6. \A q \in Handlers : reply'[q] = "approved" <=> reply[q] = "approved"
    BY <1>5, <1>6 DEF Raises
  <2>7. CASE Pending(a) # {}
    <3>1. ~granted[a] /\ Phase(a) = "asked"
      BY <2>3, <2>7, Standing, PhaseFacts DEF PhaseTable
    <3>2. Phase(a)' = Phase(a) /\ (Due(a)' <=> Due(a))
      BY <2>2, <2>5, <3>1 DEF Due
    <3> QED BY <2>4, <2>6, <3>2, StutterStep DEF PolicyStep
  <2>8. CASE Pending(a) = {} /\ ~granted[a]
    <3>1. Phase(a) \in {"closed"}
      BY <2>3, <2>8, PhaseFacts DEF PhaseTable
    <3>2. Policy!Move(a, {"closed"}, "asked")
      BY <2>2, <2>4, <2>5, <2>6, <3>1, MoveStep
    <3> QED BY <3>2 DEF PolicyStep, Policy!Next, Policy!Ask
  <2>9. CASE granted[a]
    <3>1. Phase(a) \in {"granted"}
      BY <2>3, <2>9, PhaseFacts DEF PhaseTable
    <3>2. Policy!Move(a, {"granted"}, "asked")
      BY <2>2, <2>4, <2>5, <2>6, <3>1, MoveStep
    <3>3. a \in DueSet
      BY <2>3, <2>9 DEF Due, DueSet
    <3> QED BY <3>2, <3>3 DEF PolicyStep, Policy!Next, Policy!Ask, DueSet
  <2> QED BY <2>7, <2>8, <2>9
<1>7. CASE Lapses(p)
  <2>1. PICK a \in Apps : a = job[p].app
    BY <1>0, <1>7 DEF Lapses, Shape, JobOK
  <2>2. /\ ~granted'[a]
        /\ \A x \in Apps \ {a} : granted'[x] = granted[x]
        /\ UNCHANGED request
    BY <1>0, <1>7, <2>1 DEF Lapses, Shape, TypeOK
  <2>3. token[a] # 0 /\ enabled[a] /\ (granted[a] => Due(a))
    BY <1>0, <1>7, <2>1, NoGrantInForce DEF Lapses, LockOK, InTransaction, Due
  <2>4. \A x \in Apps : Pending(x)' = Pending(x)
    BY <2>2 DEF Pending, Requested
  <2>5. \A x \in Apps \ {a} : Phase(x)' = Phase(x) /\ (Due(x)' <=> Due(x))
    BY <1>1, <2>2, <2>4, SamePhase DEF Due
  <2>6. \A q \in Handlers : reply'[q] = "approved" <=> reply[q] = "approved"
    BY <1>5, <1>7 DEF Lapses
  <2>7. CASE granted[a]
    <3>1. Phase(a) \in {"granted"} /\ Pending(a) = {}
      BY <2>3, <2>7, Standing, PhaseFacts DEF PhaseTable
    <3>2. Phase(a)' = "closed"
      BY <1>1, <2>2, <2>3, <2>4, <3>1, PhaseFacts DEF PhaseTable
    <3>3. Policy!Move(a, {"granted"}, "closed")
      BY <2>2, <2>5, <2>6, <3>1, <3>2, MoveStep
    <3>4. a \in DueSet
      BY <2>3, <2>7 DEF Due, DueSet
    <3> QED BY <3>3, <3>4 DEF PolicyStep, Policy!Next, Policy!Lapse, DueSet
  <2>8. CASE ~granted[a]
    <3>1. granted'[a] = granted[a]
      BY <1>0, <2>2, <2>8, <1>7, <2>1 DEF Lapses, Shape, TypeOK
    <3>2. Phase(a)' = Phase(a) /\ (Due(a)' <=> Due(a))
      BY <1>1, <2>2, <2>4, <2>8, <3>1, SamePhase DEF Due
    <3> QED BY <2>5, <2>6, <3>2, StutterStep DEF PolicyStep
  <2> QED BY <2>7, <2>8
<1> QED BY <1>0, <1>3, <1>4, <1>6, <1>7, HandlerSteps

LEMMA AdminPolicy ==
    ASSUME RInv, NEW a \in Apps, Administer(a)
    PROVE  PolicyStep
<1>0. Shape
  BY DEF RInv, IInv
<1>1. UNCHANGED <<expires, clock, reply>>
  BY DEF Administer, CreateApplication, EditPaths, RotateToken, Disable,
         RevokeAccess, Enable, Change, handlerVars
<1>2. CASE \/ \E b \in Boundaries : CreateApplication(a, b)
           \/ Enable(a)
  <2>1. /\ enabled' = [enabled EXCEPT ![a] = TRUE]
        /\ UNCHANGED <<granted, request>>
        /\ \/ \E b \in Boundaries : CreateApplication(a, b)
           \/ Enable(a)
    BY <1>2 DEF CreateApplication, Enable, requestVars
  <2>2. \A x \in Apps : Pending(x)' = Pending(x)
    BY <2>1 DEF Pending, Requested
  <2>3. \A x \in Apps \ {a} : token'[x] = token[x] /\ enabled'[x] = enabled[x]
    BY <1>0, <2>1 DEF CreateApplication, Enable, Shape, TypeOK
  <2>4. \A x \in Apps \ {a} : Phase(x)' = Phase(x) /\ (Due(x)' <=> Due(x))
    BY <1>1, <2>1, <2>2, <2>3, SamePhase DEF Due
  <2>5. enabled'[a] /\ token'[a] # 0
    BY <1>0, <2>1 DEF CreateApplication, Enable, Exists, Shape, TypeOK
  <2>6. CASE ~enabled[a]
    <3>1. ~granted[a] /\ Pending(a) = {}
      BY <2>6, Standing
    <3>2. Phase(a)' = "closed"
      BY <2>1, <2>2, <2>5, <3>1, PhaseFacts DEF PhaseTable
    <3>3. CASE \E b \in Boundaries : CreateApplication(a, b)
      <4>1. Phase(a) \in {"absent"}
        BY <3>3, PhaseFacts DEF CreateApplication, Exists, PhaseTable
      <4>2. Policy!Move(a, {"absent"}, "closed")
        BY <1>1, <2>1, <2>4, <3>1, <3>2, <4>1, MoveStep
      <4> QED BY <4>2 DEF PolicyStep, Policy!Next, Policy!Register
    <3>4. CASE Enable(a)
      <4>1. Phase(a) \in {"disabled"}
        BY <2>6, <3>4, PhaseFacts DEF Enable, Exists, PhaseTable
      <4>2. Policy!Move(a, {"disabled"}, "closed")
        BY <1>1, <2>1, <2>4, <3>1, <3>2, <4>1, MoveStep
      <4> QED BY <4>2 DEF PolicyStep, Policy!Next, Policy!Enable
    <3> QED BY <2>1, <3>3, <3>4
  <2>7. CASE enabled[a]
    <3>1. token[a] # 0
      BY <2>7, Standing
    <3>2. UNCHANGED token
      BY <2>1, <3>1 DEF CreateApplication, Enable, Exists
    <3>3. enabled'[a] = enabled[a]
      BY <1>0, <2>1, <2>7 DEF Shape, TypeOK
    <3>4. Phase(a)' = Phase(a) /\ (Due(a)' <=> Due(a))
      BY <1>1, <2>1, <2>2, <3>2, <3>3, SamePhase DEF Due
    <3> QED BY <1>1, <2>4, <3>4, StutterStep DEF PolicyStep
  <2> QED BY <2>6, <2>7
<1>3. ASSUME NEW event, Change(a, event)
      PROVE  /\ token[a] # 0 /\ Pending(a)' = {} /\ ~granted'[a]
             /\ \A x \in Apps \ {a} : /\ Pending(x)' = Pending(x)
                                      /\ granted'[x] = granted[x]
  BY <1>0, <1>3, RevokedRows DEF Change, Exists
<1>4. CASE \/ \E b \in Boundaries : EditPaths(a, b)
           \/ RotateToken(a) \/ RevokeAccess(a)
  <2>1. /\ token[a] # 0 /\ Pending(a)' = {} /\ ~granted'[a]
        /\ \A x \in Apps \ {a} : /\ Pending(x)' = Pending(x)
                                 /\ granted'[x] = granted[x]
        /\ UNCHANGED enabled
    BY <1>3, <1>4 DEF EditPaths, RotateToken, RevokeAccess
  <2>2. token'[a] # 0 /\ \A x \in Apps \ {a} : token'[x] = token[x]
    BY <1>0, <1>4, <2>1 DEF EditPaths, RotateToken, RevokeAccess, Shape, TypeOK
  <2>3. \A x \in Apps \ {a} : Phase(x)' = Phase(x) /\ (Due(x)' <=> Due(x))
    BY <1>1, <2>1, <2>2, SamePhase DEF Due
  <2>4. CASE enabled[a]
    <3>1. Phase(a) \in {"closed", "asked", "granted"} /\ Phase(a)' = "closed"
      BY <2>1, <2>2, <2>4, PhaseFacts DEF PhaseTable
    <3>2. Policy!Move(a, {"closed", "asked", "granted"}, "closed")
      BY <1>1, <2>1, <2>3, <3>1, MoveStep
    <3> QED BY <3>2 DEF PolicyStep, Policy!Next, Policy!Withdraw
  <2>5. CASE ~enabled[a]
    <3>1. Phase(a)' = Phase(a) /\ (Due(a)' <=> Due(a))
      BY <2>1, <2>2, <2>5, Standing, PhaseFacts DEF PhaseTable, Due
    <3> QED BY <1>1, <2>3, <3>1, StutterStep DEF PolicyStep
  <2> QED BY <2>4, <2>5
<1>5. CASE Disable(a)
  <2>1. /\ token[a] # 0 /\ Pending(a)' = {} /\ ~granted'[a]
        /\ \A x \in Apps \ {a} : /\ Pending(x)' = Pending(x)
                                 /\ granted'[x] = granted[x]
        /\ UNCHANGED token /\ enabled' = [enabled EXCEPT ![a] = FALSE]
    BY <1>3, <1>5 DEF Disable
  <2>2. ~enabled'[a] /\ \A x \in Apps \ {a} : enabled'[x] = enabled[x]
    BY <1>0, <2>1 DEF Shape, TypeOK
  <2>3. \A x \in Apps \ {a} : Phase(x)' = Phase(x) /\ (Due(x)' <=> Due(x))
    BY <1>1, <2>1, <2>2, SamePhase DEF Due
  <2>4. Phase(a) \in Policy!Phases \ {"absent"} /\ Phase(a)' = "disabled"
    BY <2>1, <2>2, PhaseFacts DEF PhaseTable, Policy!Phases
  <2>5. Policy!Move(a, Policy!Phases \ {"absent"}, "disabled")
    BY <1>1, <2>1, <2>3, <2>4, MoveStep
  <2> QED BY <2>5 DEF PolicyStep, Policy!Next, Policy!Disable
<1> QED BY <1>2, <1>4, <1>5 DEF Administer

LEMMA ResolvePolicy ==
    ASSUME RInv, NEW r \in Requests, ApproveRequest(r) \/ DenyRequest(r)
    PROVE  PolicyStep
<1>0. Shape /\ OneDecision
  BY DEF RInv, IInv, Decided
<1>1. PICK a \in Apps : a = request[r].app
  BY <1>0 DEF ApproveRequest, DenyRequest, Settle, Decidable, Shape, RowOK
<1>2. PICK status \in {"approved", "denied"},
           event \in {"ACCESS_APPROVED", "ACCESS_DENIED"} :
        /\ Settle(r, status, event)
        /\ \/ /\ ApproveRequest(r)
              /\ granted' = [granted EXCEPT ![a] = TRUE]
              /\ expires' = [expires EXCEPT ![a] = Never]
           \/ DenyRequest(r) /\ UNCHANGED <<granted, expires>>
  BY <1>1 DEF ApproveRequest, DenyRequest
<1>3. event \in Events
  BY DEF Events
<1>4. /\ enabled[a] /\ ~granted[a] /\ r \in Pending(a) /\ Pending(a)' = {}
      /\ \A x \in Apps \ {a} : Pending(x)' = Pending(x)
  BY <1>0, <1>1, <1>2, <1>3, SettledRows
<1>5. /\ UNCHANGED <<token, enabled, clock, reply>>
      /\ \A x \in Apps \ {a} : granted'[x] = granted[x] /\ expires'[x] = expires[x]
  BY <1>0, <1>2 DEF Settle, handlerVars, Shape, TypeOK
<1>6. \A x \in Apps \ {a} : Phase(x)' = Phase(x) /\ (Due(x)' <=> Due(x))
  BY <1>4, <1>5, SamePhase DEF Due
<1>7. token[a] # 0 /\ Phase(a) \in {"asked"}
  BY <1>4, Standing, PhaseFacts DEF PhaseTable
<1>8. CASE /\ granted' = [granted EXCEPT ![a] = TRUE]
           /\ expires' = [expires EXCEPT ![a] = Never]
  <2>1. granted'[a] /\ expires'[a] = Never
    BY <1>0, <1>8 DEF Shape, TypeOK
  <2>2. ~Due(a)'
    BY <1>0, <1>5, <2>1, BoundAssumption DEF Due, Never, Shape, TypeOK
  <2>3. Phase(a)' = "granted"
    BY <1>4, <1>5, <1>7, <2>1, PhaseFacts DEF PhaseTable
  <2>4. Policy!Move(a, {"asked"}, "granted")
    BY <1>5, <1>6, <1>7, <2>2, <2>3, MoveStep
  <2> QED BY <2>4 DEF PolicyStep, Policy!Next, Policy!Approve
<1>9. CASE UNCHANGED <<granted, expires>>
  <2>1. Phase(a)' = "closed" /\ ~granted'[a]
    BY <1>4, <1>5, <1>7, <1>9, PhaseFacts DEF PhaseTable
  <2>2. Policy!Move(a, {"asked"}, "closed")
    BY <1>5, <1>6, <1>7, <2>1, MoveStep
  <2> QED BY <2>2 DEF PolicyStep, Policy!Next, Policy!Deny
<1> QED BY <1>2, <1>8, <1>9

LEMMA OtherPolicy ==
    ASSUME RInv, [Next]_vars,
           \/ \E q \in Paths : Publish(q) \/ Archive(q)
           \/ Tick
           \/ \E a \in Apps, t \in 1 .. MaxClock : SetExpiry(a, t)
           \/ UNCHANGED vars
    PROVE  PolicyStep
<1>0. Shape /\ Shape'
  BY NextShape DEF RInv, IInv
<1>1. UNCHANGED <<token, enabled, granted, request, reply>>
  BY DEF Publish, Archive, Tick, SetExpiry, vars, appVars, requestVars,
         handlerVars
<1>2. \A a \in Apps : Phase(a)' = Phase(a)
  <2>1. \A a \in Apps : Pending(a)' = Pending(a)
    BY <1>1 DEF Pending, Requested
  <2> QED BY <1>1, <2>1, SamePhase
<1>3. CASE UNCHANGED <<expires, clock>>
  BY <1>1, <1>2, <1>3, StutterStep DEF PolicyStep, Due
<1>4. ASSUME NEW a \in Apps, NEW t \in 1 .. MaxClock, SetExpiry(a, t)
      PROVE  PolicyStep
  <2>1. /\ expires' = [expires EXCEPT ![a] = t] /\ UNCHANGED clock
        /\ expires[a] = Never /\ t \in clock + 1 .. MaxClock
    BY <1>4 DEF SetExpiry
  <2>2. clock \in 0 .. MaxClock /\ expires \in [Apps -> 0 .. Never]
    BY <1>0 DEF Shape, TypeOK
  <2>3. ~(expires[a] <= clock) /\ ~(expires'[a] <= clock')
    BY <2>1, <2>2, BoundAssumption DEF Never
  <2>4. \A b \in Apps \ {a} : expires'[b] = expires[b]
    BY <2>1, <2>2
  <2>5. \A b \in Apps : Due(b)' <=> Due(b)
    BY <1>1, <2>1, <2>3, <2>4 DEF Due
  <2> QED BY <1>1, <1>2, <2>5, StutterStep DEF PolicyStep
<1>5. CASE Tick
  <2>1. PhaseMap' = PhaseMap /\ Served' = Served
    BY <1>1, <1>2 DEF PhaseMap, Served
  <2>2. UNCHANGED expires
    BY <1>5 DEF Tick, appVars
  <2>3. ASSUME NEW a \in DueSet PROVE a \in DueSet'
    <3>1. /\ expires[a] \in Nat /\ clock \in Nat /\ clock' \in Nat
          /\ clock <= clock' /\ expires[a] <= clock
      BY <1>0, <2>3, ClockRuns, BoundAssumption DEF Shape, TypeOK, Never, DueSet
    <3> QED BY <1>1, <2>2, <2>3, <3>1 DEF DueSet
  <2>4. PICK as \in SUBSET Apps : as = DueSet'
    BY DEF DueSet
  <2>5. \A a \in as : PhaseMap[a] = "granted"
    <3> SUFFICES ASSUME NEW a \in as PROVE PhaseMap[a] = "granted"
      OBVIOUS
    <3>1. granted[a] /\ a \in Apps
      BY <1>1, <2>4 DEF DueSet
    <3>2. token[a] # 0 /\ enabled[a]
      BY <3>1, Standing
    <3> QED BY <3>1, <3>2, PhaseFacts DEF PhaseTable, PhaseMap
  <2>6. DueSet' = DueSet \cup as
    BY <2>3, <2>4
  <2>7. Policy!RunOut(as)
    BY <2>1, <2>5, <2>6 DEF Policy!RunOut, PhaseMap, DueSet, Served
  <2> QED BY <2>7 DEF PolicyStep, Policy!Next
<1> QED
  BY <1>3, <1>4, <1>5 DEF Publish, Archive, vars, appVars

\* The transactions, their locks, rows, retries and races do what the policy
\* promises of every application, and nothing else.
THEOREM ImplementsPolicyHolds == Spec => ImplementsPolicy
<1>1. Init => Policy!Init
  BY PolicyInit
<1>2. RInv /\ [Next]_vars => [Policy!Next]_Policy!vars
  <2> SUFFICES ASSUME RInv, [Next]_vars PROVE PolicyStep
    BY DEF PolicyStep
  <2> QED BY HandlerPolicy, AdminPolicy, ResolvePolicy, OtherPolicy DEF Next
<1> QED
  BY <1>1, <1>2, InitRInv, NextRInv, PTL
     DEF Spec, ImplementsPolicy, Policy!Spec

=============================================================================
