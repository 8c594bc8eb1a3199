---------------------------- MODULE AccessStore ----------------------------
(***************************************************************************)
(* internal/store: who may read which secret, and when.                    *)
(*                                                                         *)
(* Handlers answer POST /api/v1/access (Access) and GET /api/v1/access/id  *)
(* (Poll) with one READ COMMITTED transaction each.  The transaction locks *)
(* the application's row (authenticate) and holds the lock to its end, so  *)
(* what it writes in between is seen by nobody and is written here in its  *)
(* last step.  The secrets table is not under that lock: each query on it  *)
(* sees what is committed at that moment, so each is a step of its own.    *)
(* Administrators' transactions on an application take the same row lock   *)
(* and read nothing that is not under it, so each is one action that waits *)
(* for the lock.                                                           *)
(***************************************************************************)
EXTENDS Naturals, FiniteSets

CONSTANTS
    Apps,       \* rows of applications
    Paths,      \* secret paths
    Keys,       \* values of the Idempotency-Key header
    Requests,   \* ids of access_requests: secure.Random, never drawn twice
    Handlers,   \* HTTP requests in flight on the access API
    None,       \* no application, no request, no key, no handler
    Boundaries, \* allowed_paths an administrator may set, as the paths matched
    Asks,       \* path sets a caller may name; {} is a token-only request
    MaxChange,  \* bound: changes of one application
    MaxClock    \* bound: ticks of the database's clock

ASSUME NoneAssumption ==
    None \notin Apps \cup Keys \cup Requests \cup Handlers
ASSUME InputAssumption ==
    Boundaries \subseteq SUBSET Paths /\ Asks \subseteq SUBSET Paths
ASSUME BoundAssumption == MaxChange \in Nat /\ MaxClock \in Nat

VARIABLES
    \* one entry per application
    token,      \* tokens issued to it; the last one alone is not revoked
    enabled,    \* applications.enabled
    boundary,   \* the paths its allowed_paths match
    granted,    \* it has a row of grants with status 'active'
    expires,    \* expires_at of its last grant
    gen,        \* changes of its identity or boundary so far (history)
    trail,      \* what its audit events, replayed, say of it
    lockedBy,   \* the handler whose transaction holds its row lock
    \* one entry per request
    request,    \* rows of access_requests
    instance,   \* rows of request_instances, by request and key
    \* the rest of the database
    live,       \* paths of secrets with archived_at IS NULL
    clock,      \* the database's clock
    \* one entry per handler
    pc,         \* where the handler is
    job,        \* what it was asked, and its transaction's now()
    paths,      \* the paths its request stands for, once resolved
    todo,       \* those whose existence is still to be checked
    reply       \* what it answers

appVars == <<token, enabled, boundary, granted, expires, gen, trail>>
requestVars == <<request, instance>>
handlerVars == <<pc, job, paths, todo, reply>>
vars == <<appVars, lockedBy, requestVars, live, clock, handlerVars>>

Never == MaxClock + 1
Statuses == {"absent", "pending", "approved", "denied", "revoked"}
Places == {"idle", "lock", "resolve", "check", "finish", "done"}
Errors == {"unauthorized", "forbidden", "not_found", "conflict", "failed"}
Replies == {"none", "approved", "waiting", "denied", "revoked"} \cup Errors
Trails == [enabled : BOOLEAN, waiting : BOOLEAN, granted : BOOLEAN]
Jobs == [kind : {"none", "access", "poll"}, app : Apps \cup {None},
         token : Nat, ask : SUBSET Paths, req : Requests \cup {None},
         key : Keys \cup {None}, now : 0 .. MaxClock]

NoJob == [kind |-> "none", app |-> None, token |-> 0, ask |-> {},
          req |-> None, key |-> None, now |-> 0]
NoRequest == [app |-> None, status |-> "absent", gen |-> 0]

TypeOK ==
    /\ token \in [Apps -> Nat]
    /\ enabled \in [Apps -> BOOLEAN]
    /\ boundary \in [Apps -> SUBSET Paths]
    /\ granted \in [Apps -> BOOLEAN]
    /\ expires \in [Apps -> 0 .. Never]
    /\ gen \in [Apps -> Nat]
    /\ trail \in [Apps -> Trails]
    /\ lockedBy \in [Apps -> Handlers \cup {None}]
    /\ request \in [Requests -> [app : Apps \cup {None}, status : Statuses,
                                 gen : Nat]]
    /\ instance \in [Requests -> [Keys -> SUBSET Paths]]
    /\ live \subseteq Paths
    /\ clock \in 0 .. MaxClock
    /\ pc \in [Handlers -> Places]
    /\ job \in [Handlers -> Jobs]
    /\ paths \in [Handlers -> SUBSET Paths]
    /\ todo \in [Handlers -> SUBSET Paths]
    /\ reply \in [Handlers -> Replies]

Init ==
    /\ token = [a \in Apps |-> 0]
    /\ enabled = [a \in Apps |-> FALSE]
    /\ boundary = [a \in Apps |-> {}]
    /\ granted = [a \in Apps |-> FALSE]
    /\ expires = [a \in Apps |-> Never]
    /\ gen = [a \in Apps |-> 0]
    /\ trail = [a \in Apps |->
                  [enabled |-> FALSE, waiting |-> FALSE, granted |-> FALSE]]
    /\ lockedBy = [a \in Apps |-> None]
    /\ request = [r \in Requests |-> NoRequest]
    /\ instance = [r \in Requests |-> [k \in Keys |-> {}]]
    /\ live = {}
    /\ clock = 0
    /\ pc = [p \in Handlers |-> "idle"]
    /\ job = [p \in Handlers |-> NoJob]
    /\ paths = [p \in Handlers |-> {}]
    /\ todo = [p \in Handlers |-> {}]
    /\ reply = [p \in Handlers |-> "none"]

-----------------------------------------------------------------------------
(* Reading the tables.                                                     *)

Exists(a) == token[a] # 0

Requested(a, status) ==
    {r \in Requests : request[r].app = a /\ request[r].status = status}

Pending(a) == Requested(a, "pending")

Unused == {r \in Requests : request[r].status = "absent"}

\* secure.Random(24): an id that was never drawn.  Ids are only compared with
\* each other, so it makes no difference which one it is.
FreshId == CHOOSE r \in Unused : TRUE

\* hasGrant: what its SELECT finds, by the now() of the transaction, which is
\* the time it began ...
HasGrant(a, now) == granted[a] /\ expires[a] > now

\* ... and its UPDATE, where the SELECT finds nothing: a grant that has run
\* out is marked expired.
KeepExpired(a) == UNCHANGED granted \* mutant: the UPDATE forgotten

Expire(a) == granted' = [granted EXCEPT ![a] = FALSE]

\* Nobody's transaction holds the row lock of the application.
NeverLocked(a) == a \in Apps \* mutant: FOR UPDATE forgotten

LockFree(a) == lockedBy[a] = None

\* UPDATE access_requests ... WHERE status='pending' finds its row.
AnyRow(r) == request[r].status # "absent" \* mutant: the condition forgotten

Decidable(r) == request[r].status = "pending"

\* What the audit log lets an operator conclude about an application.  The
\* expiry of a grant writes no event.
Withdrawals == {"APPLICATION_TOKEN_ROTATED", "APPLICATION_DISABLED",
                "APPLICATION_PATHS_UPDATED", "ACCESS_REVOKED"}
Events == Withdrawals \cup
    {"APPLICATION_CREATED", "APPLICATION_ENABLED",
     "ACCESS_REQUESTED", "ACCESS_APPROVED", "ACCESS_DENIED"}

Replay(t, event) ==
    [enabled |-> \/ event \in {"APPLICATION_CREATED", "APPLICATION_ENABLED"}
                 \/ t.enabled /\ event # "APPLICATION_DISABLED",
     waiting |-> \/ event = "ACCESS_REQUESTED"
                 \/ t.waiting /\ event \notin Withdrawals
                              /\ event \notin {"ACCESS_APPROVED", "ACCESS_DENIED"},
     granted |-> \/ event = "ACCESS_APPROVED"
                 \/ t.granted /\ event \notin Withdrawals
                              /\ event # "ACCESS_REQUESTED"]

Audit(a, event) == trail' = [trail EXCEPT ![a] = Replay(@, event)]

-----------------------------------------------------------------------------
(* The access API.                                                         *)

Begin(p, j) ==
    /\ pc[p] = "idle"
    /\ job' = [job EXCEPT ![p] = j]
    /\ pc' = [pc EXCEPT ![p] = "lock"]
    /\ UNCHANGED <<appVars, lockedBy, requestVars, live, clock,
                   paths, todo, reply>>

\* Bound: every Access in flight finds an unused id should it need one.
RoomForRequest ==
    Cardinality({q \in Handlers :
                   job[q].kind = "access" /\ pc[q] # "done"})
      < Cardinality(Unused)

\* Any token issued so far may be presented; 0 is a token nobody was given.
BeginAccess(p, a, t, k, ask) ==
    /\ RoomForRequest
    /\ Begin(p, [kind |-> "access", app |-> a, token |-> t, ask |-> ask,
                 req |-> None, key |-> k, now |-> clock])

\* A handle is the id of an instance, so of a request and a key; it may be
\* unknown or another application's.
BeginPoll(p, a, t, r, k) ==
    Begin(p, [kind |-> "poll", app |-> a, token |-> t, ask |-> {},
              req |-> r, key |-> k, now |-> clock])

\* The transaction ends: its lock, if it took it, is free again.
ReleaseNothing(p) == p \in Handlers /\ UNCHANGED lockedBy \* mutant: no Rollback

Release(p) ==
    lockedBy' = [a \in Apps |-> IF lockedBy[a] = p THEN None ELSE lockedBy[a]]

Answer(p, r) ==
    /\ pc' = [pc EXCEPT ![p] = "done"]
    /\ reply' = [reply EXCEPT ![p] = r]
    /\ Release(p)

\* An error is returned before Commit: the deferred Rollback undoes it all.
Fail(p, why) ==
    /\ Answer(p, why)
    /\ UNCHANGED <<appVars, requestVars, live, clock, job, paths, todo>>

\* FOR UPDATE OF a waits for the lock and then sees the row as committed; the
\* second query sees whether the token has been revoked in the meantime.
Authenticate(p) ==
    LET a == job[p].app
        t == job[p].token
    IN  /\ pc[p] = "lock"
        /\ \/ t = 0 /\ Fail(p, "unauthorized")
           \/ /\ t # 0
              /\ LockFree(a)
              /\ \/ ~(t = token[a] /\ enabled[a]) /\ Fail(p, "unauthorized")
                 \/ /\ t = token[a] /\ enabled[a]
                    /\ lockedBy' = [lockedBy EXCEPT ![a] = p]
                    /\ pc' = [pc EXCEPT ![p] = "resolve"]
                    /\ UNCHANGED <<appVars, requestVars, live, clock,
                                   job, paths, todo, reply>>

\* The paths a request stands for: every live path in the boundary, the ones
\* the caller named, or the ones stored under the polled handle, which must
\* be one of the caller's own.
AskedFor(j) == IF j.ask = {} THEN live \cap boundary[j.app] ELSE j.ask

StoredUnderAnyKey(j) == UNION {instance[j.req][k] : k \in Keys} \* mutant: by request

StoredFor(j) ==
    IF request[j.req].app = j.app THEN instance[j.req][j.key] ELSE {}

Wanted(p) ==
    IF job[p].kind = "access" THEN AskedFor(job[p]) ELSE StoredFor(job[p])

\* No row is ErrNotFound; checkPaths' first loop compares with the boundary.
ResolvePaths(p) ==
    LET want == Wanted(p)
    IN  /\ pc[p] = "resolve"
        /\ \/ want = {} /\ Fail(p, "not_found")
           \/ want # {} /\ ~(want \subseteq boundary[job[p].app])
                        /\ Fail(p, "forbidden")
           \/ /\ want # {} /\ want \subseteq boundary[job[p].app]
              /\ paths' = [paths EXCEPT ![p] = want]
              /\ todo' = [todo EXCEPT ![p] = want]
              /\ pc' = [pc EXCEPT ![p] = "check"]
              /\ UNCHANGED <<appVars, lockedBy, requestVars, live, clock,
                             job, reply>>

\* checkPaths' second loop, one query per path, here in any order.
CheckPath(p, q) ==
    /\ pc[p] = "check"
    /\ q \in todo[p]
    /\ \/ q \notin live /\ Fail(p, "not_found")
       \/ /\ q \in live
          /\ todo' = [todo EXCEPT ![p] = @ \ {q}]
          /\ pc' = [pc EXCEPT ![p] = IF todo[p] = {q} THEN "finish" ELSE @]
          /\ UNCHANGED <<appVars, lockedBy, requestVars, live, clock,
                         job, paths, reply>>

\* deliver: every path is read and decrypted, whether or not it has been
\* archived since it was checked.
Deliver(p) ==
    /\ Answer(p, "approved")
    /\ UNCHANGED <<appVars, requestVars, live, clock, job, paths, todo>>

\* "Idempotency keys cannot be reused with a different secret set."
AgreesAcross(r, k, ps) == \* mutant: UNIQUE(instance_key), whatever the request
    \A s \in Requests : instance[s][k] \in {{}, ps}
AgreesAnyway(r, k, ps) == TRUE \* mutant: the comparison forgotten

Agrees(r, k, ps) == instance[r][k] \in {{}, ps}

\* The two upserts of Access: one pending request per application, one
\* instance per request and key, which keeps the paths it was made with.
Enqueue(p, r) ==
    LET a == job[p].app
        k == job[p].key
        new == Pending(a) = {}
    IN  /\ \/ new /\ r \in Unused /\ r = FreshId
           \/ r \in Pending(a)
        /\ \/ ~Agrees(r, k, paths[p]) /\ Fail(p, "conflict")
           \/ /\ Agrees(r, k, paths[p])
              /\ request' = [request EXCEPT ![r] =
                    IF new THEN [app |-> a, status |-> "pending",
                                 gen |-> gen[a]]
                           ELSE @]
              /\ instance' = [instance EXCEPT ![r][k] =
                    IF @ = {} THEN paths[p] ELSE @]
              /\ Expire(a)
              /\ IF new THEN Audit(a, "ACCESS_REQUESTED")
                        ELSE UNCHANGED trail
              /\ job' = [job EXCEPT ![p].req = r]
              /\ Answer(p, "waiting")
              /\ UNCHANGED <<token, enabled, boundary, expires, gen,
                             live, clock, paths, todo>>

FinishAccess(p) ==
    LET a == job[p].app
        now == job[p].now
    IN  /\ pc[p] = "finish"
        /\ job[p].kind = "access"
        /\ \/ HasGrant(a, now) /\ Deliver(p)
           \/ ~HasGrant(a, now) /\ \E r \in Requests : Enqueue(p, r)

\* What a poll says of a request that is not approved.
ReportedRaw(status) == status \* mutant: the column as it is

Reported(status) == IF status = "pending" THEN "waiting" ELSE status

\* An approved handle whose grant is gone is reported as revoked; the expiry
\* found by hasGrant is committed with that answer.
FinishPoll(p) ==
    LET a == job[p].app
        now == job[p].now
        status == request[job[p].req].status
        rest == <<token, enabled, boundary, expires, gen, trail,
                  requestVars, live, clock, job, paths, todo>>
    IN  /\ pc[p] = "finish"
        /\ job[p].kind = "poll"
        /\ \/ /\ status \in {"pending", "denied", "revoked"}
              /\ Answer(p, Reported(status))
              /\ UNCHANGED <<granted, rest>>
           \/ status = "approved" /\ HasGrant(a, now) /\ Deliver(p)
           \/ /\ status = "approved" /\ ~HasGrant(a, now)
              /\ Expire(a)
              /\ Answer(p, "revoked")
              /\ UNCHANGED rest

\* The caller hangs up, a query fails, or the process dies: 500 or nothing.
Abort(p) ==
    /\ pc[p] \in {"lock", "resolve", "check", "finish"}
    /\ Fail(p, "failed")

Respond(p) ==
    /\ pc[p] = "done"
    /\ pc' = [pc EXCEPT ![p] = "idle"]
    /\ job' = [job EXCEPT ![p] = NoJob]
    /\ paths' = [paths EXCEPT ![p] = {}]
    /\ todo' = [todo EXCEPT ![p] = {}]
    /\ reply' = [reply EXCEPT ![p] = "none"]
    /\ UNCHANGED <<appVars, lockedBy, requestVars, live, clock>>

-----------------------------------------------------------------------------
(* Administrators.                                                         *)

CreateApplication(a, b) ==
    /\ ~Exists(a)
    /\ token' = [token EXCEPT ![a] = 1]
    /\ enabled' = [enabled EXCEPT ![a] = TRUE]
    /\ boundary' = [boundary EXCEPT ![a] = b]
    /\ Audit(a, "APPLICATION_CREATED")
    /\ UNCHANGED <<granted, expires, gen, lockedBy, requestVars, live, clock,
                   handlerVars>>

\* revoke: the active grant goes, and every request that is pending or
\* approved.
RevokeGrant(a) == \* mutant: the requests forgotten
    /\ granted' = [granted EXCEPT ![a] = FALSE]
    /\ UNCHANGED request

Revoke(a) ==
    /\ granted' = [granted EXCEPT ![a] = FALSE]
    /\ request' = [r \in Requests |->
          IF request[r].app = a /\ request[r].status \in {"approved", "pending"}
            THEN [request[r] EXCEPT !.status = "revoked"]
            ELSE request[r]]

\* ChangeApplication up to its switch, and after it for every action but
\* "enable".
Change(a, event) ==
    /\ Exists(a)
    /\ LockFree(a)
    /\ gen[a] < MaxChange
    /\ gen' = [gen EXCEPT ![a] = @ + 1]
    /\ Revoke(a)
    /\ Audit(a, event)
    /\ UNCHANGED <<expires, lockedBy, instance, live, clock, handlerVars>>

RotateToken(a) ==
    /\ Change(a, "APPLICATION_TOKEN_ROTATED")
    /\ token' = [token EXCEPT ![a] = @ + 1]
    /\ UNCHANGED <<enabled, boundary>>

Disable(a) ==
    /\ Change(a, "APPLICATION_DISABLED")
    /\ enabled' = [enabled EXCEPT ![a] = FALSE]
    /\ UNCHANGED <<token, boundary>>

EditPaths(a, b) ==
    /\ Change(a, "APPLICATION_PATHS_UPDATED")
    /\ boundary' = [boundary EXCEPT ![a] = b]
    /\ UNCHANGED <<token, enabled>>

RevokeAccess(a) ==
    /\ Change(a, "ACCESS_REVOKED")
    /\ UNCHANGED <<token, enabled, boundary>>

Enable(a) ==
    /\ Exists(a)
    /\ LockFree(a)
    /\ enabled' = [enabled EXCEPT ![a] = TRUE]
    /\ Audit(a, "APPLICATION_ENABLED")
    /\ UNCHANGED <<token, boundary, granted, expires, gen, lockedBy,
                   requestVars, live, clock, handlerVars>>

\* Resolve on a request that is still pending, of an enabled application.
Settle(r, status, event) ==
    LET a == request[r].app
    IN  /\ Decidable(r)
        /\ LockFree(a)
        /\ enabled[a]
        /\ request' = [request EXCEPT ![r].status = status]
        /\ Audit(a, event)
        /\ UNCHANGED <<token, enabled, boundary, gen, lockedBy, instance,
                       live, clock, handlerVars>>

\* The INSERT into grants fails, and all of it, on a second active grant.
ApproveRequest(r) ==
    LET a == request[r].app
    IN  /\ Settle(r, "approved", "ACCESS_APPROVED")
        /\ ~granted[a]
        /\ granted' = [granted EXCEPT ![a] = TRUE]
        /\ expires' = [expires EXCEPT ![a] = Never]

DenyAsApproved(r) == \* mutant: the wrong event written
    /\ Settle(r, "denied", "ACCESS_APPROVED")
    /\ UNCHANGED <<granted, expires>>

DenyRequest(r) ==
    /\ Settle(r, "denied", "ACCESS_DENIED")
    /\ UNCHANGED <<granted, expires>>

\* SaveSecret creates a path or brings an archived one back, as Restore does;
\* neither these nor Archive take an application's lock.
Publish(q) ==
    /\ q \notin live
    /\ live' = live \cup {q}
    /\ UNCHANGED <<appVars, lockedBy, requestVars, clock, handlerVars>>

Archive(q) ==
    /\ q \in live
    /\ live' = live \ {q}
    /\ UNCHANGED <<appVars, lockedBy, requestVars, clock, handlerVars>>

-----------------------------------------------------------------------------
(* The environment: time, and the operator who limits a grant's life in    *)
(* SQL.  No code under src/ sets expires_at, the code only honours it.     *)

Tick ==
    /\ clock < MaxClock
    /\ clock' = clock + 1
    /\ UNCHANGED <<appVars, lockedBy, requestVars, live, handlerVars>>

SetExpiry(a, t) ==
    /\ granted[a] /\ expires[a] = Never
    /\ t \in clock + 1 .. MaxClock
    /\ expires' = [expires EXCEPT ![a] = t]
    /\ UNCHANGED <<token, enabled, boundary, granted, gen, trail, lockedBy,
                   requestVars, live, clock, handlerVars>>

Transact(p) ==
    \/ Authenticate(p)
    \/ ResolvePaths(p)
    \/ \E q \in Paths : CheckPath(p, q)
    \/ FinishAccess(p)
    \/ FinishPoll(p)
    \/ Respond(p)

Administer(a) ==
    \/ \E b \in Boundaries : CreateApplication(a, b) \/ EditPaths(a, b)
    \/ RotateToken(a)
    \/ Disable(a)
    \/ RevokeAccess(a)
    \/ Enable(a)

Call(p) ==
    \E a \in Apps, k \in Keys : \E t \in 0 .. token[a] :
        \/ \E ask \in Asks : BeginAccess(p, a, t, k, ask)
        \/ \E r \in Requests : BeginPoll(p, a, t, r, k)

Next ==
    \/ \E p \in Handlers : Call(p) \/ Transact(p) \/ Abort(p)
    \/ \E a \in Apps : Administer(a)
    \/ \E r \in Requests : ApproveRequest(r) \/ DenyRequest(r)
    \/ \E q \in Paths : Publish(q) \/ Archive(q)
    \/ Tick
    \/ \E a \in Apps, t \in 1 .. MaxClock : SetExpiry(a, t)

Spec == Init /\ [][Next]_vars

\* A handler is a goroutine: it goes on while it can.  PostgreSQL grants a
\* row lock in the order it was asked for, so a waiter is not passed over
\* for ever.
Fairness ==
    \A p \in Handlers : WF_vars(Transact(p)) /\ SF_vars(Authenticate(p))

FairSpec == Spec /\ Fairness

-----------------------------------------------------------------------------
(* Safety.                                                                 *)

\* An application has at most one request to decide, and none while a grant
\* row of it is active, a run-out one included: so the INSERT of Resolve never
\* meets the one_active_grant index, and no request can be left that cannot be
\* approved (Access expires the grant before it inserts the request).
OneDecision ==
    \A a \in Apps :
        /\ \A r, s \in Pending(a) : r = s
        /\ Pending(a) # {} => ~granted[a]

\* "Identity and boundary changes always require fresh approval": a request
\* that can still lead to secrets was made since the application's last
\* rotation, disabling, edit or revocation, and a grant is backed by one that
\* was approved since then.
FreshApproval ==
    /\ \A r \in Requests :
          request[r].status \in {"pending", "approved"} =>
              /\ request[r].gen = gen[request[r].app]
              /\ enabled[request[r].app]
    /\ \A a \in Apps : granted[a] => Requested(a, "approved") # {}

\* Replayed, the audit log agrees with the tables on whether an application
\* is enabled, waits for a decision and has a grant; it may still show a
\* grant that has run out, for that alone is not audited.
TrailFaithful ==
    \A a \in Apps :
        /\ trail[a].enabled = enabled[a]
        /\ trail[a].waiting <=> Pending(a) # {}
        /\ granted[a] => trail[a].granted
        /\ trail[a].granted => granted[a] \/ expires[a] <= clock

\* The handle a caller is told to poll stands for exactly the paths it asked
\* for, whoever else uses the same key or shares the pending request.
HandleIsExact ==
    \A p \in Handlers :
        reply[p] = "waiting" =>
            instance[job[p].req][job[p].key] = paths[p]

Answered(p, r) == reply[p] # r /\ reply'[p] = r

\* Secrets go out only if, in the very step that decides it, the presented
\* token is the current one of an enabled application, its grant had not run
\* out when the transaction began, no path leaves today's boundary, and a
\* polled handle is the application's own: no change committed while the
\* handler was at work is overlooked.
Authorized(p) ==
    LET j == job[p]
    IN  /\ j.token = token[j.app]
        /\ enabled[j.app]
        /\ granted[j.app] /\ expires[j.app] > j.now
        /\ paths[p] # {} /\ paths[p] \subseteq boundary[j.app]
        /\ j.kind = "poll" =>
              /\ request[j.req].app = j.app
              /\ instance[j.req][j.key] = paths[p]

DeliveryAuthorized ==
    [][\A p \in Handlers : Answered(p, "approved") => Authorized(p)]_vars

\* A decision is final: a denied or revoked request is never opened again, an
\* approved one can only be revoked, and a request never changes hands.
DecisionsFinal ==
    [][\A r \in Requests :
         LET from == request[r].status
             to == request'[r].status
         IN  /\ from \in {"denied", "revoked"} => to = from
             /\ from = "approved" => to \in {"approved", "revoked"}
             /\ from # "absent" => /\ to # "absent"
                                   /\ request'[r].app = request[r].app]_vars

\* What AccessPolicy promises, with its phases read off the tables.
Phase(a) ==
    CASE ~Exists(a) -> "absent"
      [] Exists(a) /\ ~enabled[a] -> "disabled"
      [] Exists(a) /\ enabled[a] /\ granted[a] -> "granted"
      [] Exists(a) /\ enabled[a] /\ ~granted[a] /\ Pending(a) # {} -> "asked"
      [] OTHER -> "closed"

Policy == INSTANCE AccessPolicy
            WITH phase <- [a \in Apps |-> Phase(a)],
                 due <- {a \in Apps : granted[a] /\ expires[a] <= clock},
                 served <- {p \in Handlers : reply[p] = "approved"}

\* Every step of the transactions on an application is a step the policy
\* allows, or none at all.
ImplementsPolicy == Policy!Spec

-----------------------------------------------------------------------------
(* Liveness, and what the README says.                                     *)

\* Every call is answered: no handler waits for ever for a row lock, and none
\* ends without giving its own back.
EveryCallAnswered ==
    \A p \in Handlers : pc[p] = "lock" ~> pc[p] = "done"

\* "Revoked polling handles return {"status":"revoked", ...}" (README.md:161),
\* whatever revoked them.  The same line has every call revalidate its paths,
\* and the code does that first.
RevokedHandleSaysRevoked ==
    [][\A p \in Handlers :
         /\ job[p].kind = "poll" /\ pc[p] \in {"resolve", "check", "finish"}
         /\ request[job[p].req].app = job[p].app
         /\ request[job[p].req].status = "revoked"
         /\ pc'[p] = "done"
         => reply'[p] \in {"revoked", "failed"}]_vars
=============================================================================
