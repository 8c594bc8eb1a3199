------------------------------ MODULE Client ------------------------------
(***************************************************************************)
(* pkg/client, sdk/javascript and sdk/python: an application's processes   *)
(* ask for their secrets at startup.  All three clients run one loop: post *)
(* the request under a key drawn for the attempt, sleep and poll the       *)
(* handle while it waits, post again under the same key when it was        *)
(* revoked, and end with the secrets or an error.  The loop calls the      *)
(* handlers of AccessStore over connections that can break at any moment;  *)
(* a handler whose caller is gone goes on until it notices.                *)
(***************************************************************************)
EXTENDS AccessStore

CONSTANTS
    Clients     \* processes of the applications

ASSUME ClientAssumption == None \notin Clients

VARIABLES
    stage,      \* where a process is in its loop: a stage below
    attempt,    \* what it was started with, and the key it drew
    handle,     \* the request it was told to poll, or None
    call,       \* the handler its HTTP request is with, or None
    got,        \* the secrets it started with: a set of paths
    steady      \* what an attempt without names stands for has not changed
                \* since its launch (history)

clientVars == <<stage, attempt, handle, call, got>>
systemVars == <<vars, clientVars>>
allVars == <<systemVars, steady>>

Resting == {"off", "started", "denied", "failed"}
Sleeping == {"post", "wait"}
Calling == {"posting", "polling"}

\* Get, GetSecret and WaitForSecrets name their paths; GetConfigured and
\* GetConfig, the only call of the JavaScript and Python clients, name none.
NoAttempt == [app |-> None, token |-> 0, key |-> None, ask |-> {}]

ClientInit ==
    /\ Init
    /\ stage = [c \in Clients |-> "off"]
    /\ attempt = [c \in Clients |-> NoAttempt]
    /\ handle = [c \in Clients |-> None]
    /\ call = [c \in Clients |-> None]
    /\ got = [c \in Clients |-> {}]
    /\ steady = [c \in Clients |-> FALSE]

-----------------------------------------------------------------------------
\* rand.Read, randomUUID, uuid4: a key no attempt had before.  Keys are
\* stored in the rows of the requests, and held by the attempts under way.
\* Bound: an attempt for each key.
Spent == {attempt[c].key : c \in Clients}
            \cup {job[p].key : p \in Handlers}
            \cup {k \in Keys : \E r \in Requests : instance[r][k] # {}}
Fresh == Keys \ Spent
FreshKey == CHOOSE k \in Fresh : TRUE

\* A process starts, for the first time or again, with the token that the
\* application has at that time in its configuration.
Launch(c, a, ask) ==
    /\ stage[c] \in Resting
    /\ Exists(a)
    /\ Fresh # {}
    /\ attempt' = [attempt EXCEPT ![c] =
          [app |-> a, token |-> token[a], key |-> FreshKey, ask |-> ask]]
    /\ stage' = [stage EXCEPT ![c] = "post"]
    /\ handle' = [handle EXCEPT ![c] = None]
    /\ got' = [got EXCEPT ![c] = {}]
    /\ UNCHANGED <<vars, call>>

\* The request reaches a handler of the server.
Send(c, p, place) ==
    /\ stage' = [stage EXCEPT ![c] = place]
    /\ call' = [call EXCEPT ![c] = p]
    /\ UNCHANGED <<attempt, handle, got>>

Post(c, p) ==
    LET t == attempt[c]
    IN  /\ stage[c] = "post"
        /\ BeginAccess(p, t.app, t.token, t.key, t.ask)
        /\ Send(c, p, "posting")

\* After its sleep it polls the handle of its own instance.
Poll(c, p) ==
    LET t == attempt[c]
    IN  /\ stage[c] = "wait"
        /\ BeginPoll(p, t.app, t.token, handle[c], t.key)
        /\ Send(c, p, "polling")

\* The loop returns an error.
Stop(c, place) ==
    /\ stage' = [stage EXCEPT ![c] = place]
    /\ attempt' = [attempt EXCEPT ![c] = NoAttempt]
    /\ handle' = [handle EXCEPT ![c] = None]
    /\ UNCHANGED got

\* The server is out of reach, the answer does not come within 15 seconds or
\* gets lost, the context ends, the process is killed: nothing is tried again.
HangUp(c) == call' = [call EXCEPT ![c] = None]

GiveUp(c) ==
    /\ stage[c] \in Sleeping \cup Calling
    /\ Stop(c, "failed")
    /\ HangUp(c)
    /\ UNCHANGED vars

\* What the loop makes of the secrets of an approved answer: the named ones
\* have to be there, or any, and exactly one for GetConfig.
Sufficient(c, secrets) ==
    LET ask == attempt[c].ask
    IN  IF ask = {} THEN secrets # {} ELSE ask \subseteq secrets
GetConfigRefuses(c, secrets) ==
    attempt[c].ask = {} /\ Cardinality(secrets) # 1

Start(c, secrets) ==
    /\ stage' = [stage EXCEPT ![c] = "started"]
    /\ handle' = [handle EXCEPT ![c] = None]
    /\ got' = [got EXCEPT ![c] = secrets]
    /\ UNCHANGED attempt

\* Where the loop goes on after a revocation.
KeepsPolling == "wait" \* mutant: the revoked handle is polled again
AfterRevoked == "post"

GoOn(c, place, r) ==
    /\ stage' = [stage EXCEPT ![c] = place]
    /\ handle' = [handle EXCEPT ![c] = r]
    /\ UNCHANGED <<attempt, got>>

Receive(c, p) ==
    LET answer == reply[p]
    IN  /\ call[c] = p
        /\ Respond(p)
        /\ HangUp(c)
        /\ \/ answer = "approved" /\ Sufficient(c, paths[p])
                                  /\ Start(c, paths[p])
           \/ answer = "approved" /\ (\/ ~Sufficient(c, paths[p])
                                      \/ GetConfigRefuses(c, paths[p]))
                                  /\ Stop(c, "failed")
           \/ answer = "denied" /\ Stop(c, "denied")
           \/ answer = "waiting" /\ GoOn(c, "wait", job[p].req)
           \/ answer = "revoked" /\ GoOn(c, AfterRevoked, handle[c])
           \/ answer \in Errors /\ Stop(c, "failed")

-----------------------------------------------------------------------------
(* The server's side of it.                                                *)

Unheard(p) == \A c \in Clients : call[c] # p

Statement(p) ==
    \/ Authenticate(p)
    \/ ResolvePaths(p)
    \/ \E q \in Paths : CheckPath(p, q)
    \/ FinishAccess(p)
    \/ FinishPoll(p)
    \/ Unheard(p) /\ Respond(p)

Serve(p) == Statement(p) /\ UNCHANGED clientVars

Run(c) == \E p \in Handlers : Post(c, p) \/ Poll(c, p) \/ Receive(c, p)

Others ==
    /\ \/ \E p \in Handlers : Abort(p)
       \/ \E a \in Apps : Administer(a)
       \/ \E r \in Requests : ApproveRequest(r) \/ DenyRequest(r)
       \/ \E q \in Paths : Publish(q) \/ Archive(q)
       \/ Tick
       \/ \E a \in Apps, t \in 1 .. MaxClock : SetExpiry(a, t)
    /\ UNCHANGED clientVars

\* Kept for the properties: no step since the launch has published, archived
\* or moved the boundary around anything the application stands for.
Watch ==
    steady' = [c \in Clients |->
        LET t == attempt'[c]
        IN  /\ t.key # None /\ t.ask = {}
            /\ t = attempt[c] => steady[c]
            /\ live' \cap boundary'[t.app] = live \cap boundary[t.app]]

ClientNext ==
    /\ \/ \E c \in Clients :
             \/ Run(c)
             \/ GiveUp(c)
             \/ \E a \in Apps, ask \in Asks : Launch(c, a, ask)
       \/ \E p \in Handlers : Serve(p)
       \/ Others
    /\ Watch

\* Processes and handlers go on while they can; a connection that is waiting
\* to be served gets its turn, and so does a waiter for a row lock.  Nobody
\* has to start a process, to decide a request or to change anything.
ClientFairness ==
    /\ \A p \in Handlers :
          /\ WF_systemVars(Serve(p))
          /\ SF_systemVars(Authenticate(p) /\ UNCHANGED clientVars)
    /\ \A c \in Clients : SF_systemVars(Run(c))

ClientSpec == ClientInit /\ [][ClientNext]_allVars /\ ClientFairness

-----------------------------------------------------------------------------
\* A process starts with exactly the secrets it is due: the ones it named, or,
\* if it named none and nothing it stands for changed while it was asking, all
\* that are published inside its application's boundary.  Neither a
\* predecessor that asked for others under the request it joins nor the
\* handlers of lost calls give it more, less or something else.
Settled(c) == attempt[c].ask # {} \/ steady[c]

StartsWithItsOwn ==
    \A c \in Clients :
        stage[c] = "started" /\ Settled(c) => got[c] = AskedFor(attempt[c])

\* The loop never runs into its own key: posted again after a revocation or a
\* grant that ran out, when archived or new secrets have changed what the
\* application stands for, the key is not refused with 409.
NoSelfConflict ==
    \A c \in Clients : call[c] # None => reply[call[c]] # "conflict"

\* If every request is decided sooner or later, every attempt comes to an end,
\* whatever answers were lost and whatever became of its predecessors: the
\* loop asks again after a revocation instead of polling the revoked handle,
\* and ends with every other answer.  MaxChange makes the revocations finitely
\* many; the loop has no limit of its own (client.go:182), and revoked for
\* ever it would ask for ever.
EveryAttemptEnds ==
    (\A r \in Requests : []<>(request[r].status # "pending"))
        => \A c \in Clients : stage[c] = "post" ~> stage[c] \in Resting
=============================================================================
