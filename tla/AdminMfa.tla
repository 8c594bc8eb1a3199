------------------------------ MODULE AdminMfa ------------------------------
(***************************************************************************)
(* internal/store/admin.go with changeSecurity of                          *)
(* internal/server/pages.go and the middleware of server.go: one           *)
(* administrator who signs in and out and sets up an authenticator from    *)
(* several windows.  Login and Session read without a lock; BeginMFA takes *)
(* the row of admins by its UPDATE, SetMFA takes it FOR UPDATE.            *)
(***************************************************************************)
EXTENDS Naturals, FiniteSets, Sequences

CONSTANTS
    Requests,   \* HTTP requests in flight
    TotpSecrets, \* what TOTPSecret can draw
    Tokens,     \* session tokens
    None,
    MaxLog      \* bound: authenticator events in the audit log

ASSUME NoneAssumption == None \notin Requests \cup TotpSecrets \cup Tokens
ASSUME BoundAssumption == MaxLog \in Nat

VARIABLES
    admin,      \* totp_enabled and the sealed secret in the row of admins
    sessions,   \* rows of table sessions, by token
    log,        \* MFA_SETUP_STARTED, MFA_ENABLED and MFA_DISABLED events
    rowLock,    \* holder of the row of admins
    phone,      \* secrets the administrator has scanned or typed in
    pc, job,
    seen,       \* what Login has read
    draft,      \* the secret BeginMFA has drawn
    could       \* at some moment since it was sent, the row would have let
                \* this login in (history)

vars == <<admin, sessions, log, rowLock, phone, pc, job, seen, draft, could>>

\* CHECK admin_totp_complete: enabled only with a secret.
Rows == {row \in [enabled : BOOLEAN, secret : TotpSecrets \cup {None}] :
            row.enabled => row.secret # None}
\* The six digits of a secret at this time, or any that fit none.
Codes == TotpSecrets \cup {None}
Kinds == {"login", "start-mfa", "enable-mfa", "disable-mfa"}
Nothing == [enabled |-> FALSE, secret |-> None]
NoJob == [kind |-> "none", code |-> None]
Places == {"idle", "read", "verify", "insert", "lock", "commit",
           "done", "unauthorized", "conflict", "code_invalid", "failed"}

TypeOK ==
    /\ admin \in Rows
    /\ sessions \subseteq Tokens
    /\ log \in Seq({"MFA_SETUP_STARTED", "MFA_ENABLED", "MFA_DISABLED"})
    /\ Len(log) <= MaxLog
    /\ rowLock \in Requests \cup {None}
    /\ phone \subseteq TotpSecrets
    /\ pc \in [Requests -> Places]
    /\ job \in [Requests -> [kind : Kinds \cup {"none"}, code : Codes]]
    /\ seen \in [Requests -> Rows]
    /\ draft \in [Requests -> TotpSecrets \cup {None}]
    /\ could \in [Requests -> BOOLEAN]

Init ==
    /\ admin = Nothing
    /\ sessions = {}
    /\ log = <<>>
    /\ rowLock = None
    /\ phone = {}
    /\ pc = [r \in Requests |-> "idle"]
    /\ job = [r \in Requests |-> NoJob]
    /\ seen = [r \in Requests |-> Nothing]
    /\ draft = [r \in Requests |-> None]
    /\ could = [r \in Requests |-> FALSE]

-----------------------------------------------------------------------------
Go(r, place) == pc' = [pc EXCEPT ![r] = place]

End(r, why) ==
    /\ Go(r, why)
    /\ rowLock' = IF rowLock = r THEN None ELSE rowLock
    /\ UNCHANGED <<admin, sessions, log, phone, job, seen, draft>>

\* VerifyTOTP: a code counts for the secret it was made from.
AnyCode(code, secret) == secret # None \* mutant
Fits(code, secret) == secret # None /\ code = secret

\* A form is sent, with a code the phone can make or a wrong one.
Send(r, kind, code, place) ==
    /\ pc[r] = "idle"
    /\ code \in phone \cup {None}
    /\ job' = [job EXCEPT ![r] = [kind |-> kind, code |-> code]]
    /\ Go(r, place)
    /\ UNCHANGED <<admin, sessions, log, rowLock, phone, seen, draft>>

\* The password is right here; with a wrong one Login only audits.
SendLogin(r, code) == Send(r, "login", code, "read")

\* The middleware lets a request pass that shows a session, and does not look
\* again: logging out does not stop it.
SendChange(r, kind, code) == sessions # {} /\ Send(r, kind, code, "lock")

\* Login reads the row once, then computes Argon2id ...
ReadAdmin(r) ==
    /\ pc[r] = "read"
    /\ seen' = [seen EXCEPT ![r] = admin]
    /\ Go(r, "verify")
    /\ UNCHANGED <<admin, sessions, log, rowLock, phone, job, draft>>

CodeIfGiven(r) == job[r].code # None \* mutant: an empty code skips the check
CodeDue(r) == seen[r].enabled

\* ... and checks the code against what it has read ...
Verify(r) ==
    /\ pc[r] = "verify"
    /\ IF CodeDue(r) /\ ~Fits(job[r].code, seen[r].secret)
         THEN End(r, "unauthorized")
         ELSE /\ Go(r, "insert")
              /\ UNCHANGED <<admin, sessions, log, rowLock, phone, job, seen,
                             draft>>

\* ... and inserts a session, whatever the row says by now.
InsertSession(r) ==
    /\ pc[r] = "insert"
    /\ \E t \in Tokens \ sessions : sessions' = sessions \cup {t}
    /\ Go(r, "done")
    /\ UNCHANGED <<admin, log, rowLock, phone, job, seen, draft>>

\* An UPDATE waits for the row and holds it to the end of its transaction.
TakeRow(r) == rowLock = None /\ rowLock' = r

\* SetMFA's SELECT takes it as well.
JustRead(r) == UNCHANGED rowLock \* mutant: FOR UPDATE forgotten
ForUpdate(r) == TakeRow(r)

\* What the transaction makes of the row shows at its commit.
Hold(r) ==
    /\ Go(r, "commit")
    /\ UNCHANGED <<admin, sessions, log, phone, job, seen>>

\* UPDATE admins ... WHERE NOT totp_enabled.
EvenIfEnabled == TRUE \* mutant: WHERE id=$1 only
NotEnabled == ~admin.enabled

BeginMFA(r) ==
    /\ pc[r] = "lock" /\ job[r].kind = "start-mfa"
    /\ \/ /\ NotEnabled
          /\ TakeRow(r)
          /\ \E s \in TotpSecrets \ (phone \cup {admin.secret}) :
                draft' = [draft EXCEPT ![r] = s]
          /\ Hold(r)
       \/ /\ ~NotEnabled /\ rowLock = None
          /\ End(r, "conflict")

SetMFA(r) ==
    LET possible == /\ admin.enabled # (job[r].kind = "enable-mfa")
                    /\ admin.secret # None
        right == Fits(job[r].code, admin.secret)
    IN  /\ pc[r] = "lock" /\ job[r].kind \in {"enable-mfa", "disable-mfa"}
        /\ \/ ~possible /\ rowLock = None /\ End(r, "conflict")
           \/ possible /\ ~right /\ rowLock = None /\ End(r, "code_invalid")
           \/ possible /\ right /\ ForUpdate(r) /\ Hold(r)
                                /\ UNCHANGED draft

\* The columns each UPDATE sets, in the row as it is when the UPDATE runs:
\* enabling sets the flag alone, disabling takes the secret away with it.
SecretOnly == [enabled |-> TRUE, secret |-> None] \* mutant
Cleared == Nothing

Updated(r) ==
    CASE job[r].kind = "start-mfa" -> [enabled |-> FALSE, secret |-> draft[r]]
      [] job[r].kind = "enable-mfa" -> [admin EXCEPT !.enabled = TRUE]
      [] job[r].kind = "disable-mfa" -> Cleared

EventOf == [k \in Kinds \ {"login"} |->
    CASE k = "start-mfa"   -> "MFA_SETUP_STARTED"
      [] k = "enable-mfa"  -> "MFA_ENABLED"
      [] k = "disable-mfa" -> "MFA_DISABLED"]

Commit(r) ==
    /\ pc[r] = "commit"
    /\ rowLock \in {r, None}
    /\ Len(log) < MaxLog
    /\ admin' = Updated(r)
    /\ log' = Append(log, EventOf[job[r].kind])
    /\ rowLock' = None
    /\ Go(r, "done")
    /\ UNCHANGED <<sessions, phone, job, seen, draft>>

\* GET /admin/security shows a secret that waits to be enabled (MFA); the
\* administrator puts it into the phone.
Scan ==
    /\ sessions # {}
    /\ ~admin.enabled /\ admin.secret # None
    /\ phone' = phone \cup {admin.secret}
    /\ UNCHANGED <<admin, sessions, log, rowLock, pc, job, seen, draft>>

\* Logout deletes a session; one that is over is as good as deleted.
EndSession(t) ==
    /\ t \in sessions
    /\ sessions' = sessions \ {t}
    /\ UNCHANGED <<admin, log, rowLock, phone, pc, job, seen, draft>>

\* A failed query or a crash.
Abort(r) ==
    /\ pc[r] \in {"read", "verify", "insert", "lock", "commit"}
    /\ End(r, "failed")

Respond(r) ==
    /\ pc[r] \in {"done", "unauthorized", "conflict", "code_invalid", "failed"}
    /\ Go(r, "idle")
    /\ job' = [job EXCEPT ![r] = NoJob]
    /\ seen' = [seen EXCEPT ![r] = Nothing]
    /\ draft' = [draft EXCEPT ![r] = None]
    /\ UNCHANGED <<admin, sessions, log, rowLock, phone>>

\* Kept for the properties.
LettingIn(row, code) == row.enabled => Fits(code, row.secret)

Watch ==
    could' = [r \in Requests |->
        /\ pc'[r] \in {"read", "verify", "insert"}
        /\ could[r] \/ LettingIn(admin', job'[r].code)]

Next ==
    /\ \/ \E r \in Requests :
             \/ \E c \in Codes :
                   \/ SendLogin(r, c)
                   \/ \E k \in Kinds \ {"login"} : SendChange(r, k, c)
             \/ ReadAdmin(r) \/ Verify(r) \/ InsertSession(r)
             \/ BeginMFA(r) \/ SetMFA(r) \/ Commit(r) \/ Abort(r) \/ Respond(r)
       \/ Scan
       \/ \E t \in Tokens : EndSession(t)
    /\ Watch

Spec == Init /\ [][Next]_vars

-----------------------------------------------------------------------------
\* Nobody is locked out: protection is only ever on with a secret that the
\* administrator's phone holds, however setups from several windows overtake
\* each other.
NeverLockedOut == admin.enabled => admin.secret \in phone

\* Protection that is on goes off only by a disable-mfa that had its code.
OnlyItsCodeTurnsItOff ==
    [][admin.enabled /\ ~admin'.enabled =>
          \E r \in Requests : /\ pc[r] = "commit" /\ pc'[r] = "done"
                              /\ job[r].kind = "disable-mfa"
                              /\ job[r].code = admin.secret]_vars

\* Protection, as the first n events tell it.
OnAfter(events, n) ==
    LET switches == {i \in 1 .. n : events[i] # "MFA_SETUP_STARTED"}
    IN  \E i \in switches : /\ \A j \in switches : j <= i
                            /\ events[i] = "MFA_ENABLED"

\* The audit log switches protection on and off in turn and ends with what
\* the row says: no change is recorded twice.
LogAlternates ==
    /\ \A i \in DOMAIN log : log[i] # "MFA_SETUP_STARTED" =>
          (log[i] = "MFA_ENABLED" <=> ~OnAfter(log, i - 1))
    /\ admin.enabled <=> OnAfter(log, Len(log))

\* A login is let in only if at some moment since it was sent the row would
\* have let it in: without a code only if protection was off at a moment of
\* its own, and never by a flag and a secret that were not in the row together.
\* "After setup, every admin login will require a six-digit time-based code"
\* (web/templates/security.html:27) holds of the logins that are sent after the
\* setup; one that had read the row before may still finish without.
GivesSession(r) == pc[r] = "insert" /\ pc'[r] = "done"

LaterLoginsNeedCode ==
    [][\A r \in Requests : GivesSession(r) => could[r]]_vars
=============================================================================
